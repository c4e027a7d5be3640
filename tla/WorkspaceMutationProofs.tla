----------------------- MODULE WorkspaceMutationProofs -----------------------
(***************************************************************************)
(* WorkspaceMutation is atomic, and unlinks nobody's work, for any number  *)
(* of nodes that other programs may put into the directory.                *)
(***************************************************************************)
EXTENDS WorkspaceMutation, TLAPS

Before == {"discover", "check", "stage", "publish"}

(* Which operation can be where, and what it has found. *)
Phase ==
    /\ result = None <=> pc # "done"
    /\ pc # "done" => unlinked = {}
    /\ pc = "check" => op = "rename"
    /\ pc \in {"stage", "discard"} => op = "write"
    /\ pc = "verify" => op \in {"create", "write"}
    /\ pc \in {"inspect", "restore", "cleanup"} => op # "create"
    /\ pc = "commit" => op \in {"write", "remove"}
    /\ seen # Mine
    /\ pc \in Before => ~disturbed

(* The temporary name belongs to the operation alone. *)
Held ==
    /\ pc \in {"inspect", "verify", "restore", "cleanup", "discard"} /\ op = "write" =>
           dir["temporary"] # Absent
    /\ pc = "commit" => dir["temporary"] = seen
    /\ op \in {"create", "rename"} => dir["temporary"] = Absent

Same == \A n \in Shared : dir[n] = shadow[n]

(* As long as nobody acted after the call that changed the directory, it   *)
(* differs from what others see in their own changes by that call only.    *)
Changed ==
    \/ /\ op = "create" /\ dir["target"] = Mine /\ shadow["target"] = Absent
       /\ dir["destination"] = shadow["destination"]
    \/ /\ op = "write" /\ dir["target"] = Mine /\ dir["temporary"] = shadow["target"]
       /\ dir["destination"] = shadow["destination"] /\ shadow["target"] # Absent
    \/ /\ op = "remove" /\ dir["target"] = Absent /\ dir["temporary"] = shadow["target"]
       /\ dir["destination"] = shadow["destination"] /\ shadow["target"] # Absent
    \/ /\ op = "rename" /\ dir["target"] = Absent /\ dir["destination"] = shadow["target"]
       /\ shadow["destination"] = Absent /\ shadow["target"] # Absent

Layout ==
    /\ pc \in Before =>
           Same /\ dir["temporary"] = IF pc = "publish" /\ op = "write" THEN Mine ELSE Absent
    /\ pc \in {"inspect", "verify", "restore", "commit"} /\ ~disturbed => Changed
    /\ pc \in {"cleanup", "discard"} /\ ~disturbed =>
           Same /\ dir["temporary"] = IF op = "write" THEN Mine ELSE Absent

Inv == TypeOK /\ Phase /\ Held /\ Layout /\ Atomic /\ ForeignKept

(* An operation starts with nothing changed. *)
LEMMA InitHolds == Init => Inv
<1> SUFFICES ASSUME Init PROVE Inv
  OBVIOUS
<1> USE MutationAssumption DEF Init, Node, Name, Shared, Operation, Result,
        Refusal, Before
<1>1. TypeOK
  BY DEF TypeOK
<1>2. Phase /\ Held /\ Layout
  BY DEF Phase, Held, Layout, Same
<1>3. Atomic /\ ForeignKept
  BY DEF Atomic, ForeignKept
<1>. QED
  BY <1>1, <1>2, <1>3 DEF Inv

(* No step breaks the invariant. *)
LEMMA NextKeeps == Inv /\ [Next]_vars => Inv'
<1> SUFFICES ASSUME Inv, [Next]_vars PROVE Inv'
  OBVIOUS
<1> USE MutationAssumption DEF Inv, Node, Name, Shared, Operation, Result, Refusal,
        Before
<1>1. CASE OtherProgram
  <2>1. TypeOK'
    <3>1. dir' \in [Name -> Node \cup {Absent}]
      BY <1>1 DEF TypeOK, OtherProgram, Link
    <3>2. shadow' \in [Shared -> Foreign \cup {Old, Absent}]
      BY <1>1 DEF TypeOK, OtherProgram, Link
    <3>3. pc' \in {"inspect", "cleanup", "done", pc} /\ result' \in Result \cup {None}
      BY <1>1 DEF Phase, OtherProgram
    <3>4. UNCHANGED <<op, seen, unlinked>> /\ disturbed' \in BOOLEAN
      BY <1>1 DEF OtherProgram
    <3>. QED
      BY <3>1, <3>2, <3>3, <3>4 DEF TypeOK
  <2>2. Phase'
    BY <1>1 DEF Phase, OtherProgram, Published
  <2>3. Held'
    BY <1>1 DEF TypeOK, Held, OtherProgram, Link
  <2>4. Layout'
    BY <1>1 DEF TypeOK, Layout, Same, OtherProgram, Link, Published
  <2>5. Atomic'
    BY <1>1 DEF Phase, Atomic, OtherProgram
  <2>6. ForeignKept'
    BY <1>1 DEF ForeignKept, OtherProgram
  <2>. QED
    BY <2>1, <2>2, <2>3, <2>4, <2>5, <2>6
<1>2. CASE Fail
  <2>1. TypeOK'
    BY <1>2 DEF TypeOK, Layout, Fail, Unlink, Link, Answer
  <2>2. Phase'
    BY <1>2 DEF Phase, Fail, Answer
  <2>3. Held'
    BY <1>2 DEF Held, Fail, Answer
  <2>4. Layout'
    BY <1>2 DEF Layout, Fail, Answer
  <2>5. Atomic'
    BY <1>2 DEF Atomic, Fail, Answer
  <2>6. ForeignKept'
    BY <1>2 DEF Phase, Layout, ForeignKept, Fail, Unlink, Answer
  <2>. QED
    BY <2>1, <2>2, <2>3, <2>4, <2>5, <2>6
<1>3. CASE Discover
  <2>1. TypeOK'
    <3>1. dir["target"] \in Node \cup {Absent}
      BY DEF TypeOK
    <3>2. seen' \in Node \cup {None} /\ UNCHANGED <<op, dir, shadow, unlinked, disturbed>>
      BY <1>3, <3>1 DEF TypeOK, Discover, At, Regular
    <3>3. pc' \in {"stage", "publish", "check", "done"} /\ result' \in Result \cup {None}
      BY <1>3 DEF Phase, Discover, At, Goto, Refuse, Answer
    <3>. QED
      BY <3>2, <3>3 DEF TypeOK
  <2>2. Phase'
    BY <1>3 DEF TypeOK, Phase, Layout, Same, Discover, At, Goto, Refuse, Answer
  <2>3. Held'
    BY <1>3 DEF Held, Discover, At, Goto, Refuse, Answer
  <2>4. Layout'
    BY <1>3 DEF Layout, Same, Discover, At, Goto, Refuse, Answer
  <2>5. Atomic'
    BY <1>3 DEF TypeOK, Layout, Same, Atomic, Applied, Clean, Visible, Discover,
       At, Goto, Refuse, Answer
  <2>6. ForeignKept'
    BY <1>3 DEF Phase, ForeignKept, Discover, At
  <2>. QED
    BY <2>1, <2>2, <2>3, <2>4, <2>5, <2>6
<1>4. CASE DiscoverChanged
  <2>1. TypeOK'
    BY <1>4 DEF TypeOK, DiscoverChanged, At, Looks, Answer
  <2>2. Phase'
    BY <1>4 DEF Phase, DiscoverChanged, Looks, Answer
  <2>3. Held'
    BY <1>4 DEF Held, DiscoverChanged, At, Looks, Answer
  <2>4. Layout'
    BY <1>4 DEF Layout, DiscoverChanged, Answer
  <2>5. Atomic'
    BY <1>4 DEF TypeOK, Layout, Same, Atomic, Clean, Visible, DiscoverChanged, At,
       Looks, Answer
  <2>6. ForeignKept'
    BY <1>4 DEF Phase, ForeignKept, DiscoverChanged, At, Looks
  <2>. QED
    BY <2>1, <2>2, <2>3, <2>4, <2>5, <2>6
<1>5. CASE Check
  <2>1. TypeOK'
    BY <1>5 DEF TypeOK, Check, At, Goto, Answer, Looks
  <2>2. Phase'
    <3>1. UNCHANGED <<op, dir, shadow, seen, unlinked, disturbed>>
      BY <1>5 DEF Check, At, Looks
    <3>2. (pc = "discover" /\ op = "create") \/ pc = "check"
      BY <1>5 DEF Check, At
    <3>3. CASE dir[Filled] = Absent
      <4>1. pc' = "publish" /\ result' = result
        BY <1>5, <3>3 DEF Check, Goto
      <4>. QED
        BY <3>1, <3>2, <4>1 DEF Phase
    <3>4. CASE dir[Filled] # Absent
      <4>1. pc' = "done" /\ result' \in Result
        BY <1>5, <3>4 DEF Check, Answer
      <4>. QED
        BY <3>1, <3>2, <4>1 DEF Phase
    <3>. QED
      BY <3>3, <3>4
  <2>3. Held'
    BY <1>5 DEF Held, Check, At, Goto, Answer, Looks
  <2>4. Layout'
    BY <1>5 DEF Phase, Layout, Same, Check, At, Goto, Answer, Looks
  <2>5. Atomic'
    <3>1. CASE dir[Filled] = Absent
      BY <1>5, <3>1 DEF Phase, Atomic, Check, At, Goto
    <3>2. CASE dir[Filled] # Absent /\ dir[Filled] \in Other
      BY <1>5, <3>2 DEF Atomic, Check, Answer
    <3>3. CASE dir[Filled] # Absent /\ dir[Filled] \notin Other
      BY <1>5, <3>3, ZenonT(30) DEF TypeOK, Layout, Same, Changed, Atomic, Applied, Clean,
         Visible, Check, At, Filled, Answer, Looks
    <3>. QED
      BY <3>1, <3>2, <3>3
  <2>6. ForeignKept'
    BY <1>5 DEF Phase, ForeignKept, Check, At, Looks
  <2>. QED
    BY <2>1, <2>2, <2>3, <2>4, <2>5, <2>6
<1>6. CASE Stage
  <2>1. TypeOK'
    BY <1>6 DEF TypeOK, Stage, At, Changes, Link, Goto
  <2>2. Phase'
    BY <1>6 DEF Phase, Stage, At, Changes, Goto
  <2>3. Held'
    BY <1>6 DEF Phase, Held, Stage, At, Goto
  <2>4. Layout'
    BY <1>6 DEF TypeOK, Phase, Layout, Same, Stage, At, Link, Goto
  <2>5. Atomic'
    BY <1>6 DEF Phase, Atomic, Stage, At, Goto
  <2>6. ForeignKept'
    BY <1>6 DEF ForeignKept, Stage, At, Changes, Goto
  <2>. QED
    BY <2>1, <2>2, <2>3, <2>4, <2>5, <2>6
<1>7. CASE PublishCreate
  <2>1. TypeOK'
    BY <1>7 DEF TypeOK, PublishCreate, At, Changes, Link, Goto, Answer
  <2>2. Phase'
    BY <1>7 DEF Phase, PublishCreate, At, Changes, Goto, Answer
  <2>3. Held'
    BY <1>7 DEF TypeOK, Held, PublishCreate, At, Link, Goto, Answer
  <2>4. Layout'
    BY <1>7 DEF TypeOK, Layout, Same, Changed, PublishCreate, At, Link, Goto, Answer
  <2>5. Atomic'
    BY <1>7 DEF TypeOK, Phase, Layout, Same, Atomic, Clean, Visible, PublishCreate,
       At, Goto, Answer
  <2>6. ForeignKept'
    BY <1>7 DEF Phase, ForeignKept, PublishCreate, At, Changes
  <2>. QED
    BY <2>1, <2>2, <2>3, <2>4, <2>5, <2>6
<1>8. CASE PublishWrite
  <2>1. TypeOK'
    BY <1>8 DEF TypeOK, Layout, PublishWrite, At, Exchange, Goto, Unlink, Link, Answer
  <2>2. Phase'
    BY <1>8 DEF Phase, PublishWrite, At, Goto, Answer
  <2>3. Held'
    BY <1>8 DEF TypeOK, Held, PublishWrite, At, Exchange, Goto, Answer
  <2>4. Layout'
    BY <1>8 DEF TypeOK, Layout, Same, Changed, PublishWrite, At, Exchange, Goto, Answer
  <2>5. Atomic'
    <3>1. CASE pc' = "inspect"
      BY <1>8, <2>2, <3>1 DEF Phase, Atomic
    <3>2. CASE pc' # "inspect"
      <4>1. Unlink("temporary") /\ result' \in {"changed", "unavailable"}
        BY <1>8, <3>2 DEF PublishWrite, Goto, Answer
      <4>2. Clean' /\ \A n \in Shared : dir'[n] = shadow'[n]
        BY <1>8, <4>1 DEF TypeOK, Layout, Same, Clean, PublishWrite, At, Unlink, Link
      <4>3. Visible' = shadow'
        BY <2>1, <4>2 DEF TypeOK, Visible
      <4>. QED
        BY <4>1, <4>2, <4>3 DEF Atomic
    <3>. QED
      BY <3>1, <3>2
  <2>6. ForeignKept'
    BY <1>8 DEF Phase, Layout, ForeignKept, PublishWrite, At, Unlink, Answer
  <2>. QED
    BY <2>1, <2>2, <2>3, <2>4, <2>5, <2>6
<1>9. CASE PublishMove
  <2>1. TypeOK'
    <3>1. dir' \in [Name -> Node \cup {Absent}]
      BY <1>9, ZenonT(30) DEF TypeOK, PublishMove, Move
    <3>2. shadow' \in [Shared -> Foreign \cup {Old, Absent}]
      BY <1>9 DEF TypeOK, PublishMove, At
    <3>3. pc' \in {"inspect", "cleanup", "done", pc} /\ result' \in Result \cup {None}
      BY <1>9 DEF Phase, PublishMove, At, Goto, Answer
    <3>4. UNCHANGED <<op, seen, unlinked>> /\ disturbed' \in BOOLEAN
      BY <1>9 DEF TypeOK, PublishMove, At, Changes
    <3>. QED
      BY <3>1, <3>2, <3>3, <3>4 DEF TypeOK
  <2>2. Phase'
    BY <1>9 DEF Phase, PublishMove, At, Changes, Goto, Answer
  <2>3. Held'
    BY <1>9 DEF TypeOK, Held, PublishMove, At, Destination, Move, Goto, Answer
  <2>4. Layout'
    BY <1>9 DEF TypeOK, Layout, Same, Changed, PublishMove, At, Destination, Move,
       Goto, Answer
  <2>5. Atomic'
    BY <1>9 DEF TypeOK, Phase, Layout, Same, Atomic, Clean, Visible, PublishMove,
       At, Goto, Answer
  <2>6. ForeignKept'
    BY <1>9 DEF Phase, ForeignKept, PublishMove, At, Changes
  <2>. QED
    BY <2>1, <2>2, <2>3, <2>4, <2>5, <2>6
<1>10. CASE PublishUnavailable
  <2>1. TypeOK'
    BY <1>10 DEF TypeOK, PublishUnavailable, At, Looks, Answer
  <2>2. Phase'
    BY <1>10 DEF Phase, PublishUnavailable, Looks, Answer
  <2>3. Held'
    BY <1>10 DEF Held, PublishUnavailable, At, Looks, Answer
  <2>4. Layout'
    BY <1>10 DEF Layout, PublishUnavailable, Answer
  <2>5. Atomic'
    BY <1>10 DEF TypeOK, Layout, Same, Atomic, Clean, Visible, PublishUnavailable,
       At, Looks, Answer
  <2>6. ForeignKept'
    BY <1>10 DEF Phase, ForeignKept, PublishUnavailable, At, Looks
  <2>. QED
    BY <2>1, <2>2, <2>3, <2>4, <2>5, <2>6
<1>11. CASE Inspect
  <2>1. TypeOK'
    BY <1>11 DEF TypeOK, Inspect, At, Looks, Refuse, Goto, Answer
  <2>2. Phase'
    BY <1>11 DEF Phase, Inspect, At, Looks, Refuse, Goto, Answer
  <2>3. Held'
    BY <1>11 DEF Held, Inspect, At, Looks, Captured, Destination, Refuse, Goto,
       SameIdentity, Answer
  <2>4. Layout'
    BY <1>11 DEF Layout, Changed, Inspect, At, Looks, Refuse, Goto, Answer
  <2>5. Atomic'
    BY <1>11 DEF Phase, Held, Layout, Changed, Atomic, Applied, Clean, Visible,
       Inspect, At, Looks, Captured, Destination, Refuse, Goto, Answer
  <2>6. ForeignKept'
    BY <1>11 DEF Phase, ForeignKept, Inspect, At, Looks
  <2>. QED
    BY <2>1, <2>2, <2>3, <2>4, <2>5, <2>6
<1>12. CASE Verify
  <2>1. TypeOK'
    BY <1>12 DEF TypeOK, Verify, At, Looks, Refuse, Goto, Answer
  <2>2. Phase'
    BY <1>12 DEF Phase, Verify, At, Looks, Refuse, Goto, Answer
  <2>3. Held'
    BY <1>12 DEF Held, Verify, At, Looks, Refuse, Goto, SameIdentity, Answer
  <2>4. Layout'
    BY <1>12 DEF Layout, Changed, Verify, At, Looks, Refuse, Goto, Answer
  <2>5. Atomic'
    BY <1>12 DEF Phase, Held, Layout, Changed, Atomic, Applied, Clean, Visible,
       Verify, At, Looks, Refuse, Goto, Answer
  <2>6. ForeignKept'
    BY <1>12 DEF Phase, ForeignKept, Verify, At, Looks
  <2>. QED
    BY <2>1, <2>2, <2>3, <2>4, <2>5, <2>6
<1>13. CASE Commit
  <2>1. TypeOK'
    BY <1>13 DEF TypeOK, Held, Commit, At, Unlink, Link, Answer
  <2>2. Phase'
    BY <1>13 DEF Phase, Commit, Answer
  <2>3. Held'
    BY <1>13 DEF Phase, Held, Commit, At, Answer
  <2>4. Layout'
    BY <1>13 DEF Layout, Commit, Answer
  <2>5. Atomic'
    BY <1>13 DEF TypeOK, Layout, Changed, Atomic, Applied, Clean, Visible, Commit,
       At, Unlink, Link, Answer
  <2>6. ForeignKept'
    BY <1>13 DEF Phase, Held, ForeignKept, Commit, At, Unlink, Answer
  <2>. QED
    BY <2>1, <2>2, <2>3, <2>4, <2>5, <2>6
<1>14. CASE RestoreExchange
  <2>1. TypeOK'
    <3>1. dir["target"] \in Node \cup {Absent} /\ dir["temporary"] \in Node \cup {Absent}
      BY DEF TypeOK
    <3>2. dir' \in [Name -> Node \cup {Absent}]
      BY <1>14, <3>1, ZenonT(30) DEF TypeOK, RestoreExchange, Exchange
    <3>3. pc' \in {"cleanup", "done"} /\ result' \in Result \cup {None}
      BY <1>14 DEF Phase, RestoreExchange, At, Goto, Answer
    <3>4. UNCHANGED <<op, shadow, seen, unlinked, disturbed>>
      BY <1>14 DEF RestoreExchange, At, Changes
    <3>. QED
      BY <3>2, <3>3, <3>4 DEF TypeOK
  <2>2. Phase'
    BY <1>14 DEF Phase, RestoreExchange, At, Changes, Goto, Answer
  <2>3. Held'
    BY <1>14 DEF TypeOK, Held, RestoreExchange, At, Exchange, Goto, Answer
  <2>4. Layout'
    <3>1. CASE pc' = "done"
      BY <1>14, <3>1 DEF Layout
    <3>2. CASE pc' = "cleanup" /\ op = "write"
      <4>1. dir'["target"] = dir["temporary"] /\ dir'["temporary"] = dir["target"]
        BY <1>14, <3>2 DEF TypeOK, RestoreExchange, Exchange, Answer
      <4>2. dir'["destination"] = dir["destination"]
        BY <1>14, <3>2 DEF TypeOK, RestoreExchange, Exchange
      <4>3. pc = "restore" /\ UNCHANGED <<op, shadow, disturbed>>
        BY <1>14 DEF RestoreExchange, At
      <4>4. ~disturbed => Changed
        BY <4>3 DEF Layout
      <4>5. ~disturbed => Same' /\ dir'["temporary"] = IF op = "write" THEN Mine ELSE Absent
        BY <4>1, <4>2, <4>3, <4>4, <3>2 DEF Changed, Same
      <4>. QED
        BY <4>3, <4>5, <3>2 DEF Layout
    <3>. QED
      BY <1>14, <3>1, <3>2 DEF RestoreExchange, Goto, Answer
  <2>5. Atomic'
    BY <1>14 DEF Layout, Changed, Atomic, Clean, RestoreExchange, At, Goto
  <2>6. ForeignKept'
    BY <1>14 DEF Layout, ForeignKept, Changed, RestoreExchange, At, Changes, Goto,
       Answer
  <2>. QED
    BY <2>1, <2>2, <2>3, <2>4, <2>5, <2>6
<1>15. CASE RestoreMove
  <2>1. TypeOK'
    <3>1. dir' \in [Name -> Node \cup {Absent}]
      BY <1>15 DEF TypeOK, RestoreMove, Destination, Move
    <3>2. shadow' \in [Shared -> Foreign \cup {Old, Absent}]
      BY <1>15 DEF TypeOK, RestoreMove, At
    <3>3. pc' \in {"inspect", "cleanup", "done", pc} /\ result' \in Result \cup {None}
      BY <1>15 DEF Phase, RestoreMove, At, Goto, Answer
    <3>4. UNCHANGED <<op, seen, unlinked>> /\ disturbed' \in BOOLEAN
      BY <1>15 DEF TypeOK, RestoreMove, At, Changes
    <3>. QED
      BY <3>1, <3>2, <3>3, <3>4 DEF TypeOK
  <2>2. Phase'
    BY <1>15 DEF Phase, RestoreMove, At, Changes, Goto, Answer
  <2>3. Held'
    BY <1>15 DEF TypeOK, Held, RestoreMove, At, Move, Goto, Answer
  <2>4. Layout'
    <3>1. CASE pc' = "done"
      BY <1>15, <3>1 DEF Layout
    <3>3. CASE pc' = "cleanup" /\ op = "remove"
      <4>1. dir'["target"] = dir["temporary"] /\ dir'["temporary"] = Absent
        BY <1>15, <3>3 DEF TypeOK, RestoreMove, Destination, Move, Answer
      <4>2. dir'["destination"] = dir["destination"]
        BY <1>15, <3>3, ZenonT(30) DEF TypeOK, RestoreMove, Destination, Move, Goto
      <4>3. pc = "restore" /\ UNCHANGED <<op, shadow, disturbed>>
        BY <1>15 DEF RestoreMove, At
      <4>4. ~disturbed => Changed
        BY <4>3 DEF Layout
      <4>5. ~disturbed => Same' /\ dir'["temporary"] = IF op = "write" THEN Mine ELSE Absent
        BY <4>1, <4>2, <4>3, <4>4, <3>3 DEF Changed, Same
      <4>. QED
        BY <4>3, <4>5, <3>3 DEF Layout
    <3>4. CASE pc' = "cleanup" /\ op = "rename"
      BY <1>15, <3>4 DEF TypeOK, Held, Layout, Same, Changed, RestoreMove, At,
         Destination, Move
    <3>. QED
      BY <1>15, <3>1, <3>3, <3>4 DEF RestoreMove, Goto, Answer
  <2>5. Atomic'
    BY <1>15 DEF Phase, Atomic, RestoreMove, At, Goto, Answer
  <2>6. ForeignKept'
    BY <1>15 DEF Layout, ForeignKept, Changed, RestoreMove, At, Changes,
       Destination, Goto, Answer
  <2>. QED
    BY <2>1, <2>2, <2>3, <2>4, <2>5, <2>6
<1>16. CASE Restored
  <2>1. TypeOK'
    BY <1>16 DEF TypeOK, Restored, At, Looks, Goto, Answer
  <2>2. Phase'
    BY <1>16 DEF Phase, Restored, At, Looks, Goto, Answer
  <2>3. Held'
    BY <1>16 DEF Held, Restored, At, Looks, Goto, Answer
  <2>4. Layout'
    BY <1>16 DEF Layout, Same, Restored, At, Looks, Goto, Answer
  <2>5. Atomic'
    BY <1>16 DEF TypeOK, Layout, Same, Atomic, Clean, Visible, Restored, At, Looks,
       Goto, Answer
  <2>6. ForeignKept'
    BY <1>16 DEF Phase, ForeignKept, Restored, At, Looks
  <2>. QED
    BY <2>1, <2>2, <2>3, <2>4, <2>5, <2>6
<1>17. CASE Discard
  <2>1. TypeOK'
    BY <1>17, ZenonT(30) DEF TypeOK, Phase, Held, Discard, At, Unlink, Link, Answer
  <2>2. Phase'
    BY <1>17 DEF Phase, Discard, Answer
  <2>3. Held'
    BY <1>17 DEF Phase, Held, Discard, At, Answer
  <2>4. Layout'
    BY <1>17 DEF Layout, Discard, Answer
  <2>5. Atomic'
    BY <1>17 DEF TypeOK, Layout, Same, Atomic, Clean, Visible, Discard, At, Unlink,
       Link, Answer
  <2>6. ForeignKept'
    BY <1>17 DEF Phase, Layout, ForeignKept, Discard, At, Unlink, Answer
  <2>. QED
    BY <2>1, <2>2, <2>3, <2>4, <2>5, <2>6
<1>18. CASE UNCHANGED vars
  <2>1. TypeOK'
    BY <1>18 DEF vars, TypeOK
  <2>2. Phase'
    BY <1>18 DEF vars, Phase
  <2>3. Held'
    BY <1>18 DEF vars, Held
  <2>4. Layout'
    BY <1>18 DEF vars, Layout, Same, Changed
  <2>5. Atomic'
    BY <1>18 DEF vars, Atomic, Applied, Clean, Visible
  <2>6. ForeignKept'
    BY <1>18 DEF vars, ForeignKept
  <2>. QED
    BY <2>1, <2>2, <2>3, <2>4, <2>5, <2>6
<1>. QED
  BY <1>1, <1>2, <1>3, <1>4, <1>5, <1>6, <1>7, <1>8, <1>9, <1>10, <1>11, <1>12,
     <1>13, <1>14, <1>15, <1>16, <1>17, <1>18 DEF Next

(* Every reachable state satisfies the inductive invariant; its parts say *)
(* where an operation is, what is under its temporary name, and how the   *)
(* directory differs from what the other programs made of it.             *)
THEOREM Invariance == Spec => []Inv
<1>1. Init => Inv
  BY InitHolds
<1>2. Inv /\ [Next]_vars => Inv'
  BY NextKeeps
<1>. QED
  BY <1>1, <1>2, PTL DEF Spec

(* An operation that answers has done all of it or nothing, whatever other *)
(* programs put under its names before its one publishing call             *)
(* (mutation.rs: create, write, remove, rename and their repairs).         *)
THEOREM OperationsAtomic == Spec => []Atomic
<1>1. Inv => Atomic
  BY DEF Inv
<1>. QED
  BY <1>1, Invariance, PTL

(* No operation unlinks a file that another program put in its way, for    *)
(* any number of such files.                                               *)
THEOREM NobodysFileUnlinked == Spec => []ForeignKept
<1>1. Inv => ForeignKept
  BY DEF Inv
<1>. QED
  BY <1>1, Invariance, PTL

=============================================================================

-------------------------- MODULE WorkspaceMutation --------------------------
(***************************************************************************)
(* crates/workspace/src/mutation.rs: how a workspace file is created,      *)
(* written, removed and renamed while other programs change the same       *)
(* directory entries.                                                      *)
(*                                                                         *)
(* No system call compares and replaces.  Each operation therefore looks   *)
(* at the entry, changes the directory in one atomic call that clobbers    *)
(* nothing (an exchange, or a rename that must not replace), looks at what *)
(* that call really moved, and undoes it when that is not the file it      *)
(* looked at first.  Between any two calls another program may rename a    *)
(* file of its own over an entry, or delete one.                           *)
(*                                                                         *)
(* A node is an inode: the operation holds the first one open, so that its *)
(* number is not reused.  Programs that write into a node without          *)
(* replacing it are the subject of SessionRecovery.tla; nobody else uses   *)
(* the temporary name, which carries the process identity and a nonce.     *)
(* Parents are pinned by descriptor and not modelled.                      *)
(***************************************************************************)
CONSTANTS
    Foreign,        \* nodes other programs put into the directory
    Other,          \* those of them that are no regular file
    Old, Mine,      \* what the target is at first, and what is written here
    Absent, None

(* Answers that promise the workspace is as if nothing had been attempted; *)
(* the others promise nothing.                                             *)
Refusal == {"missing", "not regular", "changed", "collision", "unavailable"}
Result == Refusal \cup {"ok", "failed", "repair failed"}

ASSUME MutationAssumption ==
    /\ Other \subseteq Foreign
    /\ Foreign \cap {Old, Mine, Absent, None} = {}
    /\ Old \notin {Mine, Absent, None} /\ Mine \notin {Absent, None} /\ Absent # None
    /\ None \notin Result

Operation == {"create", "write", "remove", "rename"}
Node == Foreign \cup {Old, Mine}
Shared == {"target", "destination"}
Name == Shared \cup {"temporary"}

VARIABLES
    op,         \* the operation
    pc,         \* its next system call
    dir,        \* [Name -> Node, or Absent]
    seen,       \* the node found first: _source, discovered
    result,     \* what it returns, or None
    unlinked,   \* nodes it has unlinked
    shadow,     \* what the directory would be had it never run
    disturbed   \* another program acted after it changed the directory

vars == <<op, pc, dir, seen, result, unlinked, shadow, disturbed>>

-----------------------------------------------------------------------------
Regular(node) == node # Absent /\ node \notin Other

Init ==
    /\ op \in Operation
    /\ pc = "discover"
    /\ dir = [n \in Name |-> IF n = "target" /\ op # "create" THEN Old ELSE Absent]
    /\ shadow = [n \in Shared |-> dir[n]]
    /\ seen = None /\ result = None /\ unlinked = {} /\ disturbed = FALSE

Goto(label) == pc' = label /\ UNCHANGED result
Answer(r) == pc' = "done" /\ result' = r

(* Looking at an entry with inspect_regular_target refuses by itself what  *)
(* is missing or no regular file.                                          *)
Refuse(node) == Answer(IF node = Absent THEN "missing" ELSE "not regular")

Link(n, node) == dir' = [dir EXCEPT ![n] = node]
Replace(m, n) == dir' = [dir EXCEPT ![m] = Absent, ![n] = dir[m]]       \* mutant
Exchange(m, n) == dir' = [dir EXCEPT ![m] = dir[n], ![n] = dir[m]]
Move(m, n) == dir' = [dir EXCEPT ![m] = Absent, ![n] = dir[m]]
Unlink(n) == Link(n, Absent) /\ unlinked' = unlinked \cup {dir[n]}

At(label) == pc = label /\ UNCHANGED <<op, shadow, disturbed>>
Looks == UNCHANGED <<dir, seen, unlinked>>
Changes == UNCHANGED <<seen, unlinked>>

-----------------------------------------------------------------------------
(* Another program, as long as the operation runs. *)
Published == pc \in {"inspect", "verify", "restore", "cleanup", "discard", "commit"}

OtherProgram ==
    /\ pc # "done"
    /\ \E n \in Shared :
        \E node \in {Absent} \cup {f \in Foreign : \A m \in Name : dir[m] # f} :
            /\ node \notin unlinked /\ dir[n] # node
            /\ \A m \in Shared : shadow[m] # node \/ node = Absent
            /\ Link(n, node)
            /\ shadow' = [shadow EXCEPT ![n] = node]
    /\ disturbed' = (disturbed \/ Published)
    /\ UNCHANGED <<op, pc, seen, result, unlinked>>

(* A call fails, or the root is no longer where it was; before the         *)
(* directory was changed nothing but the temporary file has to go.         *)
Fail ==
    /\ pc # "done" /\ UNCHANGED <<op, seen, shadow, disturbed>>
    /\ Answer("failed")
    /\ \/ UNCHANGED <<dir, unlinked>>
       \/ pc = "publish" /\ op = "write" /\ Unlink("temporary")

-----------------------------------------------------------------------------
(* open_regular_target: what is inspected, opened and inspected again is   *)
(* one node.                                                               *)
Discover ==
    /\ At("discover") /\ op # "create"
    /\ IF Regular(dir["target"])
       THEN /\ seen' = dir["target"]
            /\ Goto(IF op = "write" THEN "stage" ELSE IF op = "remove" THEN "publish"
                    ELSE "check")
       ELSE Refuse(dir["target"]) /\ UNCHANGED seen
    /\ UNCHANGED <<dir, unlinked>>

DiscoverChanged ==
    /\ At("discover") /\ op # "create" /\ Looks
    /\ Answer("changed")

(* create and rename look at the entry they are going to fill. *)
Filled == IF op = "create" THEN "target" ELSE "destination"

Check ==
    /\ \/ At("discover") /\ op = "create"
       \/ At("check")
    /\ IF dir[Filled] = Absent THEN Goto("publish")
       ELSE Answer(IF dir[Filled] \in Other THEN "not regular" ELSE "collision")
    /\ Looks

(* The replacement is written and synced under its temporary name. *)
Stage ==
    /\ At("stage") /\ Changes
    /\ Link("temporary", Mine)
    /\ Goto("publish")

-----------------------------------------------------------------------------
(* The one call that changes what others see. *)

PublishCreate ==
    /\ At("publish") /\ op = "create" /\ Changes
    /\ IF dir["target"] = Absent
       THEN Link("target", Mine) /\ Goto("verify")
       ELSE Answer("collision") /\ UNCHANGED dir

PublishWrite ==
    /\ At("publish") /\ op = "write" /\ UNCHANGED seen
    /\ \/ /\ dir["target"] # Absent
          /\ Exchange("temporary", "target")
          /\ Goto("inspect") /\ UNCHANGED unlinked
       \/ /\ Unlink("temporary")
          /\ Answer(IF dir["target"] = Absent THEN "changed" ELSE "unavailable")

Destination == IF op = "remove" THEN "temporary" ELSE "destination"

PublishMove ==
    /\ At("publish") /\ op \in {"remove", "rename"} /\ Changes
    /\ IF dir[Destination] = Absent /\ dir["target"] # Absent
       THEN Move("target", Destination) /\ Goto("inspect")
       ELSE /\ UNCHANGED dir
            /\ Answer(IF dir[Destination] # Absent /\ op = "rename" THEN "collision"
                      ELSE "changed")

PublishUnavailable ==
    /\ At("publish") /\ op \in {"remove", "rename"} /\ Looks
    /\ Answer("unavailable")

-----------------------------------------------------------------------------
(***************************************************************************)
(* What did it move?  A write looks at both entries.  Something that is no *)
(* regular file is refused right there, and stays where it was moved.      *)
(***************************************************************************)
Captured == IF op = "write" THEN "temporary" ELSE Destination

TrustName(node) == TRUE                                             \* mutant
SameIdentity(node) == node = seen

Inspect ==
    /\ At("inspect") /\ Looks
    /\ LET captured == dir[Captured] IN
       IF ~Regular(captured) THEN Refuse(captured)
       ELSE IF op = "write" THEN Goto("verify")
       ELSE IF ~SameIdentity(captured) THEN Goto("restore")
       ELSE IF op = "remove" THEN Goto("commit")
       ELSE Answer("ok")

Verify ==
    /\ At("verify") /\ Looks
    /\ LET installed == dir["target"] IN
       IF ~Regular(installed) THEN Refuse(installed)
       ELSE IF op = "create" THEN Answer(IF installed = Mine THEN "ok" ELSE "changed")
       ELSE IF installed # Mine THEN Answer("repair failed")
       ELSE IF SameIdentity(dir["temporary"]) THEN Goto("commit")
       ELSE Goto("restore")

(* The old node's last link goes. *)
Commit ==
    /\ At("commit") /\ UNCHANGED seen
    /\ Unlink("temporary")
    /\ Answer("ok")

-----------------------------------------------------------------------------
(* restore_exchange, restore_rename: the same call backwards. *)

RestoreExchange ==
    /\ At("restore") /\ op = "write" /\ Changes
    /\ IF dir["target"] = Absent THEN Answer("repair failed") /\ UNCHANGED dir
       ELSE Exchange("temporary", "target") /\ Goto("cleanup")

RestoreMove ==
    /\ At("restore") /\ op \in {"remove", "rename"} /\ Changes
    /\ IF dir["target"] # Absent \/ dir[Destination] = Absent
       THEN Answer("repair failed") /\ UNCHANGED dir
       ELSE Move(Destination, "target") /\ Goto("cleanup")

Restored ==
    /\ At("cleanup") /\ Looks
    /\ IF ~Regular(dir["target"]) THEN Answer("repair failed")
       ELSE IF op = "write" THEN Goto("discard")
       ELSE Answer("changed")

(* The rejected replacement goes, or what the exchange brought back. *)
Discard ==
    /\ At("discard") /\ UNCHANGED seen
    /\ Unlink("temporary")
    /\ Answer("changed")

-----------------------------------------------------------------------------
Next ==
    \/ OtherProgram \/ Fail
    \/ Discover \/ DiscoverChanged \/ Check \/ Stage
    \/ PublishCreate \/ PublishWrite \/ PublishMove \/ PublishUnavailable
    \/ Inspect \/ Verify \/ Commit
    \/ RestoreExchange \/ RestoreMove \/ Restored \/ Discard

Spec == Init /\ [][Next]_vars

-----------------------------------------------------------------------------
TypeOK ==
    /\ op \in Operation
    /\ pc \in {"discover", "check", "stage", "publish", "inspect", "verify", "restore",
               "cleanup", "discard", "commit", "done"}
    /\ dir \in [Name -> Node \cup {Absent}]
    /\ shadow \in [Shared -> Foreign \cup {Old, Absent}]
    /\ seen \in Node \cup {None}
    /\ result \in Result \cup {None}
    /\ unlinked \subseteq Node
    /\ disturbed \in BOOLEAN

Applied(d) ==
    [n \in Shared |-> IF n = "target"
                      THEN IF op \in {"create", "write"} THEN Mine ELSE Absent
                      ELSE IF op = "rename" THEN d["target"] ELSE d["destination"]]

Clean == dir["temporary"] = Absent
Visible == [n \in Shared |-> dir[n]]

(* Unless another program acts again after the one call that changed the   *)
(* directory, an operation is atomic: answered with ok it did what it was  *)
(* asked to the node that was seen, and refused, to the caller, it left no *)
(* trace, whatever replaced the target in between.  A replacement that is  *)
(* no regular file is not put back (Inspect).                              *)
Atomic ==
    ~disturbed =>
        /\ result = "ok" => Clean /\ Visible = Applied(shadow)
        /\ result \in Refusal \ {"not regular"} => Clean /\ Visible = shadow

(* Nobody's work is unlinked but the node that was asked for, and that     *)
(* only once the operation has verified what it moved.  The one exception: *)
(* a write whose repair meets a third node unlinks it.                     *)
ForeignKept ==
    /\ unlinked \subseteq {seen, Mine} \/ (op = "write" /\ disturbed)
    /\ result = "ok" => unlinked \subseteq {seen}
    /\ seen \in unlinked /\ ~disturbed => result = "ok"
=============================================================================

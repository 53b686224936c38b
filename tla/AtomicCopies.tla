---------------------------- MODULE AtomicCopies ----------------------------
(***************************************************************************)
(* What a backup, a restore or an export promises to the operator who asks  *)
(* for it: all the stores of its source as they were at one instant during  *)
(* the call, or nothing.  The copies of a call that succeeds are those      *)
(* stores, times and all; a call that fails may leave files in its target,  *)
(* but writes over none.  A backup is named by the manifest of what was     *)
(* taken, and a restore takes stores that still have that manifest.  How    *)
(* the copies are made, store by store under the locks of the source, is    *)
(* Backup, which implements this module.                                    *)
(***************************************************************************)
CONSTANTS Op, Root, Live, Role,
          Absent,         \* no file, or nothing taken yet
          Manifest(_)     \* what stands for the stores of a root in a cohort

VARIABLES disk,      \* the file of each role in each root, if any
          call,      \* what each call was asked, and what it has taken
          backups    \* the cohorts returned to callers

vars == <<disk, call, backups>>

Init ==
  /\ \A root \in Root \ {Live} : disk[root] = [r \in Role |-> Absent]
  /\ \A o \in Op : call[o].pc = "idle"
  /\ backups = {}

Becomes(o, c) == call' = [call EXCEPT ![o] = c]

(* A backup or an export of the operational stores, or a restore of a       *)
(* cohort.                                                                  *)
Ask(o) ==
  /\ call[o].pc = "idle"
  /\ \E src, dst \in Root, c \in backups \cup {Absent} :
       /\ dst \notin {src, Live}
       /\ \/ \E kind \in {"backup", "export"} :
               /\ c = Absent /\ src = Live
               /\ Becomes(o, [pc |-> "asked", kind |-> kind, src |-> src, dst |-> dst,
                              cohort |-> c, stores |-> Absent])
          \/ /\ c \in backups /\ src = c.root
             /\ Becomes(o, [pc |-> "asked", kind |-> "restore", src |-> src, dst |-> dst,
                            cohort |-> c, stores |-> Absent])
  /\ UNCHANGED <<disk, backups>>

(* Files appear in the target where there were none.                       *)
Fills(root) ==
  /\ \A other \in Root \ {root} : disk'[other] = disk[other]
  /\ \A r \in Role : disk[root][r] # Absent => disk'[root][r] = disk[root][r]

Fill(o) ==
  /\ call[o].pc = "asked"
  /\ Fills(call[o].dst)
  /\ UNCHANGED <<call, backups>>

(* The instant of the call.                                                *)
Take(o) ==
  /\ call[o].pc = "asked"
  /\ call[o].kind = "restore" => Manifest(disk[call[o].src]) = call[o].cohort.logical
  /\ Becomes(o, [call[o] EXCEPT !.pc = "taken", !.stores = disk[call[o].src]])
  /\ UNCHANGED <<disk, backups>>

Return(o) ==
  /\ call[o].pc = "taken"
  /\ disk[call[o].dst] = call[o].stores
  /\ Becomes(o, [call[o] EXCEPT !.pc = "done"])
  /\ backups' = IF call[o].kind = "backup"
                  THEN backups \cup {[root |-> call[o].dst,
                                      logical |-> Manifest(call[o].stores)]}
                  ELSE backups
  /\ UNCHANGED disk

Fail(o) ==
  /\ call[o].pc \in {"asked", "taken"}
  /\ Becomes(o, [call[o] EXCEPT !.pc = "failed", !.stores = Absent])
  /\ Fills(call[o].dst)
  /\ UNCHANGED backups

(* Collectors write into the operational stores, and a returned backup is   *)
(* written into or wears; the target of a call under way is left alone, and *)
(* so are the restored and the exported stores.                            *)
World ==
  /\ \A root \in Root :
       root # Live /\ (\A c \in backups : c.root # root) => disk'[root] = disk[root]
  /\ UNCHANGED <<call, backups>>

Next == World \/ \E o \in Op : Ask(o) \/ Fill(o) \/ Take(o) \/ Return(o) \/ Fail(o)

Spec == Init /\ [][Next]_vars
=============================================================================

---------------------------- MODULE FileActions ----------------------------
(***************************************************************************)
(* Physical file actions and their durable ledger: the Trash batches and   *)
(* the extension renames of workflow/actions, the restoration of a trashed *)
(* file (curation/recovery.py), the KIO Trash service that moves the files *)
(* (safety/kio_trash.py), the rows of file_actions with their transitions  *)
(* (persistence/framework_state_common.py) and the read-only reconciler    *)
(* that classifies uncertain rows and records what it saw.                 *)
(*                                                                         *)
(* One owner process at a time performs effects (it holds the framework    *)
(* run lock); KIO's own worker, the user of the desktop and any number of  *)
(* recorders run beside it.  The owner may stop at any step, every ledger  *)
(* write may fail, and it may also be durable although the caller sees an  *)
(* exception.                                                              *)
(***************************************************************************)
EXTENDS Naturals, Sequences, FiniteSets

CONSTANTS
  Trash,      \* Trash actions of one run (all of one batch or of several)
  Rename,     \* extension corrections of the run
  Plans,      \* the sets of actions a run may have to perform
  Restorable, \* the Trash actions a person may ask to restore
  Recorders,  \* processes of --action-recovery-record
  Watched,    \* the actions whose rows each of them looks at (bound)
  Attempts,   \* how often a restoration is asked for (bound)
  UserMoves,  \* how many times the user touches the files (bound)
  MaxEvents   \* events recorded for one row (bound)

ASSUME ConstantsAssumption ==
  /\ Trash \cap Rename = {}
  /\ Restorable \subseteq Trash /\ Plans \subseteq SUBSET (Trash \cup Rename)
  /\ Watched \in [Recorders -> SUBSET (Trash \cup Rename)]
  /\ \A a \in Restorable : <<"restore", a>> \notin Trash \cup Rename
  /\ Attempts \in Nat /\ UserMoves \in Nat /\ MaxEvents \in Nat

VARIABLES
  status,   \* file_actions.status of each row, "absent" before its intent
  receipt,  \* file_actions.effect_receipt_json is not NULL
  at,       \* at[a][p]: the object found at place p of action a
  info,     \* the path the .trashinfo of action a names
  kio,      \* the KIO worker still holds the command for action a
  pc,       \* the step the owner process is at
  batch,    \* the rows the owner has in hand
  chunk,    \* the rows of the batch in the current call of KIO
  todo,     \* the rows its current loop has still to visit
  claims,   \* the rows of the chunk whose work holds a claim
  outcome,  \* the backend's outcome for each row in hand
  events,   \* file_action_reconciliation_events of each row
  seen,     \* the classification each recorder holds
  answer,   \* the last answer each recorder got, with its request
  took,     \* history: the objects a row's effect took from their place, except
            \*   those of an attempt that was undone and is made again
  putback,  \* history: the last object taken is back at its place
  plan,     \* the actions of this run
  rounds,   \* restorations asked for so far
  moves,    \* times the user touched the files so far
  clean     \* history: no crash, no failed write, no refused batch so far

ledger  == <<status, receipt>>
files   == <<at, info, kio>>
owner   == <<pc, batch, chunk, todo, claims, outcome>>
record  == <<events, seen, answer>>
history == <<took, putback>>
bounds  == <<plan, rounds, moves>>
vars    == <<ledger, files, owner, record, history, bounds, clean>>

\* The row of the restoration of a: its own intent, with its own effect.
RestoreOf(a) == <<"restore", a>>

Restores == {RestoreOf(a) : a \in Restorable}
Actions  == Trash \cup Rename
Rows     == Actions \cup Restores

\* The action whose files a row is about.
Subject(r) == IF r \in Restores THEN r[2] ELSE r

\* The planned object, any other one, or nothing.  A changed size, mtime or
\* birth time is another object to every check of the code.
Objects == {"mine", "other", "none"}

\* The corpus path, the corrected path of a rename, the private claim
\* directory beside the source, and the files directory of the Trash.
Places == {"source", "target", "claim", "trash"}

Closed   == {"planned", "skipped", "failed"}
Statuses == {"absent", "started", "applying", "applied", "recovery_required"}
              \cup Closed

Steps == {"idle", "begun", "check", "mark", "next", "admit", "claim", "run",
          "unclaim", "shorten", "verify", "rewrite", "persist", "confirm",
          "rename", "move", "look", "settle",
          "restore", "restoring", "unlink", "restored"}

-----------------------------------------------------------------------------
(* The ledger.                                                             *)

\* _FILE_ACTION_TRANSITIONS, without the frontier: that is Mark's.
Allowed(s) ==
  CASE s = "started"  -> {"planned", "skipped", "failed", "recovery_required"}
    [] s = "applying" -> {"applied", "skipped", "recovery_required"}
    [] OTHER          -> {}

\* _transition_file_action raises unless the transition is an allowed one.  (It
\* also accepts a repeated one with the same detail; no caller asks for that.)
Legal(R, s) == \A r \in R : s \in Allowed(status[r])

\* How one ledger transaction ends: committed, rolled back, or committed while
\* the caller gets an exception (an interrupt after COMMIT).
Ends == {"ok", "failed", "late"}

\* finish_file_actions: one transaction for all the rows of R.
Finished(R, s, end) ==
  IF end # "failed" /\ Legal(R, s)
  THEN [r \in Rows |-> IF r \in R THEN s ELSE status[r]]
  ELSE status

\* The caller of finish_file_actions gets an exception.
Raised(R, s, end) == end # "ok" \/ ~Legal(R, s)

\* _best_effort_require_recovery: the exception of the write is swallowed.
BestEffortRecovery(R) ==
  /\ \E end \in Ends : status' = Finished(R, "recovery_required", end)
  /\ UNCHANGED receipt

\* The rows are closed as skipped; if that raises they need recovery, unless
\* the first write stood.  The exception of the second one is swallowed.
SkipOrRecover(R) ==
  /\ \E end \in Ends, swallowed \in Ends :
       LET first == Finished(R, "skipped", end) IN
       /\ status' = IF /\ Raised(R, "skipped", end) /\ swallowed # "failed"
                       /\ \A r \in R : "recovery_required" \in Allowed(first[r])
                    THEN [r \in Rows |-> IF r \in R THEN "recovery_required" ELSE first[r]]
                    ELSE first
       /\ clean' = (clean /\ ~Raised(R, "skipped", end))
  /\ UNCHANGED receipt

-----------------------------------------------------------------------------
(* The file system.                                                        *)

\* renameat2(RENAME_NOREPLACE) of what is at p to q.
Moved(a, p, q) == [at EXCEPT ![a][q] = at[a][p], ![a][p] = "none"]

\* A row's effect takes the object at p away from its place.
Take(r, p) ==
  /\ took' = [took EXCEPT ![r] = Append(@, at[Subject(r)][p])]
  /\ putback' = [putback EXCEPT ![r] = FALSE]

Displaced(r) == took[r] # << >> /\ ~putback[r]

\* verify_trash_receipt_evidence: the planned object is in the Trash under a
\* .trashinfo that names the source, and the source path is free.
TrashEvidence(a) ==
  /\ at[a]["trash"] = "mine"
  /\ info[a] = "source"
  /\ at[a]["source"] = "none"

-----------------------------------------------------------------------------
(* The owner process: intents, checks and the mutation frontier.           *)

Goto(step, R) == pc' = step /\ todo' = R

\* The owner's call ended: by returning, or by an exception of its caller.
Return == /\ pc' = "idle" /\ batch' = {} /\ chunk' = {} /\ todo' = {} /\ claims' = {}
          /\ outcome' = [r \in Rows |-> "none"]

Abort == Return /\ clean' = FALSE

\* begin_file_actions: the intents of a batch in one transaction.  The key of an
\* intent holds its run, so a later run has rows of its own.
Begin(S) ==
  /\ pc = "idle"
  /\ \A r \in S : status[r] = "absent"
  /\ status' = [r \in Rows |-> IF r \in S THEN "started" ELSE status[r]]
  /\ batch' = S
  /\ UNCHANGED <<receipt, files, chunk, claims, outcome, record, history, bounds, clean>>

BeginTrash == \E S \in SUBSET (plan \cap Trash) \ {{}} : Begin(S) /\ Goto("begun", S)

BeginRename == \E a \in plan \cap Rename : Begin({a}) /\ Goto("rename", {a})

\* Without --apply the intents are closed as planned.
Plan ==
  /\ pc \in {"begun", "rename"}
  /\ \E end \in Ends :
       /\ status' = Finished(batch, "planned", end)
       /\ clean' = (clean /\ ~Raised(batch, "planned", end))
  /\ Return
  /\ UNCHANGED <<receipt, files, record, history, bounds>>

Apply ==
  /\ pc = "begun"
  /\ Goto("check", batch)
  /\ UNCHANGED <<ledger, files, batch, chunk, claims, outcome, record, history, bounds, clean>>

\* _preflight_trash_candidates, _revalidate_trash_candidates and the digest of
\* _apply_trash_backend_batch: a source that is not the planned one any more,
\* or that cannot be read, leaves the batch.
Check ==
  /\ pc = "check"
  /\ \E a \in todo :
       \/ /\ at[a]["source"] = "mine"
          /\ todo' = todo \ {a}
          /\ UNCHANGED <<status, pc, batch, chunk, claims, outcome, clean>>
       \/ \E s \in {"failed", "skipped"}, end \in Ends :
            /\ status' = Finished({a}, s, end)
            /\ IF Raised({a}, s, end)
               THEN Abort
               ELSE /\ todo' = todo \ {a}
                    /\ batch' = batch \ {a}
                    /\ UNCHANGED <<pc, chunk, claims, outcome, clean>>
  /\ UNCHANGED <<receipt, files, record, history, bounds>>

Checked ==
  /\ pc = "check" /\ todo = {}
  /\ IF batch = {} THEN Return ELSE Goto("mark", {}) /\ UNCHANGED <<batch, chunk, claims, outcome>>
  /\ UNCHANGED <<ledger, files, record, history, bounds, clean>>

\* _finish_uninvoked_trash_actions: the run is cancelled, or out of its budget,
\* before the backend is called.
Uninvoked ==
  /\ pc = "mark"
  /\ SkipOrRecover(batch)
  /\ Return
  /\ UNCHANGED <<files, record, history, bounds>>

\* mark_file_actions_applying: every row from 'started', or none.
Frontier(R, end) ==
  IF end # "failed" /\ \A r \in R : status[r] = "started"
  THEN [r \in Rows |-> IF r \in R THEN "applying" ELSE status[r]]
  ELSE status

FrontierPassed(R, end) == end = "ok" /\ \A r \in R : Frontier(R, end)[r] = "applying"

\* The rows cross the frontier before the backend is called; a commit that is
\* not acknowledged leaves the batch without an effect.
Mark ==
  /\ pc = "mark"
  /\ \E end \in Ends :
       /\ status' = Frontier(batch, end)
       /\ IF FrontierPassed(batch, end)
          THEN Goto("next", {}) /\ UNCHANGED <<batch, chunk, claims, outcome, clean>>
          ELSE Abort
  /\ UNCHANGED <<receipt, files, record, history, bounds>>

-----------------------------------------------------------------------------
(* The KIO Trash service: claims, the KIO process, verification.           *)

Undecided == {a \in batch : outcome[a] = "none"}

Works == {a \in chunk : outcome[a] = "none"}

Decide(R, o) == outcome' = [r \in Rows |-> IF r \in R THEN o ELSE outcome[r]]

\* KioTrashService.move_many: the items go to KIO in one call or in several, and
\* their outcomes are kept from call to call.  Items left without a call are
\* blocked (the service could not start, or an earlier call was interrupted); a
\* failure around the calls leaves the items it has no outcome for uncertain,
\* those of the last call perhaps included, and one that reaches the caller
\* leaves all of them so.  The size limit of a call is abstracted to any split.
NextChunk ==
  /\ pc = "next"
  /\ \/ \E S \in SUBSET Undecided \ {{}} :
          chunk' = S /\ Goto("admit", S) /\ UNCHANGED outcome
     \/ Goto("persist", batch) /\ Decide(Undecided, "blocked") /\ UNCHANGED chunk
     \/ /\ \E R \in {Undecided, Undecided \cup chunk, batch} : Decide(R, "recovery")
        /\ Goto("persist", batch) /\ UNCHANGED chunk
  /\ UNCHANGED <<ledger, files, batch, claims, record, history, bounds, clean>>

\* One call of move_many_to_trash ended with an outcome for each of its items.
EndCall == Goto("next", {}) /\ claims' = {}

\* _validate_effect_physical, _prepare_batch_inputs and the admission: a source
\* that changed is blocked on its own.
Admit ==
  /\ pc = "admit"
  /\ \E a \in todo :
       /\ todo' = todo \ {a}
       /\ \/ at[a]["source"] = "mine" /\ UNCHANGED outcome
          \/ Decide({a}, "blocked")
  /\ UNCHANGED <<ledger, files, pc, batch, chunk, claims, record, history, bounds, clean>>

\* Preflight of the KIO client: it is there, it is not (every work is blocked),
\* or the call fails in a way move_many_to_trash cannot type.
Admitted ==
  /\ pc = "admit" /\ todo = {}
  /\ \/ Works # {} /\ Goto("claim", Works) /\ UNCHANGED <<claims, outcome>>
     \/ EndCall /\ Decide(Works, "blocked")
     \/ EndCall /\ Decide(chunk, "recovery")
  /\ UNCHANGED <<ledger, files, batch, chunk, record, history, bounds, clean>>

\* _claim_source: the source is renamed into a private directory.  The rename
\* is path-bound, so it can take an object put there after the last check; the
\* claim is verified afterwards, and kept whenever something is in it.
Claim ==
  /\ pc = "claim"
  /\ \E a \in todo :
       \/ \* claimed and verified
          /\ at[a]["source"] = "mine"
          /\ at' = Moved(a, "source", "claim")
          /\ Take(a, "source")
          /\ claims' = claims \cup {a}
          /\ Goto("claim", todo \ {a})
       \/ \* moved, but not verified
          /\ at[a]["source"] # "none"
          /\ at' = Moved(a, "source", "claim")
          /\ Take(a, "source")
          /\ claims' = claims \cup {a}
          /\ Goto("unclaim", Works)
       \/ \* refused or failed before the rename
          /\ Goto("unclaim", Works)
          /\ UNCHANGED <<at, claims, history>>
  /\ UNCHANGED <<ledger, info, kio, batch, chunk, outcome, record, bounds, clean>>

\* The command is built and the KIO process started, or neither; "shorten" when
\* the arguments of the command are too long.
Invoke ==
  /\ pc = "claim" /\ todo = {}
  /\ \/ /\ Goto("run", {})
        /\ kio' = [a \in Trash |-> kio[a] \/ a \in Works]
     \/ \E step \in {"unclaim", "shorten"} : Goto(step, Works) /\ UNCHANGED kio
  /\ UNCHANGED <<ledger, at, info, batch, chunk, claims, outcome, record, history, bounds, clean>>

\* The KIO worker moves one claimed object to the Trash, at any time after it
\* was given the command: also after a timeout, or after the owner's death.
KioMove ==
  /\ \E a \in Trash :
       /\ kio[a] /\ at[a]["claim"] # "none" /\ at[a]["trash"] = "none"
       /\ at' = Moved(a, "claim", "trash")
       /\ info' = [info EXCEPT ![a] = "claim"]
       /\ kio' = [kio EXCEPT ![a] = FALSE]
  /\ UNCHANGED <<ledger, owner, record, history, bounds, clean>>

\* The KIO worker gives up one object.
KioFail ==
  /\ \E a \in Trash : kio[a] /\ kio' = [kio EXCEPT ![a] = FALSE]
  /\ UNCHANGED <<ledger, at, info, owner, record, history, bounds, clean>>

\* _invoke_batch_process: a zero exit status after the worker is done with all;
\* a timeout, an interrupt or any other status, which tell nothing; or an
\* error the owner takes for a process that did not start.
KioReturns ==
  /\ pc = "run"
  /\ \/ /\ \A a \in Works : ~kio[a]
        /\ Goto("verify", Works) /\ UNCHANGED <<claims, outcome>>
     \/ EndCall /\ Decide(Works, "recovery")
     \/ Goto("unclaim", Works) /\ UNCHANGED <<claims, outcome>>
  /\ UNCHANGED <<ledger, files, batch, chunk, record, history, bounds, clean>>

\* _restore_claim succeeds: the source is already back alone, or it is free
\* and the claim holds the planned object.
ClaimRestorable(a) ==
  IF at[a]["source"] # "none"
  THEN at[a]["source"] = "mine" /\ at[a]["claim"] = "none"
  ELSE at[a]["claim"] = "mine"

\* Mutant of Unclaim: the claim goes back whatever is at the source.
UnclaimReplacing ==
  /\ pc \in {"unclaim", "shorten"}
  /\ \E a \in todo :
       /\ todo' = todo \ {a}
       /\ at' = IF a \in claims THEN Moved(a, "claim", "source") ELSE at
       /\ putback' = [putback EXCEPT ![a] = a \in claims]
       /\ Decide({a}, "blocked")
  /\ UNCHANGED <<ledger, info, kio, pc, batch, chunk, claims, record, took, bounds, clean>>

\* _batch_restore_and_block: every claim goes back to its source and the work
\* is blocked; a claim that cannot go back needs recovery.
Unclaim ==
  /\ pc \in {"unclaim", "shorten"}
  /\ \E a \in todo :
       /\ todo' = todo \ {a}
       /\ \/ /\ a \notin claims
             /\ Decide({a}, "blocked")
             /\ UNCHANGED <<files, history>>
          \/ /\ a \in claims /\ ClaimRestorable(a)
             /\ at' = IF at[a]["source"] = "none" THEN Moved(a, "claim", "source") ELSE at
             /\ putback' = [putback EXCEPT ![a] = at'[a]["source"] = "mine"]
             /\ kio' = [kio EXCEPT ![a] = FALSE]
             /\ \E o \in {"blocked", "recovery"} : Decide({a}, o)
             /\ UNCHANGED <<info, took>>
          \/ /\ a \in claims
             /\ Decide({a}, "recovery")
             /\ UNCHANGED <<files, history>>
  /\ UNCHANGED <<ledger, pc, batch, chunk, claims, record, bounds, clean>>

Unclaimed ==
  /\ pc = "unclaim" /\ todo = {}
  /\ EndCall
  /\ UNCHANGED <<ledger, files, batch, chunk, outcome, record, history, bounds, clean>>

\* Mutant of Undone: what needs recovery is tried again as well.
UndoneOrUncertain == \A a \in chunk : outcome[a] # "applied"

\* Every item of the call was claimed, and its claim is back at its source.
Undone == \A a \in chunk : a \in claims /\ outcome[a] = "blocked"

\* KioTrashService._move_batches after a command with too many arguments: when
\* every item was blocked for it the call is made again with fewer of them, and
\* what that attempt took and put back is not an effect; a mixed outcome stands.
Split ==
  /\ pc = "shorten" /\ todo = {}
  /\ LET Fewer == SUBSET chunk \ {{}, chunk} IN
     \/ /\ Undone
        /\ chunk' \in Fewer /\ Goto("admit", chunk') /\ claims' = {}
        /\ outcome' = [r \in Rows |-> IF r \in chunk THEN "none" ELSE outcome[r]]
        /\ took' = [r \in Rows |-> IF r \in chunk /\ putback[r] THEN << >> ELSE took[r]]
     \/ /\ ~Undone \/ Fewer = {}
        /\ EndCall
        /\ UNCHANGED <<chunk, outcome, took>>
  /\ UNCHANGED <<ledger, files, batch, record, putback, bounds, clean>>

\* The verifier found the planned object in the Trash under the claim's name.
Found(a) == at[a]["trash"] = "mine" /\ at[a]["claim"] = "none" /\ info[a] = "claim"

\* _batch_verified_result up to the repair of the .trashinfo, which is truncated
\* in place before the name of the source is written.
Verify ==
  /\ pc = "verify"
  /\ \E a \in todo :
       \/ /\ Found(a)
          /\ info' = [info EXCEPT ![a] = "torn"]
          /\ Goto("rewrite", {a}) /\ UNCHANGED outcome
       \/ /\ Decide({a}, "recovery")
          /\ Goto("verify", todo \ {a}) /\ UNCHANGED info
  /\ UNCHANGED <<ledger, at, kio, batch, chunk, claims, record, history, bounds, clean>>

\* The rest of _rewrite_trash_info_path and of _batch_verified_result: the write
\* may fail; it is lost if the user emptied the Trash meanwhile; then the pair
\* is verified, with the source path still free.
Rewrite ==
  /\ pc = "rewrite"
  /\ \E a \in todo :
       /\ info' \in {info, IF info[a] = "torn" THEN [info EXCEPT ![a] = "source"] ELSE info}
       /\ \/ /\ at[a]["trash"] = "mine" /\ info'[a] = "source" /\ at[a]["source"] = "none"
             /\ Decide({a}, "applied")
          \/ Decide({a}, "recovery")
       /\ Goto("verify", Works \ {a})
  /\ UNCHANGED <<ledger, at, kio, batch, chunk, claims, record, history, bounds, clean>>

AllVerified ==
  /\ pc = "verify" /\ todo = {}
  /\ EndCall
  /\ UNCHANGED <<ledger, files, batch, chunk, outcome, record, history, bounds, clean>>

-----------------------------------------------------------------------------
(* The outcomes of a batch become ledger rows.                             *)

Recover(a) ==
  /\ BestEffortRecovery({a})
  /\ clean' = (clean /\ status'[a] = "recovery_required")

\* Mutant of Persist: an outcome that is not typed as applied or blocked is
\* taken for a failure before the effect.
PersistAmbiguousAsSkip ==
  /\ pc = "persist"
  /\ \E a \in todo :
       /\ todo' = todo \ {a}
       /\ \/ outcome[a] = "applied" /\ UNCHANGED <<ledger, outcome, clean>>
          \/ outcome[a] # "applied" /\ SkipOrRecover({a}) /\ UNCHANGED outcome
  /\ UNCHANGED <<files, pc, batch, chunk, claims, record, history, bounds>>

\* Mutant of Persist: the outcomes that need recovery are only reported.
PersistReportsOnly ==
  /\ pc = "persist"
  /\ \E a \in todo :
       /\ todo' = todo \ {a}
       /\ IF outcome[a] = "blocked" THEN SkipOrRecover({a}) ELSE UNCHANGED <<ledger, clean>>
  /\ UNCHANGED <<files, pc, batch, chunk, claims, outcome, record, history, bounds>>

\* The loop over the outcomes: a receipt is validated against the disk once
\* more, a block closes its row, anything else needs recovery.
Persist ==
  /\ pc = "persist"
  /\ \E a \in todo :
       /\ todo' = todo \ {a}
       /\ \/ /\ outcome[a] = "applied" /\ TrashEvidence(a)
             /\ UNCHANGED <<ledger, outcome, clean>>
          \/ /\ outcome[a] = "applied"
             /\ Recover(a) /\ Decide({a}, "recovery")
          \/ /\ outcome[a] = "blocked"
             /\ SkipOrRecover({a}) /\ UNCHANGED outcome
          \/ /\ outcome[a] = "recovery"
             /\ Recover(a) /\ UNCHANGED outcome
  /\ UNCHANGED <<files, pc, batch, chunk, claims, record, history, bounds>>

Confirmations == {a \in batch : outcome[a] = "applied"}

Persisted ==
  /\ pc = "persist" /\ todo = {}
  /\ IF Confirmations = {}
     THEN Return
     ELSE Goto("confirm", {}) /\ UNCHANGED <<batch, chunk, claims, outcome>>
  /\ UNCHANGED <<ledger, files, record, history, bounds, clean>>

\* Mutant of Confirmed: the receipt is kept although the status is not.
ConfirmedApart(R, end) ==
  /\ status' = Finished(R, "applied", end)
  /\ receipt' = [r \in Rows |-> receipt[r] \/ r \in R]

\* confirm_file_actions_applied of R; the receipt goes in with the status.
Confirmed(R, end) ==
  /\ status' = Finished(R, "applied", end)
  /\ receipt' = [r \in Rows |->
                   receipt[r] \/ (r \in R /\ end # "failed" /\ Legal(R, "applied"))]

\* All confirmations of a batch in one transaction.
Confirm ==
  /\ pc = "confirm"
  /\ \E end \in Ends :
       /\ Confirmed(Confirmations, end)
       /\ IF Raised(Confirmations, "applied", end)
          THEN /\ Goto("persist", Confirmations)
               /\ Decide(Confirmations, "recovery")
               /\ clean' = FALSE
               /\ UNCHANGED <<batch, chunk, claims>>
          ELSE Return /\ UNCHANGED clean
  /\ UNCHANGED <<files, record, history, bounds>>

-----------------------------------------------------------------------------
(* The rename of one file to its detected extension.                       *)

\* _rename_mismatch before the frontier, and PosixRenameBackend.apply up to
\* before_syscall: an occupied target or another source closes the row.
RenameCheck ==
  /\ pc = "rename"
  /\ \E a \in batch :
       \/ /\ at[a]["source"] = "mine" /\ at[a]["target"] = "none"
          /\ \E end \in Ends :
               /\ status' = Frontier({a}, end)
               /\ IF FrontierPassed({a}, end)
                  THEN Goto("move", {a}) /\ UNCHANGED <<outcome, clean>>
                  ELSE Goto("settle", {a}) /\ Decide({a}, "blocked") /\ clean' = FALSE
          /\ UNCHANGED <<batch, chunk, claims>>
       \/ \E s \in {"skipped", "failed"}, end \in Ends :
            /\ status' = Finished({a}, s, end)
            /\ IF Raised({a}, s, end) THEN Abort ELSE Return /\ UNCHANGED clean
  /\ UNCHANGED <<receipt, files, record, history, bounds>>

\* Mutant of RenameMove: renameat2 without RENAME_NOREPLACE.
RenameMoveReplacing ==
  /\ pc = "move"
  /\ \E a \in batch :
       /\ at[a]["source"] # "none"
       /\ at' = Moved(a, "source", "target")
       /\ Take(a, "source")
       /\ Goto("look", {a}) /\ UNCHANGED outcome
  /\ UNCHANGED <<ledger, info, kio, batch, chunk, claims, record, bounds, clean>>

\* The syscall: it moves whatever is at the source if the target is free; an
\* error of it, or an interrupt around it, is uncertain by now.
RenameMove ==
  /\ pc = "move"
  /\ \E a \in batch :
       \/ /\ at[a]["source"] # "none" /\ at[a]["target"] = "none"
          /\ at' = Moved(a, "source", "target")
          /\ Take(a, "source")
          /\ \/ Goto("look", {a}) /\ UNCHANGED outcome
             \/ Goto("settle", {a}) /\ Decide({a}, "recovery")
       \/ /\ Goto("settle", {a}) /\ Decide({a}, "recovery")
          /\ UNCHANGED <<at, history>>
  /\ UNCHANGED <<ledger, info, kio, batch, chunk, claims, record, bounds, clean>>

\* Mutant of RenameSeen: the target only has to exist.
RenameSeenByName(a) == at[a]["source"] = "none" /\ at[a]["target"] # "none"

RenameSeen(a) == at[a]["source"] = "none" /\ at[a]["target"] = "mine"

\* The postcondition: the source is gone and the target is the planned object.
RenameLook ==
  /\ pc = "look"
  /\ \E a \in batch :
       /\ Goto("settle", {a})
       /\ \/ RenameSeen(a) /\ Decide({a}, "applied")
          \/ Decide({a}, "recovery")
  /\ UNCHANGED <<ledger, files, batch, chunk, claims, record, history, bounds, clean>>

\* A write that raises is followed by one more: the exception decides whether
\* 'failed' or the recovery mark is tried.
ThenAnother(a, first) ==
  \E s \in {"failed", "recovery_required"}, stands \in BOOLEAN :
    status' = IF stands /\ s \in Allowed(first[a]) THEN [first EXCEPT ![a] = s] ELSE first

\* The end of _rename_mismatch.  A confirmation that raises is followed by one
\* attempt to mark the row.
RenameSettle ==
  /\ pc = "settle"
  /\ \E a \in batch, end \in Ends :
       \/ /\ outcome[a] = "applied"
          /\ Confirmed({a}, end)
          /\ IF Raised({a}, "applied", end)
             THEN /\ Decide({a}, "recovery") /\ Goto("settle", {a}) /\ clean' = FALSE
                  /\ UNCHANGED <<batch, chunk, claims>>
             ELSE Return /\ UNCHANGED clean
       \/ \E s \in {"skipped", "recovery_required"} :
            /\ s = (IF outcome[a] = "blocked" THEN "skipped" ELSE "recovery_required")
            /\ outcome[a] # "applied"
            /\ IF Raised({a}, s, end)
               THEN ThenAnother(a, Finished({a}, s, end)) /\ Abort
               ELSE status' = Finished({a}, s, end) /\ Return /\ UNCHANGED clean
            /\ UNCHANGED receipt
  /\ UNCHANGED <<files, record, history, bounds>>

-----------------------------------------------------------------------------
(* The restoration of one trashed file, on the word of a person.           *)

\* restore_curation_action up to the frontier.  The original row must carry a
\* receipt; a restoration that is already on record is never repeated, and one
\* found 'applying' is handed to recovery.  One person asks: the key of the
\* intent holds the actor, so another would get a row of their own.
RestoreBegin ==
  /\ pc = "idle" /\ rounds < Attempts /\ rounds' = rounds + 1
  /\ \E a \in Restorable :
       LET r == RestoreOf(a) IN
       /\ status[a] \in {"applied", "recovery_required"} /\ receipt[a]
       /\ \/ /\ status[r] \in {"absent", "started"}
             /\ status' = [status EXCEPT ![r] = "started"]
             /\ batch' = {r} /\ Goto("restore", {r})
             /\ UNCHANGED <<chunk, claims, outcome, clean>>
          \/ /\ status[r] = "applying"
             /\ \E end \in Ends : status' = Finished({r}, "recovery_required", end)
             /\ UNCHANGED <<owner, clean>>
  /\ UNCHANGED <<receipt, files, record, history, plan, moves>>

RestoreMark ==
  /\ pc = "restore"
  /\ \E end \in Ends :
       /\ status' = Frontier(batch, end)
       /\ IF FrontierPassed(batch, end)
          THEN Goto("restoring", batch) /\ UNCHANGED <<batch, chunk, claims, outcome, clean>>
          ELSE Abort
  /\ UNCHANGED <<receipt, files, record, history, bounds>>

\* Mutant of RestoreMove: the .trashinfo is removed before the object is moved.
RestoreMoveInfoFirst ==
  /\ pc = "restoring"
  /\ \E r \in batch :
       LET a == Subject(r) IN
       /\ info' = [info EXCEPT ![a] = "none"]
       /\ \/ /\ at[a]["trash"] # "none" /\ at[a]["source"] = "none"
             /\ at' = Moved(a, "trash", "source")
             /\ Take(r, "trash")
             /\ Goto("unlink", {r}) /\ UNCHANGED outcome
          \/ /\ Decide({r}, "recovery")
             /\ Goto("restored", {r})
             /\ UNCHANGED <<at, history>>
  /\ UNCHANGED <<ledger, kio, batch, chunk, claims, record, bounds, clean>>

\* PosixRestoreBackend.restore: the evidence is verified, then the object in
\* the Trash goes to the source path if that is free.
RestoreMove ==
  /\ pc = "restoring"
  /\ \E r \in batch :
       LET a == Subject(r) IN
       \/ /\ info[a] = "source"
          /\ at[a]["trash"] # "none" /\ at[a]["source"] = "none"
          /\ at' = Moved(a, "trash", "source")
          /\ Take(r, "trash")
          /\ \/ Goto("unlink", {r}) /\ UNCHANGED outcome
             \/ Goto("restored", {r}) /\ Decide({r}, "recovery")
       \/ /\ \E o \in {"blocked", "recovery"} : Decide({r}, o)
          /\ Goto("restored", {r})
          /\ UNCHANGED <<at, history>>
  /\ UNCHANGED <<ledger, info, kio, batch, chunk, claims, record, bounds, clean>>

\* The .trashinfo is removed after the restored object was verified.
RestoreUnlink ==
  /\ pc = "unlink"
  /\ \E r \in batch :
       LET a == Subject(r) IN
       /\ Goto("restored", {r})
       /\ \/ /\ at[a]["source"] = "mine"
             /\ info' = [info EXCEPT ![a] = "none"]
             /\ \E o \in {"applied", "recovery"} : Decide({r}, o)
          \/ Decide({r}, "recovery") /\ UNCHANGED info
  /\ UNCHANGED <<ledger, at, kio, batch, chunk, claims, record, history, bounds, clean>>

\* _verify_restore_postconditions.
RestoreSeen(a) ==
  at[a]["source"] = "mine" /\ at[a]["trash"] = "none" /\ info[a] = "none"

\* The outcome of a restoration: confirmed after its postconditions were seen,
\* skipped when the evidence in the Trash is intact, else for recovery.
RestoreSettle ==
  /\ pc = "restored"
  /\ \E r \in batch, end \in Ends :
       LET a == Subject(r) IN
       \/ /\ outcome[r] = "applied" /\ RestoreSeen(a)
          /\ Confirmed({r}, end)
          /\ IF Raised({r}, "applied", end)
             THEN /\ Decide({r}, "recovery") /\ Goto("restored", {r}) /\ clean' = FALSE
                  /\ UNCHANGED <<batch, chunk, claims>>
             ELSE Return /\ UNCHANGED clean
       \/ /\ outcome[r] = "blocked" /\ TrashEvidence(a)
          /\ status' = Finished({r}, "skipped", end)
          /\ IF Raised({r}, "skipped", end)
             THEN /\ Decide({r}, "recovery") /\ Goto("restored", {r}) /\ clean' = FALSE
                  /\ UNCHANGED <<batch, chunk, claims>>
             ELSE Return /\ UNCHANGED clean
          /\ UNCHANGED receipt
       \/ /\ \/ outcome[r] = "recovery"
             \/ outcome[r] = "applied" /\ ~RestoreSeen(a)
             \/ outcome[r] = "blocked" /\ ~TrashEvidence(a)
          /\ status' = Finished({r}, "recovery_required", end)
          /\ IF Raised({r}, "recovery_required", end) THEN Abort ELSE Return /\ UNCHANGED clean
          /\ UNCHANGED receipt
  /\ UNCHANGED <<files, record, history, bounds>>

-----------------------------------------------------------------------------
(* Around the owner: its death, the user, the recorders.                   *)

\* The owner process stops; what it had in hand is gone, the KIO worker is not.
Crash ==
  /\ pc # "idle"
  /\ Abort
  /\ UNCHANGED <<ledger, files, record, history, bounds>>

\* Mutant of Abandoned: every interrupted row is closed as failed.
AbandonedAsFailed ==
  /\ pc = "idle"
  /\ status' = [r \in Rows |-> IF status[r] \in {"started", "applying"} THEN "failed" ELSE status[r]]
  /\ status' # status
  /\ UNCHANGED <<receipt, files, owner, record, history, bounds, clean>>

\* mark_abandoned_actions, when a run failed or the next one starts: an intent
\* that never crossed the frontier failed, the others are uncertain.  There are
\* two transactions, and the process may stop or fail between them.
Abandoned ==
  /\ pc = "idle"
  /\ \E both \in BOOLEAN :
       status' = [r \in Rows |->
         CASE status[r] = "started" -> "failed"
           [] status[r] = "applying" /\ both -> "recovery_required"
           [] OTHER -> status[r]]
  /\ status' # status
  /\ UNCHANGED <<receipt, files, owner, record, history, bounds, clean>>

\* The user works on the same files (external).
User ==
  /\ moves < UserMoves /\ moves' = moves + 1
  /\ \E a \in plan :
       \/ \* writes another object at the source path, or removes what is there
          /\ \E o \in {"other", "none"} : at' = [at EXCEPT ![a]["source"] = o]
          /\ at' # at
          /\ UNCHANGED <<info, putback>>
       \/ \* makes or removes an object at the corrected path
          /\ a \in Rename
          /\ at' = [at EXCEPT ![a]["target"] = IF @ = "none" THEN "other" ELSE "none"]
          /\ UNCHANGED <<info, putback>>
       \/ \* empties the Trash
          /\ at[a]["trash"] # "none"
          /\ at' = [at EXCEPT ![a]["trash"] = "none"]
          /\ info' = [info EXCEPT ![a] = "none"]
          /\ UNCHANGED putback
       \/ \* restores from the desktop, to the path the .trashinfo names
          /\ at[a]["trash"] # "none" /\ info[a] \in Places /\ at[a][info[a]] = "none"
          /\ at' = Moved(a, "trash", info[a])
          /\ info' = [info EXCEPT ![a] = "none"]
          /\ putback' = [putback EXCEPT ![a] = info[a] = "source"]
       \/ \* moves the file out of the Trash by hand
          /\ at[a]["trash"] # "none" /\ at[a]["source"] = "none"
          /\ at' = Moved(a, "trash", "source")
          /\ putback' = [putback EXCEPT ![a] = TRUE]
          /\ UNCHANGED info
  /\ UNCHANGED <<ledger, kio, owner, record, took, plan, rounds, clean>>

\* _observe_path: the planned object, another one, or none.
Observed(a, p) ==
  CASE at[a][p] = "mine" -> "expected"
    [] at[a][p] = "other" -> "different"
    [] OTHER -> "missing"

\* Mutant of ClassifyTrash: an absent source is taken for work not done.
ClassifyTrashAbsent(a) ==
  IF Observed(a, "source") # "different" THEN "not_performed" ELSE "ambiguous"

\* _classify_trash: only the planned object at its path says that nothing was
\* done, only a receipt that the disk bears out says that it was.
ClassifyTrash(a) ==
  CASE Observed(a, "source") = "expected" -> "not_performed"
    [] Observed(a, "source") = "missing" /\ receipt[a] /\ TrashEvidence(a) -> "confirmed"
    [] OTHER -> "ambiguous"

\* Mutant of ClassifyMove: whatever is at the target counts.
ClassifyMoveByName(a) ==
  CASE Observed(a, "source") = "missing" /\ Observed(a, "target") # "missing" -> "confirmed"
    [] Observed(a, "source") = "expected" -> "not_performed"
    [] OTHER -> "ambiguous"

\* _classify_move.
ClassifyMove(a) ==
  CASE Observed(a, "source") = "missing" /\ Observed(a, "target") = "expected" -> "confirmed"
    [] Observed(a, "source") = "expected" /\ Observed(a, "target") = "missing" -> "not_performed"
    [] OTHER -> "ambiguous"

\* _classify_restore.
ClassifyRestore(a) ==
  CASE Observed(a, "source") = "expected" -> "confirmed"
    [] Observed(a, "source") = "missing"  -> "not_performed"
    [] OTHER -> "ambiguous"

Classify(r) ==
  CASE r \in Restores -> ClassifyRestore(Subject(r))
    [] r \in Trash    -> ClassifyTrash(r)
    [] OTHER          -> ClassifyMove(r)

\* The owner has the row in hand.
Live(r) == pc # "idle" /\ r \in batch

\* list_file_action_reconciliations: read the row, look at the disk, classify.
\* The previous event is what the person who records believes to be the last.
Observe(c) ==
  /\ \E r \in Rows :
       /\ status[r] \in {"applying", "recovery_required"} /\ Subject(r) \in Watched[c]
       /\ Len(events[r]) < MaxEvents
       /\ \E class \in {Classify(r), "impossible_to_check"}, prev \in 0..Len(events[r]) :
            seen' = [seen EXCEPT ![c] =
              {[row |-> r, action_status |-> status[r], class |-> class, previous |-> prev,
                actor |-> c, live |-> Live(r), displaced |-> Displaced(r),
                effects |-> Len(took[r])]}]
  /\ answer' = [answer EXCEPT ![c] = {}]
  /\ UNCHANGED <<ledger, files, owner, events, history, bounds, clean>>

\* The reconciliation key: what is observed and by whom, after which event.
Request(e) == <<e.row, e.action_status, e.class, e.previous, e.actor>>

\* Mutant of Copies: only the latest event of the row is compared.
CopiesLast(e) ==
  {i \in DOMAIN events[e.row] : i = Len(events[e.row]) /\ Request(events[e.row][i]) = Request(e)}

\* The events of the row that _existing_reconciliation takes for this request.
Copies(e) == {i \in DOMAIN events[e.row] : Request(events[e.row][i]) = Request(e)}

\* The compare-and-swap of the record: the status and the last event are those
\* the observation was made with.
Current(e) ==
  /\ status[e.row] = e.action_status
  /\ Len(events[e.row]) = e.previous

\* record_file_action_reconciliation: an identical request finds its event, a
\* stale one is a conflict, else the event is appended.  The recorder may not
\* learn the answer, and ask again.
Record(c) ==
  /\ \E e \in seen[c] :
       /\ events' = IF Copies(e) = {} /\ Current(e)
                    THEN [events EXCEPT ![e.row] = Append(@, e)]
                    ELSE events
       /\ \/ /\ seen' = [seen EXCEPT ![c] = {}]
             /\ answer' = [answer EXCEPT ![c] =
                  {[event |-> e, recorded |-> Copies(e) # {} \/ Current(e)]}]
          \/ /\ events' # events
             /\ UNCHANGED <<seen, answer>>
  /\ UNCHANGED <<ledger, files, owner, history, bounds, clean>>

-----------------------------------------------------------------------------
Init ==
  /\ status  = [r \in Rows |-> "absent"]
  /\ receipt = [r \in Rows |-> FALSE]
  /\ at   = [a \in Actions |-> [p \in Places |-> IF p = "source" THEN "mine" ELSE "none"]]
  /\ info = [a \in Actions |-> "none"]
  /\ kio  = [a \in Trash |-> FALSE]
  /\ pc = "idle" /\ batch = {} /\ chunk = {} /\ todo = {} /\ claims = {}
  /\ outcome = [r \in Rows |-> "none"]
  /\ events = [r \in Rows |-> << >>]
  /\ seen   = [c \in Recorders |-> {}]
  /\ answer = [c \in Recorders |-> {}]
  /\ took    = [r \in Rows |-> << >>]
  /\ putback = [r \in Rows |-> FALSE]
  /\ plan \in Plans /\ rounds = 0 /\ moves = 0 /\ clean = TRUE

TrashBatch == \/ BeginTrash \/ Plan \/ Apply \/ Check \/ Checked \/ Uninvoked \/ Mark
              \/ NextChunk \/ Admit \/ Admitted \/ Claim \/ Invoke \/ KioReturns
              \/ Unclaim \/ Unclaimed \/ Split \/ Verify \/ Rewrite \/ AllVerified
              \/ Persist \/ Persisted \/ Confirm

RenameOne == \/ BeginRename \/ RenameCheck \/ RenameMove \/ RenameLook \/ RenameSettle

RestoreOne == \/ RestoreBegin \/ RestoreMark \/ RestoreMove \/ RestoreUnlink \/ RestoreSettle

\* The steps of the code and of KIO.
System == TrashBatch \/ RenameOne \/ RestoreOne \/ KioMove \/ KioFail

Next == \/ System
        \/ Crash
        \/ Abandoned
        \/ User
        \/ \E c \in Recorders : Observe(c) \/ Record(c)

Spec == Init /\ [][Next]_vars

-----------------------------------------------------------------------------
(* Properties.                                                             *)

TypeOK ==
  /\ status \in [Rows -> Statuses]
  /\ receipt \in [Rows -> BOOLEAN]
  /\ at \in [Actions -> [Places -> Objects]]
  /\ info \in [Actions -> {"none", "claim", "torn", "source"}]
  /\ kio \in [Trash -> BOOLEAN]
  /\ pc \in Steps
  /\ plan \in Plans
  /\ batch \subseteq Rows /\ chunk \subseteq batch /\ todo \subseteq batch
  /\ claims \subseteq chunk
  /\ outcome \in [Rows -> {"none", "applied", "blocked", "recovery"}]
  /\ \A r \in Rows : receipt[r] <=> status[r] = "applied"
  /\ pc = "idle" => batch = {}

\* Whatever crashes, failed writes, interrupted calls and late KIO workers come
\* together, an object that an effect took and that is not back at its place
\* belongs to a row that says so: one that is applied, or one that a person is
\* asked to look at.  A row closed as planned, skipped or failed left nothing
\* displaced, and no object leaves before its row crossed the frontier.
DisplacedIsRecorded ==
  \A r \in Rows : Displaced(r) => status[r] \in {"applying", "applied", "recovery_required"}

\* An applied row had exactly one effect, and it took the planned object: what
\* the user put in its place meanwhile was never taken for it, and a call of KIO
\* that was made again had put back all it had taken.
AppliedBacked == \A r \in Rows : status[r] = "applied" => took[r] = <<"mine">>

\* No step of the owner or of KIO overwrites or drops an object: the planned
\* file and whatever the user puts in the way are all still somewhere.
NothingDestroyed ==
  [][moves' = moves =>
       \A a \in Actions, o \in {"mine", "other"} :
         Cardinality({p \in Places : at'[a][p] = o}) = Cardinality({p \in Places : at[a][p] = o})]_vars

\* What lies in the Trash has a .trashinfo, and one that names the original path,
\* so the desktop can restore it, unless the row still says that the action is
\* under way or uncertain: then it may name the private claim, or nothing when
\* the owner stopped, or failed, while it rewrote the file.  A closed row never
\* leaves such an object, and a restoration that stops between its steps never
\* makes one.
TrashNamed ==
  \A a \in Trash : at[a]["trash"] # "none" =>
    \/ info[a] = "source"
    \/ info[a] \in {"claim", "torn"} /\ status[a] \in {"applying", "recovery_required"}

\* A verdict on record stays true.  'not_performed' on a row no owner has in
\* hand: nothing was displaced, and no effect of that row comes later, not even
\* from a KIO worker that outlived its owner; 'confirmed': the planned object
\* was taken.  (A restoration is classified by its destination alone.)
VerdictHolds ==
  \A r \in Actions : \A i \in DOMAIN events[r] :
    LET e == events[r][i] IN
    /\ e.class = "not_performed" /\ ~e.live => ~e.displaced /\ Len(took[r]) = e.effects
    /\ e.class = "confirmed" => took[r] = <<"mine">>

\* The answer of a record is true, and stays so: a recorder that was told its
\* event is on record has it there once, also when it asked again because the
\* first answer was lost and another one recorded meanwhile; one that was told
\* of a conflict has none, neither from a first request nor later.
AnswersTrue ==
  \A c \in Recorders : \A x \in answer[c] :
    Cardinality({i \in DOMAIN events[x.event.row] :
                   Request(events[x.event.row][i]) = Request(x.event)})
      = IF x.recorded THEN 1 ELSE 0

\* A run without crash, failed write or refused batch leaves every row it began
\* with an outcome, whatever KIO, the user and the file system did.
NothingLeftOpen ==
  clean /\ pc = "idle" => \A r \in Rows : status[r] \notin {"started", "applying"}

=============================================================================

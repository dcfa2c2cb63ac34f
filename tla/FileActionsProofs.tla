------------------------- MODULE FileActionsProofs -------------------------
(***************************************************************************)
(* Proofs about FileActions for every set of actions, plans and recorders, *)
(* every number of restorations, user moves and events, and every place in *)
(* which the owner stops or a ledger write fails.                          *)
(***************************************************************************)
EXTENDS FileActions, FiniteSetTheorems, SequenceTheorems, TLAPS

-----------------------------------------------------------------------------
(* The inductive invariant. *)

Before  == {"begun", "check", "mark", "rename", "restore"}
Calling == {"next", "admit", "claim", "run", "unclaim", "shorten", "verify", "rewrite"}
During  == Calling \cup {"move", "look", "restoring", "unlink"}
OfTrash   == {"begun", "check", "mark", "persist", "confirm"} \cup Calling
OfRename  == {"rename", "move", "look", "settle"}
OfRestore == {"restore", "restoring", "unlink", "restored"}

\* What an effect may have taken so far: nothing, or one object, once (a claim
\* that went back before the call was made again is not counted).
Taken == {<<>>, <<"mine">>, <<"other">>}

\* The recorders' data.
Event == [row : Rows, action_status : Statuses,
          class : {"confirmed", "not_performed", "ambiguous", "impossible_to_check"},
          previous : Nat, actor : Recorders, live : BOOLEAN, displaced : BOOLEAN,
          effects : Nat]

RecordOK ==
  /\ took \in [Rows -> Taken] /\ putback \in [Rows -> BOOLEAN]
  /\ seen \in [Recorders -> SUBSET Event]
  /\ answer \in [Recorders -> SUBSET [event : Event, recorded : BOOLEAN]]
  /\ events \in [Rows -> Seq(Event)]
  /\ \A r \in Rows : \A i \in DOMAIN events[r] : events[r][i].row = r
  /\ clean \in BOOLEAN

\* The owner has rows of one kind in hand.
BatchOK ==
  /\ pc = "idle" => \A r \in Rows : outcome[r] = "none"
  /\ pc \in Before \cup {"idle", "next", "admit"} => claims = {}
  /\ pc \in Before => chunk = {}
  /\ pc \in OfTrash => batch \subseteq Trash
  /\ pc \in OfRename => \E a \in Rename : batch = {a}
  /\ pc \in OfRestore => \E r \in Restores : batch = {r}

\* The files of a Trash action.  Its object passes from the source to the
\* claim and to the Trash, and is in one of them at a time; an object that is
\* not the planned one never gets past the claim.
TrashFilesOK(a) ==
  /\ at[a]["target"] = "none"
  /\ at[a]["claim"] # "none" => took[a] = <<at[a]["claim"]>> /\ at[a]["trash"] = "none"
  /\ at[a]["trash"] # "none" => took[a] = <<"mine">> /\ at[a]["trash"] = "mine" /\ info[a] # "none"
  /\ kio[a] => at[a]["claim"] = "mine"
  /\ took[a] = <<"other">> => at[a]["claim"] = "other" /\ at[a]["source"] # "mine"
  /\ at[a]["source"] = "mine" => at[a]["claim"] # "mine" /\ at[a]["trash"] # "mine"
  /\ at[a]["source"] = "mine" /\ took[a] # <<>> /\ status[a] # "applied" => putback[a]

RenameFilesOK(a) ==
  /\ at[a]["claim"] = "none" /\ at[a]["trash"] = "none"
  /\ at[a]["target"] = "mine" => took[a] = <<"mine">>
  /\ took[a] # <<>> => at[a]["source"] # "mine"

FilesOK ==
  /\ \A a \in Trash : TrashFilesOK(a)
  /\ \A a \in Rename : RenameFilesOK(a)

\* Nothing of r is displaced, and nothing will be.
Intact(r) ==
  \/ took[r] = <<>>
  \/ r \in Trash /\ putback[r] /\ at[r]["claim"] = "none" /\ at[r]["trash"] = "none"

\* The effect of r took the planned object, and what the Trash has of it can
\* be restored.
Backed(r) ==
  /\ took[r] = <<"mine">>
  /\ r \in Trash => ~kio[r] /\ (at[r]["trash"] # "none" => info[r] = "source")

\* What the status of a row says about its effect.
StatusOK ==
  \A r \in Rows :
    /\ status[r] \in {"absent", "started", "planned", "failed"} => took[r] = <<>>
    /\ status[r] = "skipped" => Intact(r)
    /\ status[r] = "applied" => Backed(r)
    /\ r \in Restores /\ status[r] # "absent" => status[Subject(r)] = "applied"
    /\ r \in Restores => took[r] # <<"other">>

\* What the owner knows of a row in hand while it calls KIO.  A row without an
\* outcome that has no claim has no effect yet.
CallOK(r) ==
  /\ outcome[r] = "none" /\ r \notin claims => took[r] = <<>>
  /\ r \in todo => r \in chunk /\ outcome[r] = "none"
  /\ pc \in {"unclaim", "shorten", "verify"} /\ r \in chunk /\ outcome[r] = "none" => r \in todo
  /\ pc = "claim" /\ r \in chunk /\ outcome[r] = "none" =>
        /\ ~kio[r]
        /\ r \in todo => r \notin claims
        /\ r \notin todo => at[r]["claim"] = "mine"

\* What the owner knows of a row in hand at each of its steps.
HandOK(r) ==
  /\ pc \in Before => status[r] = "started"
  /\ pc \in During => status[r] = "applying"
  /\ pc \in Before \cup {"move", "restoring"} => took[r] = <<>>
  /\ pc = "unlink" => took[r] = <<"mine">>
  /\ outcome[r] = "blocked" => Intact(r) /\ (pc \in {"settle", "restored"} => took[r] = <<>>)
  /\ outcome[r] = "applied" => Backed(r) /\ status[r] = "applying"
  /\ pc = "persist" /\ r \in todo /\ outcome[r] = "blocked" => status[r] = "applying"
  /\ pc \in Before \cup {"move", "look", "restoring", "unlink"} => outcome[r] = "none"
  /\ pc \in Calling => CallOK(r)
  /\ pc = "settle" /\ outcome[r] = "blocked" => status[r] \in {"started", "applying"}

\* A run that went well so far has no open row but those in hand.
OpenOK ==
  clean =>
    \A r \in Rows : status[r] \in {"started", "applying"} =>
       /\ r \in batch
       /\ pc = "persist" => r \in todo \/ outcome[r] = "applied"
       /\ pc = "confirm" => outcome[r] = "applied"

\* What a recorder saw stays true.
VerdictOK(e) ==
  e.row \in Actions =>
    /\ status[e.row] # "absent"
    /\ e.class = "not_performed" /\ ~e.live =>
          ~e.displaced /\ Len(took[e.row]) = e.effects /\ ~Live(e.row)
    /\ e.class = "confirmed" => e.row \in Rename /\ took[e.row] = <<"mine">>

VerdictsOK ==
  /\ \A c \in Recorders : \A e \in seen[c] : VerdictOK(e)
  /\ \A r \in Rows : \A i \in DOMAIN events[r] : VerdictOK(events[r][i])

\* The events of a row form one chain.
Chained == \A r \in Rows : \A i \in DOMAIN events[r] : events[r][i].previous = i - 1

\* What a recorder asked for was true of its row once.
Known(e) ==
  /\ e.action_status \in {"applying", "recovery_required"}
  /\ e.previous <= Len(events[e.row])
  /\ status[e.row] \notin {"absent", "started"}
  /\ e.action_status = "recovery_required" => status[e.row] = "recovery_required"

\* An answer stays right: a request that met a conflict can never be current
\* again, so no event of it will come.
Answered(x) ==
  /\ x.recorded => Copies(x.event) # {}
  /\ ~x.recorded => Copies(x.event) = {} /\ ~Current(x.event)

AnswersOK ==
  /\ Chained
  /\ \A c \in Recorders : \A e \in seen[c] : Known(e)
  /\ \A c \in Recorders : \A x \in answer[c] : Known(x.event) /\ Answered(x)

IInv ==
  /\ TypeOK /\ RecordOK /\ BatchOK /\ FilesOK /\ StatusOK
  /\ \A r \in batch : HandOK(r)
  /\ OpenOK /\ VerdictsOK /\ AnswersOK

-----------------------------------------------------------------------------
(* Lemmas about the operators. *)

\* A row is one of an action or of a restoration, never of both.
LEMMA RowKinds ==
  /\ Trash \cap Rename = {} /\ Actions \cap Restores = {}
  /\ Actions \subseteq Rows /\ Restores \subseteq Rows
  /\ \A r \in Rows : Subject(r) \in Actions
  /\ \A r \in Restores : Subject(r) \in Trash
  /\ \A r \in Actions : Subject(r) = r
  /\ \A a \in Restorable : RestoreOf(a) \in Restores /\ Subject(RestoreOf(a)) = a
  BY ConstantsAssumption DEF Actions, Restores, Rows, Subject, RestoreOf

\* A move empties one place and fills another.
LEMMA MovedFacts ==
  ASSUME TypeOK, NEW a \in Actions, NEW p \in Places, NEW q \in Places, p # q
  PROVE  /\ Moved(a, p, q) \in [Actions -> [Places -> Objects]]
         /\ Moved(a, p, q)[a][q] = at[a][p] /\ Moved(a, p, q)[a][p] = "none"
         /\ \A s \in Places \ {p, q} : Moved(a, p, q)[a][s] = at[a][s]
         /\ \A b \in Actions \ {a} : Moved(a, p, q)[b] = at[b]
  BY DEF Moved, TypeOK, Objects

\* The transitions of the ledger but the frontier.
LEMMA AllowedFacts ==
  ASSUME NEW t \in Statuses, NEW s \in Allowed(t)
  PROVE  /\ t \in {"started", "applying"}
         /\ s \in {"planned", "failed", "skipped", "applied", "recovery_required"}
         /\ s = "applied" => t = "applying"
         /\ s \in {"planned", "failed"} => t = "started"
  BY DEF Allowed, Statuses, Closed

\* One transaction of finish_file_actions changes all of its rows, or none.
LEMMA FinishedFacts ==
  ASSUME TypeOK, NEW R \in SUBSET Rows, NEW s \in Statuses, NEW end
  PROVE  /\ Finished(R, s, end) \in [Rows -> Statuses]
         /\ \A r \in Rows : \/ Finished(R, s, end)[r] = status[r]
                            \/ /\ r \in R /\ Finished(R, s, end)[r] = s
                               /\ s \in Allowed(status[r])
         /\ ~Raised(R, s, end) => \A r \in R : Finished(R, s, end)[r] = s
  BY DEF Finished, Raised, Legal, TypeOK

\* mark_file_actions_applying
LEMMA FrontierFacts ==
  ASSUME TypeOK, NEW R \in SUBSET Rows, NEW end
  PROVE  /\ Frontier(R, end) \in [Rows -> Statuses]
         /\ \A r \in Rows : \/ Frontier(R, end)[r] = status[r]
                            \/ /\ r \in R /\ status[r] = "started"
                               /\ Frontier(R, end)[r] = "applying"
         /\ FrontierPassed(R, end) => \A r \in R : Frontier(R, end)[r] = "applying"
  BY DEF Frontier, FrontierPassed, TypeOK, Statuses

\* A row's first effect.
LEMMA TakeFacts ==
  ASSUME TypeOK, RecordOK, NEW r \in Rows, NEW p \in Places, took[r] = <<>>,
         at[Subject(r)][p] # "none", Take(r, p)
  PROVE  /\ took' \in [Rows -> Taken] /\ putback' \in [Rows -> BOOLEAN]
         /\ took'[r] = <<at[Subject(r)][p]>> /\ putback'[r] = FALSE
         /\ \A s \in Rows \ {r} : took'[s] = took[s] /\ putback'[s] = putback[s]
  <1>1. at[Subject(r)][p] \in {"mine", "other"}
    BY RowKinds DEF TypeOK, Objects
  <1>2. Append(took[r], at[Subject(r)][p]) = <<at[Subject(r)][p]>>
    OBVIOUS
  <1> QED BY <1>1, <1>2 DEF Take, RecordOK, Taken

\* A row never loses its record or its outcome, nor goes back over the frontier.
RecordsKept ==
  \A r \in Rows : /\ status[r] # "absent" => status'[r] # "absent"
                  /\ status[r] \notin {"absent", "started", "applying"} => status'[r] = status[r]
                  /\ status[r] = "applying" => status'[r] \notin {"absent", "started"}

\* The verdicts and the answers stand as long as no row loses its record, the
\* effect of a rename is not undone, and no row on record gets an owner or an
\* effect again.
LEMMA VerdictsStand ==
  ASSUME IInv, UNCHANGED record, RecordsKept,
         \A r \in Actions : status[r] # "absent" =>
            /\ r \in Rename /\ took[r] # <<>> => took'[r] = took[r]
            /\ ~Live(r) => ~Live(r)' /\ took'[r] = took[r]
  PROVE  VerdictsOK' /\ AnswersOK'
  <1>1. ASSUME NEW e \in Event, VerdictOK(e) PROVE VerdictOK(e)'
    <2> SUFFICES ASSUME e.row \in Actions PROVE VerdictOK(e)'
      BY DEF VerdictOK
    <2>1. status[e.row] # "absent" /\ status'[e.row] # "absent"
      BY <1>1, RowKinds DEF VerdictOK, RecordsKept
    <2>2. ASSUME e.class = "not_performed", ~e.live
          PROVE  ~e.displaced /\ Len(took'[e.row]) = e.effects /\ ~Live(e.row)'
      BY <1>1, <2>1, <2>2 DEF VerdictOK
    <2>3. ASSUME e.class = "confirmed" PROVE e.row \in Rename /\ took'[e.row] = <<"mine">>
      BY <1>1, <2>1, <2>3 DEF VerdictOK
    <2> QED BY <2>1, <2>2, <2>3 DEF VerdictOK
  <1>2. ASSUME NEW e \in Event, Known(e)
        PROVE  Known(e)' /\ (~Current(e) => ~Current(e)') /\ Copies(e)' = Copies(e)
    <2>1. events' = events /\ e.row \in Rows /\ e.previous \in Nat
      BY DEF record, Event
    <2>2. status[e.row] \notin {"absent", "started"} /\ status'[e.row] \notin {"absent", "started"}
      BY <1>2, <2>1 DEF Known, RecordsKept
    <2>3. status[e.row] # "applying" => status'[e.row] = status[e.row]
      BY <2>1, <2>2 DEF RecordsKept
    <2>4. Known(e)'
      BY <1>2, <2>1, <2>2, <2>3 DEF Known
    <2>5. ~Current(e) => ~Current(e)'
      BY <1>2, <2>1, <2>3 DEF Known, Current
    <2> QED BY <2>1, <2>4, <2>5 DEF Copies
  <1>3. AnswersOK'
    <2>1. UNCHANGED <<events, seen, answer>>
      BY DEF record
    <2>2. Chained' /\ \A c \in Recorders : \A e \in seen'[c] : Known(e)'
      BY <1>2, <2>1 DEF IInv, AnswersOK, RecordOK, Chained
    <2>3. ASSUME NEW c \in Recorders, NEW x \in answer[c]
          PROVE  Known(x.event)' /\ Answered(x)'
      <3>1. x.event \in Event /\ Known(x.event) /\ Answered(x)
        BY DEF IInv, AnswersOK, RecordOK
      <3> QED BY <1>2, <3>1 DEF Answered
    <2> QED BY <2>1, <2>2, <2>3 DEF AnswersOK
  <1>4. VerdictsOK'
    BY <1>1 DEF IInv, VerdictsOK, RecordOK, record
  <1> QED BY <1>3, <1>4

\* The new status of r agrees with what its effect did.
Earned(r) ==
  /\ status'[r] \in {"absent", "started", "planned", "failed"} => took[r] = <<>>
  /\ status'[r] = "skipped" => Intact(r)
  /\ status'[r] = "applied" => Backed(r)
  /\ r \in Restores => status[Subject(r)] = "applied"

\* A step that touches no file keeps what is not about the rows in hand.
LEMMA LedgerStep ==
  ASSUME IInv, UNCHANGED <<files, record, history>>, TypeOK', BatchOK', clean' \in BOOLEAN,
         RecordsKept, \A r \in Rows : status'[r] = status[r] \/ Earned(r),
         \A r \in Actions : status[r] # "absent" /\ r \in batch' => r \in batch,
         \A r \in batch' : HandOK(r)', OpenOK'
  PROVE  IInv'
  <1> USE RowKinds
  <1>1. RecordOK'
    BY DEF IInv, RecordOK, record, history
  <1>2. FilesOK'
    BY DEF IInv, FilesOK, TrashFilesOK, RenameFilesOK, RecordsKept, files, history, Rows, Actions
  <1>3. StatusOK'
    <2> SUFFICES ASSUME NEW r \in Rows
                 PROVE  /\ status'[r] \in {"absent", "started", "planned", "failed"} => took[r] = <<>>
                        /\ status'[r] = "skipped" => Intact(r)
                        /\ status'[r] = "applied" => Backed(r)
                        /\ r \in Restores /\ status'[r] # "absent" => status'[Subject(r)] = "applied"
                        /\ r \in Restores => took[r] # <<"other">>
      BY DEF StatusOK, Intact, Backed, files, history
    <2>1. status'[r] = status[r] \/ Earned(r)
      OBVIOUS
    <2> QED BY <2>1 DEF IInv, StatusOK, Earned, RecordsKept
  <1>4. VerdictsOK' /\ AnswersOK'
    <2>1. \A r \in Actions : /\ Live(r) <=> r \in batch
                             /\ Live(r)' <=> r \in batch'
      BY DEF IInv, TypeOK, Live
    <2> QED BY <2>1, VerdictsStand DEF history
  <1> QED BY <1>1, <1>2, <1>3, <1>4 DEF IInv

\* The owner returns, and every row it began has an outcome or the run is
\* not clean any more.
LEMMA ReturnStep ==
  ASSUME IInv, Return, UNCHANGED <<files, record, history, plan>>, clean' \in BOOLEAN,
         status' \in [Rows -> Statuses], receipt' \in [Rows -> BOOLEAN],
         \A r \in Rows : receipt'[r] <=> status'[r] = "applied",
         RecordsKept, \A r \in Rows : status'[r] = status[r] \/ Earned(r),
         clean' => \A r \in Rows : status'[r] \notin {"started", "applying"}
  PROVE  IInv'
  <1>1. TypeOK'
    BY DEF IInv, TypeOK, Return, Steps, files
  <1>2. BatchOK' /\ OpenOK'
    BY DEF BatchOK, OpenOK, Return, OfTrash, OfRename, OfRestore, Before, Calling
  <1>3. batch' = {}
    BY DEF Return
  <1> QED BY <1>1, <1>2, <1>3, LedgerStep

\* A step of the owner that writes neither the ledger nor a file.
LEMMA CallStep ==
  ASSUME IInv, UNCHANGED <<ledger, files, batch, record, history, bounds, clean>>,
         pc' \in Steps \ {"idle"}, todo' \subseteq batch, BatchOK', OpenOK',
         chunk' \subseteq batch, claims' \subseteq chunk',
         outcome' \in [Rows -> {"none", "applied", "blocked", "recovery"}],
         \A r \in batch : HandOK(r)'
  PROVE  IInv'
  <1>1. TypeOK' /\ clean' \in BOOLEAN
    BY DEF IInv, TypeOK, RecordOK, ledger, files, bounds
  <1>2. RecordsKept /\ \A r \in Rows : status'[r] = status[r]
    BY DEF RecordsKept, ledger
  <1> QED BY <1>1, <1>2, LedgerStep

\* The same inside one call of KIO.
LEMMA QuietStep ==
  ASSUME IInv, UNCHANGED <<ledger, files, batch, chunk, claims, record, history, bounds, clean>>,
         pc' \in Steps \ {"idle"}, todo' \subseteq batch, BatchOK', OpenOK',
         outcome' \in [Rows -> {"none", "applied", "blocked", "recovery"}],
         \A r \in batch : HandOK(r)'
  PROVE  IInv'
  <1>1. chunk' \subseteq batch /\ claims' \subseteq chunk'
    BY DEF IInv, TypeOK
  <1> QED BY <1>1, CallStep

\* A step that writes no row but may move files: a row whose effect it changes
\* is in the owner's hand, and the effect is its first or that of a Trash row.
LEMMA EffectStep ==
  ASSUME IInv, UNCHANGED <<ledger, record, clean, batch>>, TypeOK', BatchOK',
         took' \in [Rows -> Taken], putback' \in [Rows -> BOOLEAN],
         FilesOK', StatusOK', OpenOK', \A r \in batch : HandOK(r)',
         \A r \in Actions : \/ took'[r] = took[r]
                            \/ r \in batch /\ (took[r] = <<>> \/ r \in Trash)
  PROVE  IInv'
  <1>1. RecordOK'
    BY DEF IInv, RecordOK, record
  <1>2. \A r \in Actions : (Live(r) <=> r \in batch) /\ (Live(r)' <=> r \in batch)
    BY DEF IInv, TypeOK, Live
  <1>3. RecordsKept
    BY DEF RecordsKept, ledger
  <1>4. VerdictsOK' /\ AnswersOK'
    <2>1. \A r \in Actions : r \in Rename => r \notin Trash
      BY RowKinds
    <2> QED BY <1>2, <1>3, <2>1, VerdictsStand
  <1> QED BY <1>1, <1>4 DEF IInv

\* The statuses finish_file_actions may set.
Endings == {"planned", "failed", "skipped", "recovery_required"}

\* Closing the rows R, or handing them to recovery.
LEMMA FinishedStep ==
  ASSUME IInv, NEW R \in SUBSET Rows, NEW end,
         NEW s \in Endings,
         status' = Finished(R, s, end),
         s = "skipped" => \A r \in R : status[r] = "applying" => Intact(r)
  PROVE  /\ status' \in [Rows -> Statuses]
         /\ \A r \in Rows : receipt[r] <=> status'[r] = "applied"
         /\ RecordsKept
         /\ \A r \in Rows : status'[r] = status[r] \/ (r \in R /\ status'[r] = s /\ Earned(r))
         /\ ~Raised(R, s, end) => \A r \in R : status'[r] = s
  <1>1. s \in Statuses /\ TypeOK
    BY DEF IInv, Statuses, Closed, Endings
  <1>2. /\ status' \in [Rows -> Statuses]
        /\ \A r \in Rows : \/ status'[r] = status[r]
                           \/ r \in R /\ status'[r] = s /\ s \in Allowed(status[r])
        /\ ~Raised(R, s, end) => \A r \in R : status'[r] = s
    BY <1>1, FinishedFacts
  <1>3. ASSUME NEW r \in R, status'[r] = s, s \in Allowed(status[r])
        PROVE  Earned(r) /\ status[r] \in {"started", "applying"}
    <2>1. /\ status[r] \in {"started", "applying"}
          /\ s \in {"planned", "failed"} => status[r] = "started"
      BY <1>1, <1>3, AllowedFacts DEF TypeOK
    <2>2. status[r] = "started" => took[r] = <<>>
      BY DEF IInv, StatusOK
    <2>3. r \in Restores => status[Subject(r)] = "applied"
      BY <2>1 DEF IInv, StatusOK
    <2> QED BY <1>3, <2>1, <2>2, <2>3 DEF Earned, Intact, Endings
  <1>4. RecordsKept
    BY <1>2, <1>3 DEF RecordsKept, Endings
  <1>5. \A r \in Rows : receipt[r] <=> status'[r] = "applied"
    BY <1>1, <1>2, <1>3 DEF TypeOK, Endings
  <1> QED BY <1>2, <1>3, <1>4, <1>5

\* The same for one row.
LEMMA FinishedOne ==
  ASSUME IInv, NEW a \in Rows, NEW end,
         NEW s \in Endings,
         status' = Finished({a}, s, end),
         s = "skipped" /\ status[a] = "applying" => Intact(a)
  PROVE  /\ status' \in [Rows -> Statuses]
         /\ \A r \in Rows : receipt[r] <=> status'[r] = "applied"
         /\ RecordsKept
         /\ \A r \in Rows : status'[r] = status[r] \/ (r = a /\ status'[r] = s /\ Earned(r))
         /\ ~Raised({a}, s, end) => status'[a] = s
  <1> DEFINE R == {a}
  <1>1. /\ R \in SUBSET Rows /\ status' = Finished(R, s, end)
        /\ s = "skipped" => \A r \in R : status[r] = "applying" => Intact(r)
    OBVIOUS
  <1> HIDE DEF R
  <1>2. /\ status' \in [Rows -> Statuses]
        /\ \A r \in Rows : receipt[r] <=> status'[r] = "applied"
        /\ RecordsKept
        /\ \A r \in Rows : status'[r] = status[r] \/ (r \in R /\ status'[r] = s /\ Earned(r))
        /\ ~Raised(R, s, end) => \A r \in R : status'[r] = s
    BY <1>1, FinishedStep
  <1> QED BY <1>2 DEF R

\* Confirming the rows R, whose effects are proven.
LEMMA ConfirmedStep ==
  ASSUME IInv, NEW R \in SUBSET Rows, NEW end, Confirmed(R, end),
         \A r \in R : Backed(r) /\ status[r] = "applying"
  PROVE  /\ status' \in [Rows -> Statuses] /\ receipt' \in [Rows -> BOOLEAN]
         /\ \A r \in Rows : receipt'[r] <=> status'[r] = "applied"
         /\ RecordsKept
         /\ \A r \in Rows : \/ status'[r] = status[r]
                            \/ r \in R /\ status'[r] = "applied" /\ Earned(r)
         /\ ~Raised(R, "applied", end) => \A r \in R : status'[r] = "applied"
  <1>1. TypeOK /\ "applied" \in Statuses
    BY DEF IInv, Statuses
  <1>2. /\ status' \in [Rows -> Statuses]
        /\ \A r \in Rows : status'[r] = status[r] \/ (r \in R /\ status'[r] = "applied")
        /\ ~Raised(R, "applied", end) => \A r \in R : status'[r] = "applied"
    BY <1>1, FinishedFacts DEF Confirmed
  <1>3. \A r \in R : "applied" \in Allowed(status[r])
    BY DEF Allowed
  <1>4. Legal(R, "applied")
    BY <1>3 DEF Legal
  <1>5. status' = IF end # "failed" THEN [r \in Rows |-> IF r \in R THEN "applied" ELSE status[r]]
                  ELSE status
    BY <1>4 DEF Confirmed, Finished
  <1>6. receipt' = [r \in Rows |-> receipt[r] \/ (r \in R /\ end # "failed")]
    BY <1>4 DEF Confirmed
  <1>7. receipt' \in [Rows -> BOOLEAN] /\ \A r \in Rows : receipt'[r] <=> status'[r] = "applied"
    BY <1>1, <1>5, <1>6 DEF TypeOK
  <1>8. \A r \in R : r \in Restores => status[Subject(r)] = "applied"
    BY DEF IInv, StatusOK
  <1>9. \A r \in R : status'[r] = "applied" => Earned(r)
    BY <1>8 DEF Earned
  <1>10. RecordsKept
    BY <1>2 DEF RecordsKept
  <1> QED BY <1>2, <1>7, <1>9, <1>10

\* Crossing the frontier.
LEMMA FrontierStep ==
  ASSUME IInv, NEW R \in SUBSET Rows, NEW end, status' = Frontier(R, end)
  PROVE  /\ status' \in [Rows -> Statuses]
         /\ \A r \in Rows : receipt[r] <=> status'[r] = "applied"
         /\ RecordsKept
         /\ \A r \in Rows : \/ status'[r] = status[r]
                            \/ r \in R /\ status'[r] = "applying" /\ Earned(r)
         /\ FrontierPassed(R, end) => \A r \in R : status'[r] = "applying"
  <1>1. TypeOK
    BY DEF IInv
  <1>2. /\ status' \in [Rows -> Statuses]
        /\ \A r \in Rows : \/ status'[r] = status[r]
                           \/ r \in R /\ status[r] = "started" /\ status'[r] = "applying"
        /\ FrontierPassed(R, end) => \A r \in R : status'[r] = "applying"
    BY <1>1, FrontierFacts
  <1>3. ASSUME NEW r \in Rows, status[r] = "started", status'[r] = "applying"
        PROVE  Earned(r)
    BY <1>3 DEF IInv, StatusOK, Earned
  <1>4. RecordsKept
    BY <1>2 DEF RecordsKept
  <1>5. \A r \in Rows : receipt[r] <=> status'[r] = "applied"
    BY <1>1, <1>2 DEF TypeOK
  <1> QED BY <1>2, <1>3, <1>4, <1>5

-----------------------------------------------------------------------------
(* The steps of the owner before the frontier. *)

\* The intents of a batch are recorded.
LEMMA BeginStep ==
  ASSUME IInv, NEW S \in SUBSET Rows, Begin(S),
         \/ S \subseteq Trash /\ Goto("begun", S)
         \/ (\E a \in Rename : S = {a}) /\ Goto("rename", S)
  PROVE  IInv'
  <1> USE RowKinds
  <1>1. /\ UNCHANGED <<files, record, history>> /\ UNCHANGED <<receipt, clean, plan, chunk, claims, outcome>>
        /\ batch' = S /\ todo' = S /\ pc' \in {"begun", "rename"} /\ pc = "idle"
        /\ batch = {} /\ chunk = {} /\ claims = {}
    BY DEF Begin, Goto, bounds, IInv, TypeOK
  <1>2. /\ status' = [r \in Rows |-> IF r \in S THEN "started" ELSE status[r]]
        /\ \A r \in S : status[r] = "absent"
    BY DEF Begin
  <1>3. TypeOK'
    BY <1>1, <1>2 DEF IInv, TypeOK, Statuses, Steps, files
  <1>4. BatchOK'
    BY <1>1 DEF BatchOK, OfTrash, OfRename, OfRestore, Before, Calling, Goto
  <1>5. \A r \in S : took[r] = <<>> /\ outcome[r] = "none" /\ r \notin Restores
    BY <1>1, <1>2 DEF IInv, StatusOK, BatchOK, Actions
  <1>6. RecordsKept /\ \A r \in Rows : status'[r] = status[r] \/ Earned(r)
    BY <1>2, <1>5 DEF RecordsKept, Earned
  <1>7. \A r \in batch' : HandOK(r)'
    BY <1>1, <1>2, <1>5 DEF HandOK, Before, During, Calling, CallOK, Intact, Backed, files, history
  <1>8. OpenOK'
    BY <1>1, <1>2 DEF IInv, OpenOK
  <1>9. \A r \in Actions : status[r] # "absent" /\ r \in batch' => r \in batch
    BY <1>1, <1>2
  <1>10. clean' \in BOOLEAN
    BY <1>1 DEF IInv, RecordOK
  <1> QED BY <1>1, <1>3, <1>4, <1>6, <1>7, <1>8, <1>9, <1>10, LedgerStep

LEMMA PlanStep == IInv /\ Plan => IInv'
  <1> SUFFICES ASSUME IInv, Plan PROVE IInv'
    OBVIOUS
  <1>1. PICK end \in Ends : /\ status' = Finished(batch, "planned", end)
                            /\ clean' = (clean /\ ~Raised(batch, "planned", end))
    BY DEF Plan
  <1>2. Return /\ UNCHANGED <<receipt, files, record, history, plan>>
    BY DEF Plan, bounds
  <1>3. batch \in SUBSET Rows
    BY DEF IInv, TypeOK
  <1>4. /\ status' \in [Rows -> Statuses]
        /\ \A r \in Rows : receipt[r] <=> status'[r] = "applied"
        /\ RecordsKept
        /\ \A r \in Rows : status'[r] = status[r] \/ (r \in batch /\ status'[r] = "planned" /\ Earned(r))
        /\ ~Raised(batch, "planned", end) => \A r \in batch : status'[r] = "planned"
    BY <1>1, <1>3, FinishedStep DEF Endings
  <1>5. clean' => \A r \in Rows : status'[r] \notin {"started", "applying"}
    BY <1>1, <1>4 DEF IInv, OpenOK
  <1>6. clean' \in BOOLEAN /\ receipt' \in [Rows -> BOOLEAN]
    BY <1>1, <1>2 DEF IInv, TypeOK
  <1> QED BY <1>2, <1>4, <1>5, <1>6, ReturnStep

LEMMA ApplyStep == IInv /\ Apply => IInv'
  <1> SUFFICES ASSUME IInv, Apply PROVE IInv'
    OBVIOUS
  <1>1. /\ UNCHANGED <<status, receipt, batch, chunk, claims, outcome, clean, plan>>
        /\ UNCHANGED <<files, record, history>>
        /\ pc = "begun" /\ pc' = "check" /\ todo' = batch
    BY DEF Apply, Goto, ledger, bounds
  <1>2. TypeOK' /\ BatchOK' /\ OpenOK' /\ clean' \in BOOLEAN
    BY <1>1 DEF IInv, TypeOK, RecordOK, BatchOK, OpenOK, OfTrash, OfRename, OfRestore, Before, Calling, Steps, files
  <1>3. \A r \in batch' : HandOK(r)'
    BY <1>1 DEF IInv, HandOK, Before, During, Calling, CallOK, Intact, Backed, files, history
  <1>4. RecordsKept
    BY <1>1 DEF RecordsKept
  <1> QED BY <1>1, <1>2, <1>3, <1>4, LedgerStep

\* One source of the batch is checked, or its row is closed.
LEMMA CheckStep == IInv /\ Check => IInv'
  <1> SUFFICES ASSUME IInv, Check PROVE IInv'
    OBVIOUS
  <1>1. UNCHANGED <<receipt, files, record, history, plan>> /\ pc = "check"
    BY DEF Check, bounds
  <1>2. PICK a \in todo :
          \/ todo' = todo \ {a} /\ UNCHANGED <<status, pc, batch, chunk, claims, outcome, clean>>
          \/ \E s \in {"failed", "skipped"}, end \in Ends :
               /\ status' = Finished({a}, s, end)
               /\ IF Raised({a}, s, end) THEN Abort
                  ELSE /\ todo' = todo \ {a} /\ batch' = batch \ {a}
                       /\ UNCHANGED <<pc, chunk, claims, outcome, clean>>
    BY DEF Check
  <1>3. /\ a \in batch /\ {a} \in SUBSET Rows /\ a \in Rows
        /\ status[a] = "started"
    BY <1>1, <1>2 DEF IInv, TypeOK, HandOK, Before
  <1>4. CASE todo' = todo \ {a} /\ UNCHANGED <<status, pc, batch, chunk, claims, outcome, clean>>
    <2>1. BatchOK' /\ OpenOK' /\ pc' \in Steps \ {"idle"} /\ todo' \subseteq batch
      BY <1>1, <1>4 DEF IInv, TypeOK, BatchOK, OpenOK, Steps, Before
    <2>2. outcome' \in [Rows -> {"none", "applied", "blocked", "recovery"}]
      BY <1>4 DEF IInv, TypeOK
    <2>3. \A r \in batch : HandOK(r)'
      BY <1>1, <1>4 DEF IInv, HandOK, Before, During, Calling, CallOK, Intact, Backed, files, history
    <2> QED BY <1>1, <1>4, <2>1, <2>2, <2>3, LedgerStep DEF ledger, IInv, TypeOK, RecordOK, RecordsKept, files
  <1>5. ASSUME NEW s \in {"failed", "skipped"}, NEW end \in Ends,
               status' = Finished({a}, s, end),
               IF Raised({a}, s, end) THEN Abort
               ELSE /\ todo' = todo \ {a} /\ batch' = batch \ {a}
                    /\ UNCHANGED <<pc, chunk, claims, outcome, clean>>
        PROVE  IInv'
    <2>1. /\ status' \in [Rows -> Statuses]
          /\ \A r \in Rows : receipt[r] <=> status'[r] = "applied"
          /\ RecordsKept
          /\ \A r \in Rows : status'[r] = status[r] \/ (r = a /\ status'[r] = s /\ Earned(r))
          /\ ~Raised({a}, s, end) => status'[a] = s
      <3>1. s \in Endings
        BY DEF Endings
      <3> QED BY <1>3, <1>5, <3>1, FinishedOne
    <2>2. receipt' \in [Rows -> BOOLEAN]
      BY <1>1 DEF IInv, TypeOK
    <2>3. CASE Raised({a}, s, end)
      <3>1. Return /\ clean' = FALSE
        BY <1>5, <2>3 DEF Abort
      <3> QED BY <1>1, <2>1, <2>2, <3>1, ReturnStep
    <2>4. CASE ~Raised({a}, s, end)
      <3>1. todo' = todo \ {a} /\ batch' = batch \ {a} /\ UNCHANGED <<pc, chunk, claims, outcome, clean>>
        BY <1>5, <2>4
      <3>2. claims' = {} /\ chunk' = {}
        BY <1>1, <3>1 DEF IInv, BatchOK, Before
      <3>3. TypeOK' /\ BatchOK' /\ clean' \in BOOLEAN
        BY <1>1, <2>1, <3>1, <3>2 DEF IInv, TypeOK, RecordOK, BatchOK, OfTrash, OfRename, OfRestore, Before, Calling, files
      <3>4. OpenOK'
        BY <1>1, <2>1, <2>4, <3>1 DEF IInv, OpenOK
      <3>5. \A r \in batch' : HandOK(r)'
        BY <1>1, <2>1, <3>1 DEF IInv, TypeOK, HandOK, Before, During, Calling, CallOK, Intact, Backed, files, history
      <3> QED BY <1>1, <2>1, <3>1, <3>3, <3>4, <3>5, LedgerStep
    <2> QED BY <2>3, <2>4
  <1> QED BY <1>2, <1>4, <1>5

LEMMA CheckedStep == IInv /\ Checked => IInv'
  <1> SUFFICES ASSUME IInv, Checked PROVE IInv'
    OBVIOUS
  <1>1. /\ UNCHANGED <<ledger, files, record, history, bounds, clean>>
        /\ pc = "check"
        /\ IF batch = {} THEN Return ELSE Goto("mark", {}) /\ UNCHANGED <<batch, chunk, claims, outcome>>
    BY DEF Checked
  <1>2. CASE batch = {}
    <2>1. /\ Return /\ RecordsKept /\ clean' \in BOOLEAN
          /\ \A r \in Rows : status'[r] = status[r]
      BY <1>1, <1>2 DEF RecordsKept, IInv, RecordOK, ledger
    <2>2. /\ status' \in [Rows -> Statuses] /\ receipt' \in [Rows -> BOOLEAN]
          /\ \A r \in Rows : receipt'[r] <=> status'[r] = "applied"
      BY <1>1 DEF IInv, TypeOK, ledger
    <2>3. clean' => \A r \in Rows : status'[r] \notin {"started", "applying"}
      BY <1>1, <1>2 DEF IInv, OpenOK, ledger
    <2> QED BY <1>1, <2>1, <2>2, <2>3, ReturnStep DEF bounds
  <1>3. CASE batch # {}
    <2>1. pc' = "mark" /\ todo' = {} /\ UNCHANGED <<batch, chunk, claims, outcome>>
      BY <1>1, <1>3 DEF Goto
    <2>2. BatchOK' /\ OpenOK' /\ outcome' \in [Rows -> {"none", "applied", "blocked", "recovery"}]
      BY <1>1, <2>1 DEF IInv, TypeOK, BatchOK, OpenOK, OfTrash, OfRename, OfRestore, Before, Calling, ledger
    <2>3. \A r \in batch : HandOK(r)'
      BY <1>1, <2>1 DEF IInv, HandOK, Before, During, Calling, CallOK, Intact, Backed, ledger, files, history
    <2> QED BY <1>1, <2>1, <2>2, <2>3, QuietStep DEF Steps
  <1> QED BY <1>2, <1>3

\* The batch crosses the frontier, or the call ends without an effect.
LEMMA MarkStep == IInv /\ Mark => IInv'
  <1> SUFFICES ASSUME IInv, Mark PROVE IInv'
    OBVIOUS
  <1>1. UNCHANGED <<receipt, files, record, history, plan>> /\ pc = "mark"
    BY DEF Mark, bounds
  <1>2. PICK end \in Ends :
          /\ status' = Frontier(batch, end)
          /\ IF FrontierPassed(batch, end)
             THEN Goto("next", {}) /\ UNCHANGED <<batch, chunk, claims, outcome, clean>>
             ELSE Abort
    BY DEF Mark
  <1>3. batch \in SUBSET Rows
    BY DEF IInv, TypeOK
  <1>4. /\ status' \in [Rows -> Statuses]
        /\ \A r \in Rows : receipt[r] <=> status'[r] = "applied"
        /\ RecordsKept
        /\ \A r \in Rows : status'[r] = status[r] \/ (r \in batch /\ status'[r] = "applying" /\ Earned(r))
        /\ FrontierPassed(batch, end) => \A r \in batch : status'[r] = "applying"
    BY <1>2, <1>3, FrontierStep
  <1>5. CASE ~FrontierPassed(batch, end)
    <2>1. Return /\ clean' = FALSE /\ receipt' \in [Rows -> BOOLEAN]
      BY <1>1, <1>2, <1>5 DEF Abort, IInv, TypeOK
    <2> QED BY <1>1, <1>4, <2>1, ReturnStep
  <1>6. CASE FrontierPassed(batch, end)
    <2>1. pc' = "next" /\ todo' = {} /\ UNCHANGED <<batch, chunk, claims, outcome, clean>>
      BY <1>2, <1>6 DEF Goto
    <2>2. TypeOK' /\ BatchOK' /\ clean' \in BOOLEAN
      BY <1>1, <1>4, <2>1 DEF IInv, TypeOK, RecordOK, BatchOK, OfTrash, OfRename, OfRestore, Before, Calling, Steps, files
    <2>3. OpenOK'
      BY <1>4, <2>1 DEF IInv, OpenOK
    <2>4. \A r \in batch' : HandOK(r)'
      BY <1>1, <1>4, <1>6, <2>1 DEF IInv, HandOK, Before, During, Calling, CallOK, Intact, Backed, files, history
    <2> QED BY <1>1, <1>4, <2>1, <2>2, <2>3, <2>4, LedgerStep
  <1> QED BY <1>5, <1>6

-----------------------------------------------------------------------------
(* The KIO Trash service. *)

LEMMA DecideFacts ==
  ASSUME TypeOK, NEW R, NEW o \in {"applied", "blocked", "recovery"}, Decide(R, o)
  PROVE  /\ outcome' \in [Rows -> {"none", "applied", "blocked", "recovery"}]
         /\ \A r \in Rows : outcome'[r] = IF r \in R THEN o ELSE outcome[r]
  BY DEF Decide, TypeOK

\* The next call of KIO, or the end of the calls.
LEMMA NextChunkStep == IInv /\ NextChunk => IInv'
  <1> SUFFICES ASSUME IInv, NextChunk PROVE IInv'
    OBVIOUS
  <1> USE RowKinds
  <1>1. /\ UNCHANGED <<ledger, files, batch, claims, record, history, bounds, clean>>
        /\ pc = "next" /\ pc' \in {"admit", "persist"}
        /\ \/ /\ pc' = "admit" /\ chunk' \in SUBSET Undecided /\ todo' = chunk' /\ UNCHANGED outcome
           \/ /\ pc' = "persist" /\ todo' = batch /\ UNCHANGED chunk
              /\ \/ Decide(Undecided, "blocked")
                 \/ \E R : Decide(R, "recovery")
    BY DEF NextChunk, Goto
  <1>2. claims = {} /\ chunk \subseteq batch /\ batch \subseteq Rows /\ batch \subseteq Trash
    BY <1>1 DEF IInv, TypeOK, BatchOK, OfTrash, Calling
  <1>3. \A r \in batch : /\ HandOK(r) /\ status[r] = "applying"
                         /\ outcome[r] = "none" => took[r] = <<>>
    BY <1>1, <1>2 DEF IInv, HandOK, CallOK, Calling, During
  <1>4. /\ todo' \subseteq batch /\ chunk' \subseteq batch /\ claims' \subseteq chunk'
        /\ outcome' \in [Rows -> {"none", "applied", "blocked", "recovery"}]
        /\ \A r \in batch : \/ outcome'[r] = outcome[r]
                            \/ outcome'[r] = "recovery"
                            \/ outcome'[r] = "blocked" /\ outcome[r] = "none"
    <2>1. TypeOK
      BY DEF IInv
    <2>2. CASE pc' = "admit" /\ chunk' \in SUBSET Undecided /\ todo' = chunk' /\ UNCHANGED outcome
      BY <1>1, <1>2, <2>1, <2>2 DEF Undecided, TypeOK
    <2>3. CASE todo' = batch /\ UNCHANGED chunk /\ Decide(Undecided, "blocked")
      BY <1>1, <1>2, <2>1, <2>3, DecideFacts DEF Undecided
    <2>4. CASE todo' = batch /\ UNCHANGED chunk /\ \E R : Decide(R, "recovery")
      BY <1>1, <1>2, <2>1, <2>4, DecideFacts
    <2> QED BY <1>1, <2>2, <2>3, <2>4
  <1>5. BatchOK' /\ OpenOK'
    BY <1>1, <1>2 DEF IInv, BatchOK, OpenOK, OfTrash, OfRename, OfRestore, Before, Calling, ledger
  <1>6. \A r \in batch : HandOK(r)'
    <2> SUFFICES ASSUME NEW r \in batch PROVE HandOK(r)'
      OBVIOUS
    <2>1. /\ status'[r] = "applying" /\ took'[r] = took[r] /\ (outcome[r] = "none" => took[r] = <<>>)
          /\ (Intact(r) => Intact(r)') /\ (Backed(r) => Backed(r)')
      BY <1>1, <1>3 DEF ledger, files, history, Intact, Backed
    <2>2. /\ outcome'[r] = "blocked" => Intact(r)'
          /\ outcome'[r] = "applied" => Backed(r)'
      BY <1>3, <1>4, <2>1 DEF HandOK, Intact
    <2>3. pc' = "admit" => CallOK(r)'
      <3> SUFFICES ASSUME pc' = "admit" PROVE CallOK(r)'
        OBVIOUS
      <3>1. outcome' = outcome /\ (r \in todo' => r \in chunk' /\ outcome[r] = "none")
        BY <1>1 DEF Undecided
      <3> QED BY <2>1, <3>1 DEF CallOK
    <2> QED BY <1>1, <2>1, <2>2, <2>3 DEF HandOK, Before, During, Calling
  <1> QED BY <1>1, <1>4, <1>5, <1>6, CallStep DEF Steps

LEMMA AdmitStep == IInv /\ Admit => IInv'
  <1> SUFFICES ASSUME IInv, Admit PROVE IInv'
    OBVIOUS
  <1>1. /\ UNCHANGED <<ledger, files, batch, chunk, claims, record, history, bounds, clean>>
        /\ pc = "admit" /\ pc' = "admit" /\ claims = {}
    BY DEF Admit, IInv, BatchOK
  <1>2. PICK a \in todo : todo' = todo \ {a} /\ (UNCHANGED outcome \/ Decide({a}, "blocked"))
    BY DEF Admit
  <1>3. /\ todo' \subseteq batch /\ batch \subseteq Rows /\ a \in batch
        /\ outcome' \in [Rows -> {"none", "applied", "blocked", "recovery"}]
        /\ \A r \in batch \ {a} : outcome'[r] = outcome[r]
        /\ outcome'[a] = outcome[a] \/ outcome'[a] = "blocked"
    BY <1>2, DecideFacts DEF IInv, TypeOK
  <1>4. BatchOK' /\ OpenOK'
    BY <1>1 DEF IInv, BatchOK, OpenOK, OfTrash, OfRename, OfRestore, Before, Calling, ledger
  <1>5. HandOK(a) /\ took[a] = <<>> /\ outcome[a] = "none" /\ a \in chunk
    BY <1>1, <1>2, <1>3 DEF IInv, HandOK, CallOK, Calling
  <1>6. \A r \in batch : HandOK(r)'
    BY <1>1, <1>2, <1>3, <1>5 DEF IInv, HandOK, Before, During, Calling, CallOK, Intact, Backed, ledger, files, history
  <1> QED BY <1>1, <1>3, <1>4, <1>6, QuietStep DEF Steps

LEMMA AdmittedStep == IInv /\ Admitted => IInv'
  <1> SUFFICES ASSUME IInv, Admitted PROVE IInv'
    OBVIOUS
  <1> USE RowKinds
  <1>1. /\ UNCHANGED <<ledger, files, batch, chunk, record, history, bounds, clean>>
        /\ pc = "admit" /\ claims = {} /\ claims' = {}
        /\ \/ pc' = "claim" /\ todo' = Works /\ UNCHANGED outcome
           \/ pc' = "next" /\ todo' = {} /\ Decide(Works, "blocked")
           \/ pc' = "next" /\ todo' = {} /\ Decide(chunk, "recovery")
    BY DEF Admitted, Goto, EndCall, IInv, BatchOK
  <1>2. /\ todo' \subseteq batch /\ batch \subseteq Rows /\ batch \subseteq Trash /\ chunk \subseteq batch
        /\ pc' \in {"claim", "next"}
        /\ outcome' \in [Rows -> {"none", "applied", "blocked", "recovery"}]
        /\ \A r \in batch : \/ outcome'[r] = outcome[r]
                            \/ outcome'[r] = "recovery"
                            \/ outcome'[r] = "blocked" /\ outcome[r] = "none"
        /\ pc' = "claim" => outcome' = outcome
    BY <1>1, DecideFacts DEF IInv, TypeOK, Works, BatchOK, OfTrash, Calling
  <1>3. BatchOK' /\ OpenOK'
    BY <1>1, <1>2 DEF IInv, BatchOK, OpenOK, OfTrash, OfRename, OfRestore, Before, Calling, ledger
  <1>4. \A r \in batch : /\ status[r] = "applying" /\ HandOK(r)
                         /\ outcome[r] = "none" => took[r] = <<>> /\ ~kio[r]
    BY <1>1, <1>2 DEF IInv, HandOK, CallOK, Calling, During, FilesOK, TrashFilesOK
  <1>5. \A r \in batch : HandOK(r)'
    <2> SUFFICES ASSUME NEW r \in batch PROVE HandOK(r)'
      OBVIOUS
    <2>1. /\ status'[r] = "applying" /\ took'[r] = took[r] /\ kio'[r] = kio[r]
          /\ (Intact(r) => Intact(r)') /\ (Backed(r) => Backed(r)')
      BY <1>1, <1>4 DEF ledger, files, history, Intact, Backed
    <2>2. /\ outcome'[r] = "blocked" => Intact(r)'
          /\ outcome'[r] = "applied" => Backed(r)'
          /\ outcome'[r] = "none" => outcome[r] = "none"
      BY <1>2, <1>4, <2>1 DEF HandOK, Intact
    <2>3. CallOK(r)'
      <3>1. r \in todo' => r \in chunk' /\ outcome'[r] = "none"
        BY <1>1, <1>2 DEF Works
      <3>2. pc' = "claim" /\ r \in chunk' /\ outcome'[r] = "none" => r \in todo'
        BY <1>1, <1>2 DEF Works
      <3> QED BY <1>1, <1>2, <1>4, <2>1, <2>2, <3>1, <3>2 DEF CallOK
    <2> QED BY <1>2, <2>1, <2>2, <2>3 DEF HandOK, Before, During, Calling
  <1> QED BY <1>1, <1>2, <1>3, <1>5, CallStep DEF Steps

\* The owner claims the next source of its batch.
LEMMA ClaimStep == IInv /\ Claim => IInv'
  <1> SUFFICES ASSUME IInv, Claim PROVE IInv'
    OBVIOUS
  <1> USE RowKinds
  <1>1. UNCHANGED <<status, receipt, info, kio, batch, chunk, outcome, record, bounds, clean>>
    BY DEF Claim, ledger
  <1>2. PICK a \in todo :
          \/ /\ at[a]["source"] # "none"
             /\ at' = Moved(a, "source", "claim") /\ Take(a, "source")
             /\ claims' = claims \cup {a}
             /\ \/ at[a]["source"] = "mine" /\ Goto("claim", todo \ {a})
                \/ Goto("unclaim", Works)
          \/ Goto("unclaim", Works) /\ UNCHANGED <<at, claims, history>>
    BY DEF Claim
  <1>3. /\ pc = "claim" /\ batch \subseteq Trash /\ a \in batch
        /\ a \in todo /\ pc' \in {"claim", "unclaim"} /\ todo' \subseteq batch
        /\ chunk \subseteq batch
    BY <1>2 DEF Claim, IInv, BatchOK, OfTrash, Calling, TypeOK, Goto, Works
  <1>4. /\ HandOK(a) /\ a \in Rows /\ a \in Actions /\ took[a] = <<>> /\ Subject(a) = a
        /\ a \in chunk /\ outcome[a] = "none" /\ ~kio[a]
        /\ \A r \in batch : CallOK(r) /\ status[r] = "applying"
    BY <1>3 DEF IInv, HandOK, CallOK, Calling, During, TypeOK, Actions
  <1>5. CASE UNCHANGED <<at, claims, history>> /\ Goto("unclaim", Works)
    <2>1. BatchOK' /\ OpenOK' /\ outcome' \in [Rows -> {"none", "applied", "blocked", "recovery"}]
      BY <1>1, <1>3, <1>5 DEF IInv, TypeOK, BatchOK, OpenOK, OfTrash, OfRename, OfRestore, Before, Calling, Goto
    <2>2. \A r \in batch : HandOK(r)'
      BY <1>1, <1>3, <1>4, <1>5 DEF IInv, HandOK, Goto, Works, Before, During, Calling, CallOK, Intact, Backed, history
    <2>3. UNCHANGED <<ledger, files>> /\ pc' \in Steps \ {"idle"}
      BY <1>1, <1>3, <1>5 DEF ledger, files, Steps
    <2> QED BY <1>1, <1>3, <1>5, <2>1, <2>2, <2>3, QuietStep
  <1>6. CASE /\ at[a]["source"] # "none"
             /\ at' = Moved(a, "source", "claim") /\ Take(a, "source")
             /\ claims' = claims \cup {a}
             /\ \/ at[a]["source"] = "mine" /\ Goto("claim", todo \ {a})
                \/ Goto("unclaim", Works)
    <2>1. /\ at' \in [Actions -> [Places -> Objects]]
          /\ at'[a]["claim"] = at[a]["source"] /\ at'[a]["source"] = "none"
          /\ at'[a]["trash"] = at[a]["trash"] /\ at'[a]["target"] = at[a]["target"]
          /\ \A b \in Actions \ {a} : at'[b] = at[b]
      <3>1. TypeOK /\ "source" \in Places /\ "claim" \in Places
        BY DEF IInv, Places
      <3>2. /\ at' \in [Actions -> [Places -> Objects]]
            /\ at'[a]["claim"] = at[a]["source"] /\ at'[a]["source"] = "none"
            /\ \A p \in Places \ {"source", "claim"} : at'[a][p] = at[a][p]
            /\ \A b \in Actions \ {a} : at'[b] = at[b]
        BY <1>4, <1>6, <3>1, MovedFacts
      <3> QED BY <3>2 DEF Places
    <2>2. /\ took' \in [Rows -> Taken] /\ putback' \in [Rows -> BOOLEAN]
          /\ took'[a] = <<at[a]["source"]>> /\ putback'[a] = FALSE
          /\ \A s \in Rows \ {a} : took'[s] = took[s] /\ putback'[s] = putback[s]
      BY <1>4, <1>6, TakeFacts DEF IInv, Places
    <2>3. TypeOK' /\ RecordOK' /\ BatchOK' /\ OpenOK'
      <3>1. claims' \subseteq chunk /\ chunk' = chunk /\ batch' = batch
        BY <1>1, <1>4, <1>6 DEF IInv, TypeOK
      <3>2. TypeOK'
        BY <1>1, <1>3, <2>1, <3>1 DEF IInv, TypeOK, Steps, bounds
      <3>3. RecordOK'
        BY <1>1, <2>2 DEF IInv, RecordOK, record
      <3>4. BatchOK' /\ OpenOK'
        BY <1>1, <1>3, <3>1 DEF IInv, BatchOK, OpenOK, OfTrash, OfRename, OfRestore, Before, Calling
      <3> QED BY <3>2, <3>3, <3>4
    <2>4. FilesOK'
      <3>1. TrashFilesOK(a)'
        <4>1. TrashFilesOK(a) /\ ~kio[a] /\ at[a]["source"] \in {"mine", "other"}
          BY <1>3, <1>4, <1>6 DEF IInv, FilesOK, HandOK, TypeOK, Objects, Places
        <4>2. at[a]["claim"] = "none" /\ at[a]["trash"] = "none"
          BY <4>1, <1>4 DEF TrashFilesOK
        <4>3. took'[a] = <<"other">> => at'[a]["claim"] = "other"
          BY <2>1, <2>2
        <4> QED BY <1>1, <2>1, <2>2, <4>1, <4>2, <4>3 DEF TrashFilesOK
      <3>2. \A b \in Trash \ {a} : TrashFilesOK(b)'
         BY <1>1, <1>3, <1>4, <2>1, <2>2 DEF IInv, FilesOK, TrashFilesOK, Actions, Rows
      <3>3. \A b \in Rename : RenameFilesOK(b)'
         BY <1>1, <1>3, <1>4, <2>1, <2>2 DEF IInv, FilesOK, RenameFilesOK, Actions, Rows
      <3> QED BY <3>1, <3>2, <3>3 DEF FilesOK
    <2>5. StatusOK'
      BY <1>1, <1>3, <1>4, <2>1, <2>2 DEF IInv, StatusOK, Intact, Backed, Rows, Actions
    <2>6. \A r \in batch' : HandOK(r)'
      <3>1. CallOK(a)' /\ HandOK(a)'
        BY <1>1, <1>3, <1>4, <1>6, <2>1, <2>2 DEF HandOK, Before, During, Calling, CallOK, Goto, Works
      <3>2. ASSUME NEW r \in batch, r # a PROVE HandOK(r)'
        <4>1. /\ HandOK(r) /\ CallOK(r) /\ at'[r] = at[r] /\ took'[r] = took[r] /\ putback'[r] = putback[r]
              /\ status'[r] = "applying" /\ (r \in claims' <=> r \in claims)
          BY <1>1, <1>3, <1>4, <1>6, <2>1, <2>2, <3>2 DEF IInv, Rows, Actions
        <4>2. (Intact(r) => Intact(r)') /\ (Backed(r) => Backed(r)')
          BY <1>1, <4>1 DEF Intact, Backed
        <4>3. CallOK(r)'
          BY <1>1, <1>3, <1>6, <3>2, <4>1 DEF CallOK, Goto, Works
        <4> QED BY <1>1, <1>3, <4>1, <4>2, <4>3 DEF HandOK, Before, During, Calling
      <3> QED BY <1>1, <3>1, <3>2
    <2>7. VerdictsOK' /\ AnswersOK'
      <3>1. RecordsKept
        BY <1>1 DEF RecordsKept
      <3> QED BY <1>1, <1>3, <1>4, <2>2, <3>1, VerdictsStand DEF IInv, Live, Rows
    <2> QED BY <1>1, <2>3, <2>4, <2>5, <2>6, <2>7 DEF IInv
  <1> QED BY <1>2, <1>5, <1>6

LEMMA InvokeStep == IInv /\ Invoke => IInv'
  <1> SUFFICES ASSUME IInv, Invoke PROVE IInv'
    OBVIOUS
  <1> USE RowKinds
  <1>1. /\ UNCHANGED <<ledger, at, info, batch, chunk, claims, outcome, record, history, bounds, clean>>
        /\ pc = "claim" /\ todo = {}
        /\ \/ pc' = "run" /\ todo' = {} /\ kio' = [a \in Trash |-> kio[a] \/ a \in Works]
           \/ pc' \in {"unclaim", "shorten"} /\ todo' = Works /\ UNCHANGED kio
    BY DEF Invoke, Goto
  <1>2. /\ kio' \in [Trash -> BOOLEAN]
        /\ \A a \in Trash : kio'[a] => kio[a] \/ (a \in chunk /\ a \in batch /\ outcome[a] = "none")
        /\ todo' \subseteq batch
    BY <1>1 DEF IInv, TypeOK, Works
  <1>3. TypeOK' /\ BatchOK' /\ OpenOK'
    BY <1>1, <1>2 DEF IInv, TypeOK, BatchOK, OpenOK, OfTrash, OfRename, OfRestore, Before, Calling, Steps, ledger, bounds
  <1>4. \A a \in batch : /\ status[a] = "applying"
                         /\ a \in chunk /\ outcome[a] = "none" => at[a]["claim"] = "mine"
    BY <1>1 DEF IInv, HandOK, CallOK, Calling, During
  <1>5. FilesOK'
    BY <1>1, <1>2, <1>4 DEF IInv, FilesOK, TrashFilesOK, RenameFilesOK, ledger, history
  <1>6. StatusOK'
    BY <1>1, <1>2, <1>4 DEF IInv, StatusOK, Intact, Backed, ledger, history
  <1>7. \A r \in batch : HandOK(r)'
    <2> SUFFICES ASSUME NEW r \in batch PROVE HandOK(r)'
      OBVIOUS
    <2>1. /\ HandOK(r) /\ CallOK(r) /\ status'[r] = "applying" /\ took'[r] = took[r]
      BY <1>1, <1>4 DEF IInv, HandOK, Calling, ledger, history
    <2>2. (Intact(r) => Intact(r)') /\ (outcome[r] = "applied" => Backed(r)')
      BY <1>1, <1>2, <2>1 DEF HandOK, Intact, Backed, history
    <2>3. CallOK(r)'
      BY <1>1, <2>1 DEF CallOK, Works
    <2> QED BY <1>1, <2>1, <2>2, <2>3 DEF HandOK, Before, During, Calling
  <1> QED BY <1>1, <1>3, <1>5, <1>6, <1>7, EffectStep DEF IInv, RecordOK, history

LEMMA KioFailStep == IInv /\ KioFail => IInv'
  <1> SUFFICES ASSUME IInv, KioFail PROVE IInv'
    OBVIOUS
  <1> USE RowKinds
  <1>1. /\ UNCHANGED <<ledger, at, info, owner, record, history, bounds, clean>>
        /\ kio' \in [Trash -> BOOLEAN] /\ \A a \in Trash : kio'[a] => kio[a]
    BY DEF KioFail, IInv, TypeOK
  <1>2. TypeOK' /\ BatchOK' /\ OpenOK'
    BY <1>1 DEF IInv, TypeOK, BatchOK, OpenOK, ledger, bounds, owner
  <1>3. FilesOK'
    BY <1>1 DEF IInv, FilesOK, TrashFilesOK, RenameFilesOK, ledger, history
  <1>4. StatusOK'
    BY <1>1 DEF IInv, StatusOK, Intact, Backed, ledger, history
  <1>5. \A r \in batch : HandOK(r)'
    <2>1. pc = "claim" => batch \subseteq Trash
      BY DEF IInv, BatchOK, OfTrash, Calling
    <2> QED BY <1>1, <2>1 DEF IInv, HandOK, CallOK, Intact, Backed, ledger, history, owner
  <1> QED BY <1>1, <1>2, <1>3, <1>4, <1>5, EffectStep DEF IInv, RecordOK, history, owner

\* The KIO worker acts, whether or not its owner still waits for it.
LEMMA KioMoveStep == IInv /\ KioMove => IInv'
  <1> SUFFICES ASSUME IInv, KioMove PROVE IInv'
    OBVIOUS
  <1> USE RowKinds
  <1>1. UNCHANGED <<ledger, owner, record, history, bounds, clean>>
    BY DEF KioMove
  <1>2. PICK a \in Trash :
          /\ kio[a] /\ at[a]["claim"] # "none" /\ at[a]["trash"] = "none"
          /\ at' = Moved(a, "claim", "trash")
          /\ info' = [info EXCEPT ![a] = "claim"] /\ kio' = [kio EXCEPT ![a] = FALSE]
    BY DEF KioMove
  <1>3. a \in Actions /\ a \in Rows /\ TypeOK /\ "claim" \in Places /\ "trash" \in Places
    BY DEF Actions, IInv, Places
  <1>4. /\ at' \in [Actions -> [Places -> Objects]]
        /\ at'[a]["trash"] = at[a]["claim"] /\ at'[a]["claim"] = "none"
        /\ at'[a]["source"] = at[a]["source"] /\ at'[a]["target"] = at[a]["target"]
        /\ \A b \in Actions \ {a} : at'[b] = at[b]
    <2>1. /\ at' \in [Actions -> [Places -> Objects]]
          /\ at'[a]["trash"] = at[a]["claim"] /\ at'[a]["claim"] = "none"
          /\ \A p \in Places \ {"claim", "trash"} : at'[a][p] = at[a][p]
          /\ \A b \in Actions \ {a} : at'[b] = at[b]
      BY <1>2, <1>3, MovedFacts
    <2> QED BY <2>1 DEF Places
  <1>5. /\ info' \in [Actions -> {"none", "claim", "torn", "source"}] /\ kio' \in [Trash -> BOOLEAN]
        /\ info'[a] = "claim" /\ ~kio'[a]
        /\ \A b \in Actions \ {a} : info'[b] = info[b]
        /\ \A b \in Trash \ {a} : kio'[b] = kio[b]
    BY <1>2, <1>3 DEF TypeOK
  <1>6. TypeOK' /\ BatchOK' /\ OpenOK'
    BY <1>1, <1>4, <1>5 DEF IInv, TypeOK, BatchOK, OpenOK, ledger, bounds, owner
  <1>7. /\ at[a]["claim"] = "mine" /\ took[a] = <<"mine">> /\ ~Intact(a) /\ ~Backed(a)
        /\ at[a]["source"] # "mine" /\ TrashFilesOK(a)
    BY <1>2 DEF IInv, FilesOK, TrashFilesOK, Intact, Backed
  <1>8. FilesOK'
    <2>1. TrashFilesOK(a)'
      BY <1>1, <1>4, <1>5, <1>7 DEF TrashFilesOK, ledger, history
    <2>2. \A b \in Trash \ {a} : TrashFilesOK(b)'
      BY <1>1, <1>4, <1>5 DEF IInv, FilesOK, TrashFilesOK, ledger, history, Actions
    <2>3. \A b \in Rename : RenameFilesOK(b)'
      BY <1>1, <1>4, <1>5 DEF IInv, FilesOK, RenameFilesOK, ledger, history, Actions
    <2> QED BY <2>1, <2>2, <2>3 DEF FilesOK
  <1>9. StatusOK'
    <2>1. status[a] \notin {"applied", "skipped"}
      BY <1>3, <1>7 DEF IInv, StatusOK
    <2> QED BY <1>1, <1>4, <1>5, <2>1 DEF IInv, StatusOK, Intact, Backed, ledger, history, Actions
  <1>10. \A r \in batch : HandOK(r)'
    <2>1. a \in batch => /\ outcome[a] \notin {"applied", "blocked"}
                         /\ pc = "claim" /\ a \in chunk => outcome[a] # "none"
      BY <1>2, <1>7 DEF IInv, HandOK, CallOK, Calling
    <2>2. pc = "claim" => batch \subseteq Trash
      BY DEF IInv, BatchOK, OfTrash, Calling
    <2> SUFFICES ASSUME NEW r \in batch PROVE HandOK(r)'
      OBVIOUS
    <2>3. /\ HandOK(r) /\ r \in Rows /\ UNCHANGED <<status, took, putback, pc, chunk, todo, claims, outcome>>
      BY <1>1 DEF IInv, TypeOK, ledger, history, owner
    <2>4. CASE r = a
      <3>1. pc \in Calling => CallOK(r)'
        BY <2>1, <2>3, <2>4 DEF HandOK, CallOK
      <3>2. /\ outcome'[r] \notin {"applied", "blocked"} /\ pc' = pc /\ status'[r] = status[r]
            /\ took'[r] = took[r] /\ outcome'[r] = outcome[r]
        BY <2>1, <2>3, <2>4
      <3> QED BY <2>3, <3>1, <3>2 DEF HandOK
    <2>5. CASE r # a
      <3>1. r \in Trash => kio'[r] = kio[r] /\ info'[r] = info[r] /\ at'[r] = at[r]
        BY <1>4, <1>5, <2>5 DEF Actions
      <3>2. (Intact(r) => Intact(r)') /\ (Backed(r) => Backed(r)')
        BY <2>3, <3>1 DEF Intact, Backed
      <3>3. pc \in Calling => CallOK(r)'
        BY <2>2, <2>3, <3>1 DEF HandOK, CallOK
      <3> QED BY <2>3, <3>2, <3>3 DEF HandOK
    <2> QED BY <2>4, <2>5
  <1> QED BY <1>1, <1>6, <1>8, <1>9, <1>10, EffectStep DEF IInv, RecordOK, history, owner

LEMMA KioReturnsStep == IInv /\ KioReturns => IInv'
  <1> SUFFICES ASSUME IInv, KioReturns PROVE IInv'
    OBVIOUS
  <1>1. /\ UNCHANGED <<ledger, files, batch, chunk, record, history, bounds, clean>>
        /\ pc = "run" /\ pc' \in {"verify", "next", "unclaim"}
        /\ \/ pc' \in {"verify", "unclaim"} /\ todo' = Works /\ UNCHANGED <<claims, outcome>>
           \/ pc' = "next" /\ todo' = {} /\ claims' = {} /\ Decide(Works, "recovery")
    BY DEF KioReturns, Goto, EndCall
  <1>2. /\ todo' \subseteq batch /\ batch \subseteq Rows /\ chunk' \subseteq batch /\ claims' \subseteq chunk'
        /\ outcome' \in [Rows -> {"none", "applied", "blocked", "recovery"}]
        /\ \A r \in batch : outcome'[r] \in {outcome[r], "recovery"}
        /\ pc' = "next" => \A r \in chunk : outcome'[r] # "none"
    BY <1>1, DecideFacts DEF IInv, TypeOK, Works
  <1>3. BatchOK' /\ OpenOK'
    BY <1>1 DEF IInv, BatchOK, OpenOK, OfTrash, OfRename, OfRestore, Before, Calling, ledger
  <1>4. \A r \in batch : HandOK(r)'
    <2> SUFFICES ASSUME NEW r \in batch PROVE HandOK(r)'
      OBVIOUS
    <2>1. /\ HandOK(r) /\ CallOK(r) /\ status'[r] = "applying" /\ took'[r] = took[r]
          /\ r \notin chunk => r \notin claims
      BY <1>1 DEF IInv, TypeOK, HandOK, During, Calling, ledger, history
    <2>2. (Intact(r) => Intact(r)') /\ (Backed(r) => Backed(r)')
      BY <1>1 DEF Intact, Backed, files, history
    <2>3. CallOK(r)'
      BY <1>1, <1>2, <2>1 DEF CallOK, Works
    <2> QED BY <1>1, <1>2, <2>1, <2>2, <2>3 DEF HandOK, Before, During, Calling
  <1> QED BY <1>1, <1>2, <1>3, <1>4, CallStep DEF Steps

\* One claim goes back to its source, or its row will need recovery.
LEMMA UnclaimStep == IInv /\ Unclaim => IInv'
  <1> SUFFICES ASSUME IInv, Unclaim PROVE IInv'
    OBVIOUS
  <1> USE RowKinds
  <1>1. /\ UNCHANGED <<ledger, pc, batch, chunk, claims, record, bounds, clean>>
        /\ pc \in {"unclaim", "shorten"}
    BY DEF Unclaim
  <1>2. PICK a \in todo :
          /\ todo' = todo \ {a}
          /\ \/ a \notin claims /\ Decide({a}, "blocked") /\ UNCHANGED <<files, history>>
             \/ /\ a \in claims /\ ClaimRestorable(a)
                /\ at' = IF at[a]["source"] = "none" THEN Moved(a, "claim", "source") ELSE at
                /\ putback' = [putback EXCEPT ![a] = at'[a]["source"] = "mine"]
                /\ kio' = [kio EXCEPT ![a] = FALSE]
                /\ \E o \in {"blocked", "recovery"} : Decide({a}, o)
                /\ UNCHANGED <<info, took>>
             \/ a \in claims /\ Decide({a}, "recovery") /\ UNCHANGED <<files, history>>
    BY DEF Unclaim
  <1>3. /\ batch \subseteq Trash /\ a \in batch /\ a \in Trash /\ a \in Actions /\ a \in Rows
        /\ todo' \subseteq batch /\ TypeOK /\ HandOK(a) /\ TrashFilesOK(a)
        /\ a \in chunk /\ outcome[a] = "none" /\ CallOK(a) /\ status[a] = "applying"
    BY <1>1, <1>2 DEF IInv, BatchOK, OfTrash, Calling, During, TypeOK, FilesOK, Actions, HandOK, CallOK
  <1>4. /\ outcome' \in [Rows -> {"none", "applied", "blocked", "recovery"}]
        /\ outcome'[a] \in {"blocked", "recovery"}
        /\ \A r \in Rows \ {a} : outcome'[r] = outcome[r]
    BY <1>2, <1>3, DecideFacts
  <1>5. BatchOK' /\ OpenOK'
    BY <1>1 DEF IInv, BatchOK, OpenOK, OfTrash, OfRename, OfRestore, Before, Calling, ledger
  <1>6. CASE UNCHANGED <<files, history>> /\ (a \notin claims \/ Decide({a}, "recovery"))
    <2>1. outcome'[a] = "blocked" => took[a] = <<>>
      BY <1>1, <1>3, <1>6, DecideFacts DEF CallOK
    <2>2. \A r \in batch : HandOK(r)'
      BY <1>1, <1>2, <1>3, <1>4, <1>6, <2>1 DEF IInv, TypeOK, HandOK, Before, During, Calling, CallOK, Intact, Backed, ledger, files, history
    <2> QED BY <1>1, <1>3, <1>4, <1>5, <1>6, <2>2, QuietStep DEF Steps
  <1>7. CASE /\ ClaimRestorable(a)
             /\ at' = IF at[a]["source"] = "none" THEN Moved(a, "claim", "source") ELSE at
             /\ putback' = [putback EXCEPT ![a] = at'[a]["source"] = "mine"]
             /\ kio' = [kio EXCEPT ![a] = FALSE]
             /\ UNCHANGED <<info, took>>
    <2>1. "source" \in Places /\ "claim" \in Places
      BY DEF Places
    <2>2. /\ at' \in [Actions -> [Places -> Objects]]
          /\ at'[a]["source"] = "mine" /\ at'[a]["claim"] = "none"
          /\ at'[a]["trash"] = at[a]["trash"] /\ at'[a]["target"] = at[a]["target"]
          /\ \A b \in Actions \ {a} : at'[b] = at[b]
      <3>1. CASE at[a]["source"] = "none"
        <4>1. at' = Moved(a, "claim", "source") /\ at[a]["claim"] = "mine"
          BY <1>7, <3>1 DEF ClaimRestorable
        <4>2. a \in Actions /\ TypeOK
          BY <1>3
        <4> QED BY <2>1, <4>1, <4>2, MovedFacts DEF Places
      <3>2. CASE at[a]["source"] # "none"
        BY <1>3, <1>7, <3>2 DEF ClaimRestorable, TypeOK
      <3> QED BY <3>1, <3>2
    <2>3. at'[a]["trash"] = "none"
      <3>1. at[a]["source"] = "mine" \/ at[a]["claim"] = "mine"
        BY <1>7 DEF ClaimRestorable
      <3> QED BY <1>3, <2>2, <3>1 DEF TrashFilesOK
    <2>4. /\ putback' \in [Rows -> BOOLEAN] /\ putback'[a]
          /\ \A r \in Rows \ {a} : putback'[r] = putback[r]
          /\ kio' \in [Trash -> BOOLEAN] /\ ~kio'[a]
          /\ \A b \in Trash \ {a} : kio'[b] = kio[b]
      BY <1>3, <1>7, <2>2 DEF IInv, TypeOK, RecordOK
    <2>5. took[a] # <<"other">>
      BY <1>3, <1>7 DEF TrashFilesOK, ClaimRestorable
    <2>6. TypeOK'
      BY <1>1, <1>3, <1>4, <1>7, <2>2, <2>4 DEF TypeOK, ledger, bounds
    <2>7. FilesOK'
      <3>1. TrashFilesOK(a)'
        BY <1>1, <1>3, <1>7, <2>2, <2>3, <2>4, <2>5 DEF TrashFilesOK, ledger
      <3>2. \A b \in Trash \ {a} : TrashFilesOK(b)'
        BY <1>1, <1>7, <2>2, <2>4 DEF IInv, FilesOK, TrashFilesOK, ledger, Actions, Rows
      <3>3. \A b \in Rename : RenameFilesOK(b)'
        BY <1>1, <1>3, <1>7, <2>2 DEF IInv, FilesOK, RenameFilesOK, ledger, Actions
      <3> QED BY <3>1, <3>2, <3>3 DEF FilesOK
    <2>8. Intact(a)' /\ status[a] = "applying"
      BY <1>1, <1>3, <2>2, <2>3, <2>4 DEF Intact, HandOK, During
    <2>9. StatusOK'
      BY <1>1, <1>3, <1>7, <2>2, <2>4, <2>8 DEF IInv, StatusOK, Intact, Backed, ledger, Actions
    <2>10. \A r \in batch : HandOK(r)'
      BY <1>1, <1>2, <1>3, <1>4, <1>7, <2>2, <2>4, <2>8 DEF IInv, TypeOK, HandOK, Before, During, Calling, CallOK, Intact, Backed, ledger, Actions
    <2> QED BY <1>1, <1>5, <1>7, <2>4, <2>6, <2>7, <2>9, <2>10, EffectStep DEF IInv, RecordOK
  <1> QED BY <1>2, <1>6, <1>7

\* A call ends when every row of it has an outcome.
LEMMA EndCallStep ==
  ASSUME IInv, pc \in {"unclaim", "shorten", "verify"}, todo = {}, EndCall,
         UNCHANGED <<ledger, files, batch, chunk, outcome, record, history, bounds, clean>>
  PROVE  IInv'
  <1>1. /\ pc' = "next" /\ todo' = {} /\ claims' = {}
        /\ outcome' \in [Rows -> {"none", "applied", "blocked", "recovery"}]
        /\ chunk' \subseteq batch /\ claims' \subseteq chunk'
    BY DEF EndCall, Goto, IInv, TypeOK
  <1>2. BatchOK' /\ OpenOK'
    BY <1>1 DEF IInv, BatchOK, OpenOK, OfTrash, OfRename, OfRestore, Before, Calling, ledger
  <1>3. \A r \in batch : HandOK(r)'
    BY <1>1 DEF IInv, TypeOK, HandOK, Before, During, Calling, CallOK, Intact, Backed, ledger, files, history
  <1> QED BY <1>1, <1>2, <1>3, CallStep DEF Steps

LEMMA UnclaimedStep == IInv /\ (Unclaimed \/ AllVerified) => IInv'
  BY EndCallStep DEF Unclaimed, AllVerified

\* A call is made again with fewer items after all it took is back.
LEMMA SplitStep == IInv /\ Split => IInv'
  <1> SUFFICES ASSUME IInv, Split PROVE IInv'
    OBVIOUS
  <1> USE RowKinds
  <1>1. /\ UNCHANGED <<ledger, files, batch, record, putback, bounds, clean>>
        /\ pc = "shorten" /\ todo = {}
    BY DEF Split
  <1>2. CASE EndCall /\ UNCHANGED <<chunk, outcome, took>>
    BY <1>1, <1>2, EndCallStep DEF history
  <1>3. CASE /\ Undone /\ chunk' \subseteq chunk
             /\ Goto("admit", chunk') /\ claims' = {}
             /\ outcome' = [r \in Rows |-> IF r \in chunk THEN "none" ELSE outcome[r]]
             /\ took' = [r \in Rows |-> IF r \in chunk /\ putback[r] THEN << >> ELSE took[r]]
    <2>1. /\ pc' = "admit" /\ todo' = chunk' /\ claims' = {} /\ chunk \subseteq batch
          /\ batch \subseteq Trash /\ batch \subseteq Rows /\ batch \cap Restores = {}
      BY <1>1, <1>3 DEF Goto, IInv, TypeOK, BatchOK, OfTrash, Calling, Actions
    <2>2. \A r \in batch : HandOK(r) /\ CallOK(r) /\ status[r] = "applying"
      BY <1>1 DEF IInv, HandOK, During, Calling
    <2>3. \A r \in chunk : Intact(r) /\ outcome[r] = "blocked"
      BY <1>3, <2>1, <2>2 DEF Undone, HandOK
    <2>4. /\ took' \in [Rows -> Taken]
          /\ \A r \in chunk : took'[r] = <<>> /\ outcome'[r] = "none"
          /\ \A r \in Rows \ chunk : took'[r] = took[r] /\ outcome'[r] = outcome[r]
          /\ outcome' \in [Rows -> {"none", "applied", "blocked", "recovery"}]
      <3>1. \A r \in chunk : took[r] = <<>> \/ putback[r]
        BY <2>3 DEF Intact
      <3>2. chunk \subseteq Rows
        BY <2>1
      <3> QED BY <1>3, <3>1, <3>2 DEF IInv, TypeOK, RecordOK, Taken
    <2>5. TypeOK' /\ BatchOK' /\ OpenOK'
      BY <1>1, <1>3, <2>1, <2>4 DEF IInv, TypeOK, BatchOK, OpenOK, OfTrash, OfRename, OfRestore, Before, Calling, Steps, ledger, files, bounds
    <2>6. FilesOK'
      <3>1. ASSUME NEW a \in Trash PROVE TrashFilesOK(a)'
        <4>1. TrashFilesOK(a) /\ a \in Rows
          BY DEF IInv, FilesOK, Rows, Actions
        <4>2. CASE a \in chunk
          <5>1. at[a]["claim"] = "none" /\ at[a]["trash"] = "none"
            BY <2>3, <4>1, <4>2 DEF Intact, TrashFilesOK
          <5> QED BY <1>1, <2>4, <4>1, <4>2, <5>1 DEF TrashFilesOK, ledger, files
        <4>3. CASE a \notin chunk
          BY <1>1, <2>4, <4>1, <4>3 DEF TrashFilesOK, ledger, files
        <4> QED BY <4>2, <4>3
      <3>2. ASSUME NEW a \in Rename PROVE RenameFilesOK(a)'
        <4>1. RenameFilesOK(a) /\ a \in Rows /\ a \notin chunk
          BY <2>1 DEF IInv, FilesOK, Rows, Actions
        <4> QED BY <1>1, <2>4, <4>1 DEF RenameFilesOK, files
      <3> QED BY <3>1, <3>2 DEF FilesOK
    <2>7. StatusOK'
      BY <1>1, <2>1, <2>2, <2>4 DEF IInv, StatusOK, Intact, Backed, ledger, files
    <2>8. ASSUME NEW r \in batch PROVE HandOK(r)'
      <3>1. CASE r \in chunk
        BY <1>1, <2>1, <2>2, <2>4, <3>1 DEF HandOK, Before, During, Calling, CallOK, ledger
      <3>2. CASE r \notin chunk
        <4>1. r \notin todo' /\ r \notin claims /\ took'[r] = took[r] /\ outcome'[r] = outcome[r] /\ r \in Rows
          BY <1>3, <2>1, <2>4, <3>2 DEF IInv, TypeOK
        <4>2. HandOK(r) /\ CallOK(r) /\ status'[r] = "applying"
          BY <1>1, <2>2 DEF ledger
        <4>3. (Intact(r) => Intact(r)') /\ (Backed(r) => Backed(r)')
          BY <1>1, <4>1 DEF Intact, Backed, files
        <4> QED BY <2>1, <4>1, <4>2, <4>3 DEF HandOK, Before, During, Calling, CallOK
      <3> QED BY <3>1, <3>2
    <2>9. /\ \A r \in Actions : took'[r] = took[r] \/ (r \in batch /\ r \in Trash)
          /\ putback' \in [Rows -> BOOLEAN]
      BY <1>1, <2>1, <2>4 DEF IInv, RecordOK, Rows
    <2> QED BY <1>1, <2>4, <2>5, <2>6, <2>7, <2>8, <2>9, EffectStep
  <1> QED BY <1>2, <1>3 DEF Split

\* Only the .trashinfo of one row in hand, and its outcome, change.
LEMMA InfoStep ==
  ASSUME IInv, UNCHANGED <<ledger, at, kio, batch, chunk, claims, record, history, bounds, clean>>,
         pc \in {"verify", "rewrite"}, pc' \in {"verify", "rewrite"},
         NEW a \in todo, todo' \subseteq batch,
         info' \in [Actions -> {"none", "claim", "torn", "source"}],
         \A b \in Actions \ {a} : info'[b] = info[b],
         info'[a] = info[a] \/ info'[a] # "none",
         outcome' \in [Rows -> {"none", "applied", "blocked", "recovery"}],
         \A r \in Rows \ {a} : outcome'[r] = outcome[r],
         outcome'[a] \in {"none", "applied", "recovery"},
         outcome'[a] = "applied" => at[a]["trash"] = "mine" /\ info'[a] = "source",
         \A r \in todo' : r \in chunk /\ outcome'[r] = "none",
         pc' = "verify" => \A r \in chunk : outcome'[r] = "none" => r \in todo'
  PROVE  IInv'
  <1> USE RowKinds
  <1>1. /\ batch \subseteq Trash /\ a \in batch /\ a \in Trash /\ a \in Actions /\ a \in Rows
        /\ HandOK(a) /\ TrashFilesOK(a) /\ status[a] = "applying" /\ outcome[a] = "none"
    BY DEF IInv, BatchOK, OfTrash, Calling, TypeOK, FilesOK, Actions, HandOK, CallOK, During
  <1>2. TypeOK' /\ BatchOK' /\ OpenOK'
    BY <1>1 DEF IInv, TypeOK, BatchOK, OpenOK, OfTrash, OfRename, OfRestore, Before, Calling, Steps, ledger, bounds
  <1>3. FilesOK'
    BY <1>1 DEF IInv, FilesOK, TrashFilesOK, RenameFilesOK, ledger, history, Actions
  <1>4. StatusOK'
    BY <1>1 DEF IInv, StatusOK, Intact, Backed, ledger, history, Actions
  <1>5. outcome'[a] = "applied" => Backed(a)'
    BY <1>1 DEF Backed, TrashFilesOK, history
  <1>6. ASSUME NEW r \in batch PROVE HandOK(r)'
    <2>1. HandOK(r) /\ CallOK(r) /\ status'[r] = "applying" /\ took'[r] = took[r] /\ r \in Rows /\ r \in Actions
      BY <1>1 DEF IInv, TypeOK, HandOK, During, Calling, ledger, history, Actions
    <2>2. (Intact(r) => Intact(r)') /\ (r # a => (Backed(r) => Backed(r)'))
      BY <2>1 DEF Intact, Backed, history
    <2>3. outcome'[r] = "none" => outcome[r] = "none"
      BY <1>1, <2>1
    <2>4. CallOK(r)'
      BY <2>1, <2>3 DEF CallOK
    <2> QED BY <1>1, <1>5, <2>1, <2>2, <2>4 DEF HandOK, Before, During, Calling
  <1> QED BY <1>2, <1>3, <1>4, <1>6, EffectStep DEF IInv, RecordOK, history

\* One work is found in the Trash and its .trashinfo truncated, or it will need
\* recovery.
LEMMA VerifyStep == IInv /\ Verify => IInv'
  <1> SUFFICES ASSUME IInv, Verify PROVE IInv'
    OBVIOUS
  <1>1. /\ UNCHANGED <<ledger, at, kio, batch, chunk, claims, record, history, bounds, clean>>
        /\ pc = "verify"
    BY DEF Verify
  <1>2. PICK a \in todo :
          \/ /\ info' = [info EXCEPT ![a] = "torn"]
             /\ Goto("rewrite", {a}) /\ UNCHANGED outcome
          \/ /\ Decide({a}, "recovery")
             /\ Goto("verify", todo \ {a}) /\ UNCHANGED info
    BY DEF Verify
  <1>3. TypeOK /\ a \in batch /\ a \in Rows /\ todo \subseteq batch /\ batch \subseteq Rows
    BY DEF IInv, TypeOK
  <1>4. a \in Actions
    BY <1>1, <1>3 DEF IInv, BatchOK, OfTrash, Calling, Actions
  <1>5. /\ \A r \in batch : CallOK(r)
        /\ \A r \in todo : r \in chunk /\ outcome[r] = "none"
        /\ \A r \in chunk : outcome[r] = "none" => r \in todo
    BY <1>1, <1>3 DEF IInv, HandOK, Calling, CallOK, TypeOK
  <1>6. /\ pc' \in {"verify", "rewrite"} /\ todo' \subseteq batch
        /\ info' \in [Actions -> {"none", "claim", "torn", "source"}]
        /\ \A b \in Actions \ {a} : info'[b] = info[b]
        /\ info'[a] = info[a] \/ info'[a] # "none"
    BY <1>2, <1>3, <1>4 DEF Goto, TypeOK
  <1>7. /\ outcome' \in [Rows -> {"none", "applied", "blocked", "recovery"}]
        /\ \A r \in Rows \ {a} : outcome'[r] = outcome[r]
        /\ outcome'[a] \in {"none", "recovery"}
        /\ pc' = "rewrite" => outcome'[a] = "none" /\ todo' = {a}
        /\ pc' = "verify" => outcome'[a] = "recovery" /\ todo' = todo \ {a}
    BY <1>2, <1>3, <1>5, DecideFacts DEF Goto, TypeOK
  <1>8. /\ \A r \in todo' : r \in chunk /\ outcome'[r] = "none"
        /\ pc' = "verify" => \A r \in chunk : outcome'[r] = "none" => r \in todo'
    <2>1. chunk \subseteq Rows /\ todo \subseteq Rows
      BY <1>3 DEF TypeOK
    <2> QED BY <1>5, <1>6, <1>7, <2>1
  <1> QED BY <1>1, <1>6, <1>7, <1>8, InfoStep

\* The name of the source is written, or not, and the pair is verified.
LEMMA RewriteStep == IInv /\ Rewrite => IInv'
  <1> SUFFICES ASSUME IInv, Rewrite PROVE IInv'
    OBVIOUS
  <1>1. /\ UNCHANGED <<ledger, at, kio, batch, chunk, claims, record, history, bounds, clean>>
        /\ pc = "rewrite"
    BY DEF Rewrite
  <1>2. PICK a \in todo :
          /\ info' = info \/ info' = [info EXCEPT ![a] = "source"]
          /\ \/ at[a]["trash"] = "mine" /\ info'[a] = "source" /\ Decide({a}, "applied")
             \/ Decide({a}, "recovery")
          /\ Goto("verify", Works \ {a})
    BY DEF Rewrite
  <1>3. TypeOK /\ a \in batch /\ a \in Rows /\ batch \subseteq Rows /\ chunk \subseteq batch
    BY DEF IInv, TypeOK
  <1>4. a \in Actions
    BY <1>1, <1>3 DEF IInv, BatchOK, OfTrash, Calling, Actions
  <1>5. /\ info' \in [Actions -> {"none", "claim", "torn", "source"}]
        /\ \A b \in Actions \ {a} : info'[b] = info[b]
        /\ info'[a] = info[a] \/ info'[a] # "none"
    BY <1>2, <1>3, <1>4 DEF TypeOK
  <1>6. /\ outcome' \in [Rows -> {"none", "applied", "blocked", "recovery"}]
        /\ \A r \in Rows \ {a} : outcome'[r] = outcome[r]
        /\ outcome'[a] \in {"applied", "recovery"}
        /\ outcome'[a] = "applied" => at[a]["trash"] = "mine" /\ info'[a] = "source"
    BY <1>2, <1>3, DecideFacts
  <1>7. /\ pc' = "verify" /\ todo' = Works \ {a} /\ todo' \subseteq batch
        /\ \A r \in todo' : r \in chunk /\ outcome'[r] = "none"
        /\ \A r \in chunk : outcome'[r] = "none" => r \in todo'
    BY <1>2, <1>3, <1>6 DEF Goto, Works
  <1> QED BY <1>1, <1>5, <1>6, <1>7, InfoStep

-----------------------------------------------------------------------------
(* The outcomes of a batch become ledger rows. *)

\* _best_effort_require_recovery
LEMMA RecoverFacts ==
  ASSUME IInv, NEW a \in Rows, Recover(a)
  PROVE  /\ status' \in [Rows -> Statuses] /\ UNCHANGED receipt
         /\ \A r \in Rows : receipt[r] <=> status'[r] = "applied"
         /\ RecordsKept
         /\ \A r \in Rows : status'[r] = status[r] \/ (r = a /\ Earned(r))
         /\ clean' \in BOOLEAN
         /\ clean' => clean /\ status'[a] = "recovery_required"
  <1>1. PICK end \in Ends : status' = Finished({a}, "recovery_required", end)
    BY DEF Recover, BestEffortRecovery
  <1>2. "recovery_required" \in Endings
    BY DEF Endings
  <1>3. /\ status' \in [Rows -> Statuses]
        /\ \A r \in Rows : receipt[r] <=> status'[r] = "applied"
        /\ RecordsKept
        /\ \A r \in Rows : status'[r] = status[r] \/ (r = a /\ Earned(r))
    BY <1>1, <1>2, FinishedOne
  <1>4. clean' = (clean /\ status'[a] = "recovery_required") /\ UNCHANGED receipt
    BY DEF Recover, BestEffortRecovery
  <1> QED BY <1>3, <1>4

\* Rows without an effect are closed as skipped, or marked for recovery.
LEMMA SkipOrRecoverFacts ==
  ASSUME IInv, NEW R \in SUBSET Rows, SkipOrRecover(R),
         \A r \in R : status[r] \in {"started", "applying"} /\ Intact(r)
  PROVE  /\ status' \in [Rows -> Statuses] /\ UNCHANGED receipt
         /\ \A r \in Rows : receipt[r] <=> status'[r] = "applied"
         /\ RecordsKept
         /\ \A r \in Rows : status'[r] = status[r] \/ (r \in R /\ Earned(r))
         /\ clean' \in BOOLEAN
         /\ clean' => clean /\ \A r \in R : status'[r] = "skipped"
  <1>1. TypeOK /\ UNCHANGED receipt /\ {"skipped", "recovery_required"} \subseteq Statuses
    BY DEF IInv, SkipOrRecover, Statuses, Closed
  <1>2. PICK end \in Ends, swallowed \in Ends :
          LET first == Finished(R, "skipped", end) IN
          /\ status' = IF /\ Raised(R, "skipped", end) /\ swallowed # "failed"
                          /\ \A r \in R : "recovery_required" \in Allowed(first[r])
                       THEN [r \in Rows |-> IF r \in R THEN "recovery_required" ELSE first[r]]
                       ELSE first
          /\ clean' = (clean /\ ~Raised(R, "skipped", end))
    BY DEF SkipOrRecover
  <1> DEFINE F == Finished(R, "skipped", end)
             C == /\ Raised(R, "skipped", end) /\ swallowed # "failed"
                  /\ \A r \in R : "recovery_required" \in Allowed(F[r])
  <1>3. /\ F \in [Rows -> Statuses]
        /\ \A r \in Rows : F[r] = status[r] \/ (r \in R /\ F[r] = "skipped")
        /\ ~Raised(R, "skipped", end) => \A r \in R : F[r] = "skipped"
    BY <1>1, FinishedFacts
  <1>4. status' = IF C THEN [r \in Rows |-> IF r \in R THEN "recovery_required" ELSE F[r]] ELSE F
    BY <1>2
  <1>5. clean' = (clean /\ ~Raised(R, "skipped", end)) /\ (~Raised(R, "skipped", end) => ~C)
    BY <1>2
  <1> HIDE DEF F, C
  <1>6. /\ status' \in [Rows -> Statuses]
        /\ \A r \in Rows : \/ status'[r] = status[r]
                           \/ r \in R /\ status'[r] \in {"skipped", "recovery_required"}
        /\ clean' => clean /\ \A r \in R : status'[r] = "skipped"
    <2>1. CASE C
      BY <1>1, <1>3, <1>4, <1>5, <2>1
    <2>2. CASE ~C
      BY <1>1, <1>3, <1>4, <1>5, <2>2
    <2> QED BY <2>1, <2>2
  <1>7. \A r \in R : r \in Restores => status[Subject(r)] = "applied"
    BY DEF IInv, StatusOK
  <1>8. \A r \in R : status'[r] \in {"skipped", "recovery_required"} => Earned(r)
    BY <1>7 DEF Earned
  <1>9. RecordsKept /\ \A r \in Rows : receipt[r] <=> status'[r] = "applied"
    BY <1>1, <1>6 DEF RecordsKept, TypeOK
  <1>10. clean' \in BOOLEAN
    BY <1>5 DEF IInv, RecordOK
  <1> QED BY <1>1, <1>6, <1>8, <1>9, <1>10

\* The run ends before the backend is called.
LEMMA UninvokedStep == IInv /\ Uninvoked => IInv'
  <1> SUFFICES ASSUME IInv, Uninvoked PROVE IInv'
    OBVIOUS
  <1>1. pc = "mark" /\ SkipOrRecover(batch) /\ Return /\ UNCHANGED <<files, record, history, plan>>
    BY DEF Uninvoked, bounds
  <1>2. batch \in SUBSET Rows /\ \A r \in batch : status[r] \in {"started", "applying"} /\ Intact(r)
    BY <1>1 DEF IInv, TypeOK, HandOK, Before, Intact
  <1>3. /\ status' \in [Rows -> Statuses] /\ UNCHANGED receipt
        /\ \A r \in Rows : receipt[r] <=> status'[r] = "applied"
        /\ RecordsKept
        /\ \A r \in Rows : status'[r] = status[r] \/ (r \in batch /\ Earned(r))
        /\ clean' \in BOOLEAN
        /\ clean' => clean /\ \A r \in batch : status'[r] = "skipped"
    BY <1>1, <1>2, SkipOrRecoverFacts
  <1>4. clean' => \A r \in Rows : status'[r] \notin {"started", "applying"}
    BY <1>3 DEF IInv, OpenOK
  <1>5. receipt' \in [Rows -> BOOLEAN] /\ \A r \in Rows : receipt'[r] <=> status'[r] = "applied"
    BY <1>3 DEF IInv, TypeOK
  <1> QED BY <1>1, <1>3, <1>4, <1>5, ReturnStep

LEMMA PersistStep == IInv /\ Persist => IInv'
  <1> SUFFICES ASSUME IInv, Persist PROVE IInv'
    OBVIOUS
  <1>1. UNCHANGED <<files, pc, batch, chunk, claims, record, history, bounds>> /\ pc = "persist"
    BY DEF Persist
  <1>2. PICK a \in todo :
          /\ todo' = todo \ {a}
          /\ \/ outcome[a] = "applied" /\ UNCHANGED <<ledger, outcome, clean>>
             \/ outcome[a] = "applied" /\ Recover(a) /\ Decide({a}, "recovery")
             \/ outcome[a] = "blocked" /\ SkipOrRecover({a}) /\ UNCHANGED outcome
             \/ outcome[a] = "recovery" /\ Recover(a) /\ UNCHANGED outcome
    BY DEF Persist
  <1>3. a \in batch /\ a \in todo /\ a \in Rows /\ TypeOK /\ HandOK(a) /\ todo' \subseteq batch /\ batch \subseteq Rows
    BY <1>2 DEF IInv, TypeOK
  <1>4. CASE outcome[a] = "applied" /\ UNCHANGED <<ledger, outcome, clean>>
    <2>1. BatchOK' /\ OpenOK' /\ outcome' \in [Rows -> {"none", "applied", "blocked", "recovery"}]
      BY <1>1, <1>2, <1>4 DEF IInv, TypeOK, BatchOK, OpenOK, OfTrash, OfRename, OfRestore, Before, Calling, ledger
    <2>2. \A r \in batch : HandOK(r)'
      BY <1>1, <1>2, <1>4 DEF IInv, HandOK, Before, During, Calling, CallOK, Intact, Backed, ledger, files, history
    <2> QED BY <1>1, <1>3, <1>4, <2>1, <2>2, QuietStep DEF Steps
  <1>5. CASE \/ outcome[a] = "applied" /\ Recover(a) /\ Decide({a}, "recovery")
             \/ outcome[a] = "blocked" /\ SkipOrRecover({a}) /\ UNCHANGED outcome
             \/ outcome[a] = "recovery" /\ Recover(a) /\ UNCHANGED outcome
    <2>1. /\ status' \in [Rows -> Statuses] /\ UNCHANGED receipt
          /\ \A r \in Rows : receipt[r] <=> status'[r] = "applied"
          /\ RecordsKept
          /\ \A r \in Rows : status'[r] = status[r] \/ (r = a /\ Earned(r))
          /\ clean' \in BOOLEAN
          /\ clean' => clean /\ status'[a] \notin {"started", "applying"}
      <3>1. CASE Recover(a)
        BY <1>3, <3>1, RecoverFacts
      <3>2. CASE outcome[a] = "blocked" /\ SkipOrRecover({a})
        <4> DEFINE R == {a}
        <4>1. R \in SUBSET Rows /\ SkipOrRecover(R) /\ \A r \in R : status[r] \in {"started", "applying"} /\ Intact(r)
          BY <1>1, <1>3, <3>2 DEF HandOK
        <4> HIDE DEF R
        <4>2. /\ status' \in [Rows -> Statuses] /\ UNCHANGED receipt
              /\ \A r \in Rows : receipt[r] <=> status'[r] = "applied"
              /\ RecordsKept
              /\ \A r \in Rows : status'[r] = status[r] \/ (r \in R /\ Earned(r))
              /\ clean' \in BOOLEAN
              /\ clean' => clean /\ \A r \in R : status'[r] = "skipped"
          BY <4>1, SkipOrRecoverFacts
        <4> QED BY <4>2 DEF R
      <3> QED BY <1>5, <3>1, <3>2
    <2>2. /\ outcome' \in [Rows -> {"none", "applied", "blocked", "recovery"}]
          /\ outcome'[a] # "applied" /\ \A r \in Rows \ {a} : outcome'[r] = outcome[r]
      BY <1>3, <1>5, DecideFacts DEF TypeOK
    <2>3. TypeOK' /\ BatchOK'
      BY <1>1, <1>3, <2>1, <2>2 DEF IInv, TypeOK, BatchOK, OfTrash, OfRename, OfRestore, Before, Calling, files, bounds
    <2>4. OpenOK'
      BY <1>1, <1>2, <2>1, <2>2 DEF IInv, OpenOK
    <2>5. HandOK(a)'
      <3>1. outcome'[a] = "blocked" => Intact(a)'
        BY <1>1, <1>3, <1>5, DecideFacts DEF HandOK, Intact, files, history
      <3> QED BY <1>1, <1>2, <2>2, <3>1 DEF HandOK, Before, During, Calling, CallOK
    <2>6. \A r \in batch \ {a} : HandOK(r)'
      BY <1>1, <1>2, <1>3, <2>1, <2>2 DEF IInv, HandOK, Before, During, Calling, CallOK, Intact, Backed, files, history
    <2> QED BY <1>1, <2>1, <2>3, <2>4, <2>5, <2>6, LedgerStep
  <1> QED BY <1>2, <1>4, <1>5

LEMMA PersistedStep == IInv /\ Persisted => IInv'
  <1> SUFFICES ASSUME IInv, Persisted PROVE IInv'
    OBVIOUS
  <1>1. /\ UNCHANGED <<ledger, files, record, history, bounds, clean>>
        /\ pc = "persist" /\ todo = {}
        /\ IF Confirmations = {} THEN Return
           ELSE Goto("confirm", {}) /\ UNCHANGED <<batch, chunk, claims, outcome>>
    BY DEF Persisted
  <1>2. clean => \A r \in Rows : status[r] \in {"started", "applying"} => r \in Confirmations
    BY <1>1 DEF IInv, OpenOK, Confirmations
  <1>3. CASE Confirmations = {}
    <2>1. /\ Return /\ RecordsKept /\ clean' \in BOOLEAN
          /\ \A r \in Rows : status'[r] = status[r]
      BY <1>1, <1>3 DEF RecordsKept, IInv, RecordOK, ledger
    <2>2. /\ status' \in [Rows -> Statuses] /\ receipt' \in [Rows -> BOOLEAN]
          /\ \A r \in Rows : receipt'[r] <=> status'[r] = "applied"
      BY <1>1 DEF IInv, TypeOK, ledger
    <2>3. clean' => \A r \in Rows : status'[r] \notin {"started", "applying"}
      BY <1>1, <1>2, <1>3 DEF ledger
    <2> QED BY <1>1, <2>1, <2>2, <2>3, ReturnStep DEF bounds
  <1>4. CASE Confirmations # {}
    <2>1. pc' = "confirm" /\ todo' = {} /\ UNCHANGED <<batch, chunk, claims, outcome>>
      BY <1>1, <1>4 DEF Goto
    <2>2. BatchOK' /\ OpenOK' /\ outcome' \in [Rows -> {"none", "applied", "blocked", "recovery"}]
      BY <1>1, <1>2, <2>1 DEF IInv, TypeOK, BatchOK, OpenOK, OfTrash, OfRename, OfRestore, Before, Calling, ledger, Confirmations
    <2>3. \A r \in batch : HandOK(r)'
      BY <1>1, <2>1 DEF IInv, HandOK, Before, During, Calling, CallOK, Intact, Backed, ledger, files, history
    <2> QED BY <1>1, <2>1, <2>2, <2>3, QuietStep DEF Steps
  <1> QED BY <1>3, <1>4

LEMMA ConfirmStep == IInv /\ Confirm => IInv'
  <1> SUFFICES ASSUME IInv, Confirm PROVE IInv'
    OBVIOUS
  <1> DEFINE R == Confirmations
  <1>1. UNCHANGED <<files, record, history, plan>> /\ pc = "confirm"
    BY DEF Confirm, bounds
  <1>2. PICK end \in Ends :
          /\ Confirmed(R, end)
          /\ IF Raised(R, "applied", end)
             THEN /\ Goto("persist", R) /\ Decide(R, "recovery") /\ clean' = FALSE
                  /\ UNCHANGED <<batch, chunk, claims>>
             ELSE Return /\ UNCHANGED clean
    BY DEF Confirm
  <1>3. /\ R \in SUBSET Rows /\ R \subseteq batch
        /\ \A r \in R : Backed(r) /\ status[r] = "applying"
        /\ \A r \in batch : outcome[r] = "applied" <=> r \in R
    BY DEF IInv, TypeOK, HandOK, Confirmations
  <1>4. /\ status' \in [Rows -> Statuses] /\ receipt' \in [Rows -> BOOLEAN]
        /\ \A r \in Rows : receipt'[r] <=> status'[r] = "applied"
        /\ RecordsKept
        /\ \A r \in Rows : status'[r] = status[r] \/ (r \in R /\ status'[r] = "applied" /\ Earned(r))
        /\ ~Raised(R, "applied", end) => \A r \in R : status'[r] = "applied"
    <2> HIDE DEF R
    <2> QED BY <1>2, <1>3, ConfirmedStep
  <1>5. CASE ~Raised(R, "applied", end)
    <2>1. Return /\ UNCHANGED clean /\ clean' \in BOOLEAN
      BY <1>2, <1>5 DEF IInv, RecordOK
    <2>2. clean' => \A r \in Rows : status'[r] \notin {"started", "applying"}
      BY <1>1, <1>3, <1>4, <1>5, <2>1 DEF IInv, OpenOK
    <2> QED BY <1>1, <1>4, <2>1, <2>2, ReturnStep
  <1>6. CASE Raised(R, "applied", end)
    <2>1. /\ pc' = "persist" /\ todo' = R /\ clean' = FALSE /\ UNCHANGED <<batch, chunk, claims>>
          /\ outcome' \in [Rows -> {"none", "applied", "blocked", "recovery"}]
          /\ \A r \in Rows : outcome'[r] = IF r \in R THEN "recovery" ELSE outcome[r]
      <3> HIDE DEF R
      <3> QED BY <1>2, <1>6, DecideFacts DEF Goto, IInv
    <2>2. TypeOK' /\ BatchOK' /\ OpenOK'
      <3> HIDE DEF R
      <3> QED BY <1>1, <1>3, <1>4, <2>1 DEF IInv, TypeOK, BatchOK, OpenOK, OfTrash, OfRename, OfRestore, Before, Calling, Steps, files
    <2>3. \A r \in batch : HandOK(r)'
      <3> HIDE DEF R
      <3> QED BY <1>1, <1>3, <1>4, <2>1 DEF IInv, TypeOK, HandOK, Before, During, Calling, CallOK, Intact, Backed, files, history
    <2> QED BY <1>1, <1>4, <2>1, <2>2, <2>3, LedgerStep
  <1> QED BY <1>5, <1>6

-----------------------------------------------------------------------------
(* The rename of one file. *)

\* The owner has the row of one rename in hand.
LEMMA RenameHand ==
  ASSUME IInv, pc \in OfRename, NEW a \in batch
  PROVE  /\ batch = {a} /\ a \in Rename /\ a \in Actions /\ a \in Rows
         /\ TypeOK /\ HandOK(a) /\ RenameFilesOK(a)
         /\ a \notin Trash /\ a \notin Restores /\ Subject(a) = a
  <1>1. \E b \in Rename : batch = {b}
    BY DEF IInv, BatchOK
  <1>2. batch = {a} /\ a \in Rename
    BY <1>1
  <1> QED BY <1>2, RowKinds DEF IInv, FilesOK, Actions

\* The source is checked and the row crosses the frontier, or it is closed.
LEMMA RenameCheckStep == IInv /\ RenameCheck => IInv'
  <1> SUFFICES ASSUME IInv, RenameCheck PROVE IInv'
    OBVIOUS
  <1>1. UNCHANGED <<receipt, files, record, history, plan>> /\ pc = "rename"
    BY DEF RenameCheck, bounds
  <1>2. PICK a \in batch :
          \/ /\ \E end \in Ends :
                  /\ status' = Frontier({a}, end)
                  /\ IF FrontierPassed({a}, end)
                     THEN Goto("move", {a}) /\ UNCHANGED <<outcome, clean>>
                     ELSE Goto("settle", {a}) /\ Decide({a}, "blocked") /\ clean' = FALSE
             /\ UNCHANGED <<batch, chunk, claims>>
          \/ \E s \in {"skipped", "failed"}, end \in Ends :
               /\ status' = Finished({a}, s, end)
               /\ IF Raised({a}, s, end) THEN Abort ELSE Return /\ UNCHANGED clean
    BY DEF RenameCheck
  <1>3. /\ batch = {a} /\ a \in Rename /\ a \in Actions /\ a \in Rows
        /\ TypeOK /\ HandOK(a) /\ a \notin Trash /\ a \notin Restores
    BY <1>1, <1>2, RenameHand DEF OfRename
  <1>4. /\ status[a] = "started" /\ took[a] = <<>> /\ outcome[a] = "none"
        /\ receipt' \in [Rows -> BOOLEAN]
    BY <1>1, <1>3 DEF HandOK, Before, TypeOK
  <1>5. ASSUME NEW end \in Ends, status' = Frontier({a}, end), UNCHANGED <<batch, chunk, claims>>,
               IF FrontierPassed({a}, end)
               THEN Goto("move", {a}) /\ UNCHANGED <<outcome, clean>>
               ELSE Goto("settle", {a}) /\ Decide({a}, "blocked") /\ clean' = FALSE
        PROVE  IInv'
    <2>1. /\ status' \in [Rows -> Statuses]
          /\ \A r \in Rows : receipt[r] <=> status'[r] = "applied"
          /\ RecordsKept
          /\ \A r \in Rows : \/ status'[r] = status[r]
                             \/ r \in batch /\ status'[r] = "applying" /\ Earned(r)
          /\ FrontierPassed(batch, end) => \A r \in batch : status'[r] = "applying"
      BY <1>3, <1>5, FrontierStep DEF TypeOK
    <2>2. /\ status'[a] \in {"started", "applying"}
          /\ FrontierPassed({a}, end) => status'[a] = "applying"
      BY <1>3, <1>4, <2>1
    <2>3. /\ todo' = {a} /\ batch' = {a} /\ pc' \in {"move", "settle"}
          /\ pc' = "move" => status'[a] = "applying" /\ UNCHANGED <<outcome, clean>>
          /\ pc' = "settle" => Decide({a}, "blocked") /\ clean' = FALSE
      BY <1>3, <1>5, <2>2 DEF Goto
    <2>4. /\ outcome' \in [Rows -> {"none", "applied", "blocked", "recovery"}]
          /\ pc' = "move" => outcome'[a] = "none"
          /\ pc' = "settle" => outcome'[a] = "blocked"
      BY <1>3, <1>4, <2>3, DecideFacts DEF TypeOK
    <2>5. clean' \in BOOLEAN
      BY <2>3 DEF IInv, RecordOK
    <2>6. TypeOK' /\ BatchOK'
      BY <1>1, <1>3, <1>5, <2>1, <2>3, <2>4 DEF IInv, TypeOK, BatchOK, OfTrash, OfRename, OfRestore, Before, Calling, Steps, files
    <2>7. OpenOK'
      BY <1>3, <2>1, <2>3 DEF IInv, OpenOK
    <2>8. HandOK(a)'
      BY <1>1, <1>4, <2>2, <2>3, <2>4 DEF HandOK, Before, During, Calling, CallOK, Intact, history
    <2> QED BY <1>1, <1>3, <2>1, <2>3, <2>5, <2>6, <2>7, <2>8, LedgerStep
  <1>6. ASSUME NEW s \in {"skipped", "failed"}, NEW end \in Ends,
               status' = Finished({a}, s, end),
               IF Raised({a}, s, end) THEN Abort ELSE Return /\ UNCHANGED clean
        PROVE  IInv'
    <2>1. s \in Endings
      BY DEF Endings
    <2>2. /\ status' \in [Rows -> Statuses]
          /\ \A r \in Rows : receipt[r] <=> status'[r] = "applied"
          /\ RecordsKept
          /\ \A r \in Rows : status'[r] = status[r] \/ (r = a /\ status'[r] = s /\ Earned(r))
          /\ ~Raised({a}, s, end) => status'[a] = s
      BY <1>3, <1>4, <1>6, <2>1, FinishedOne
    <2>3. Return /\ (clean' = FALSE \/ (UNCHANGED clean /\ ~Raised({a}, s, end)))
      BY <1>6 DEF Abort
    <2>4. clean' \in BOOLEAN
      BY <2>3 DEF IInv, RecordOK
    <2>5. clean' => \A r \in Rows : status'[r] \notin {"started", "applying"}
      BY <1>3, <2>2, <2>3 DEF IInv, OpenOK
    <2> QED BY <1>1, <1>4, <2>2, <2>3, <2>4, <2>5, ReturnStep
  <1> QED BY <1>2, <1>5, <1>6

\* The syscall.
LEMMA RenameMoveStep == IInv /\ RenameMove => IInv'
  <1> SUFFICES ASSUME IInv, RenameMove PROVE IInv'
    OBVIOUS
  <1> USE RowKinds
  <1>1. UNCHANGED <<status, receipt, info, kio, batch, chunk, claims, record, plan, clean>> /\ pc = "move"
    BY DEF RenameMove, bounds, ledger
  <1>2. PICK a \in batch :
       \/ /\ at[a]["source"] # "none" /\ at[a]["target"] = "none"
          /\ at' = Moved(a, "source", "target")
          /\ Take(a, "source")
          /\ \/ Goto("look", {a}) /\ UNCHANGED outcome
             \/ Goto("settle", {a}) /\ Decide({a}, "recovery")
       \/ /\ Goto("settle", {a}) /\ Decide({a}, "recovery")
          /\ UNCHANGED <<at, history>>
    BY DEF RenameMove
  <1>3. /\ batch = {a} /\ a \in Rename /\ a \in Actions /\ a \in Rows
        /\ TypeOK /\ HandOK(a) /\ RenameFilesOK(a) /\ a \notin Trash /\ a \notin Restores /\ Subject(a) = a
    BY <1>1, <1>2, RenameHand DEF OfRename
  <1>4. status[a] = "applying" /\ took[a] = <<>> /\ outcome[a] = "none"
    BY <1>1, <1>3 DEF HandOK, During
  <1>5. /\ todo' = {a} /\ pc' \in {"look", "settle"}
        /\ pc' = "look" => UNCHANGED outcome
        /\ pc' = "settle" => Decide({a}, "recovery")
    BY <1>2 DEF Goto
  <1>6. /\ outcome' \in [Rows -> {"none", "applied", "blocked", "recovery"}]
        /\ pc' = "look" => outcome'[a] = "none"
        /\ pc' = "settle" => outcome'[a] = "recovery"
    BY <1>3, <1>4, <1>5, DecideFacts DEF TypeOK
  <1>7. /\ at' \in [Actions -> [Places -> Objects]]
        /\ took' \in [Rows -> Taken] /\ putback' \in [Rows -> BOOLEAN]
        /\ \A b \in Actions \ {a} : at'[b] = at[b]
        /\ \A r \in Rows \ {a} : took'[r] = took[r] /\ putback'[r] = putback[r]
        /\ \/ at'[a] = at[a] /\ took'[a] = <<>>
           \/ /\ took'[a] = <<at[a]["source"]>> /\ at'[a]["source"] = "none"
              /\ at'[a]["target"] = at[a]["source"]
              /\ at'[a]["claim"] = at[a]["claim"] /\ at'[a]["trash"] = at[a]["trash"]
    <2>1. CASE /\ at[a]["source"] # "none"
               /\ at' = Moved(a, "source", "target") /\ Take(a, "source")
      <3>1. /\ at' \in [Actions -> [Places -> Objects]]
            /\ at'[a]["target"] = at[a]["source"] /\ at'[a]["source"] = "none"
            /\ at'[a]["trash"] = at[a]["trash"] /\ at'[a]["claim"] = at[a]["claim"]
            /\ \A b \in Actions \ {a} : at'[b] = at[b]
        <4>1. "source" \in Places /\ "target" \in Places
          BY DEF Places
        <4>2. /\ at' \in [Actions -> [Places -> Objects]]
              /\ at'[a]["target"] = at[a]["source"] /\ at'[a]["source"] = "none"
              /\ \A p \in Places \ {"source", "target"} : at'[a][p] = at[a][p]
              /\ \A b \in Actions \ {a} : at'[b] = at[b]
          BY <1>3, <2>1, <4>1, MovedFacts
        <4> QED BY <4>2 DEF Places
      <3>2. /\ took' \in [Rows -> Taken] /\ putback' \in [Rows -> BOOLEAN]
            /\ took'[a] = <<at[a]["source"]>>
            /\ \A s \in Rows \ {a} : took'[s] = took[s] /\ putback'[s] = putback[s]
        BY <1>3, <1>4, <2>1, TakeFacts DEF IInv, Places
      <3> QED BY <3>1, <3>2
    <2>2. CASE UNCHANGED <<at, history>>
      BY <1>4, <2>2 DEF IInv, TypeOK, RecordOK, history
    <2> QED BY <1>2, <2>1, <2>2
  <1>8. TypeOK' /\ BatchOK' /\ OpenOK'
    BY <1>1, <1>3, <1>5, <1>6, <1>7 DEF IInv, TypeOK, BatchOK, OpenOK, OfTrash, OfRename, OfRestore, Before, Calling, Steps
  <1>9. FilesOK'
    <2>1. RenameFilesOK(a)'
      BY <1>3, <1>4, <1>7 DEF RenameFilesOK
    <2>2. \A b \in Trash : TrashFilesOK(b)'
      BY <1>1, <1>3, <1>7 DEF IInv, FilesOK, TrashFilesOK, Actions, Rows
    <2>3. \A b \in Rename \ {a} : RenameFilesOK(b)'
      BY <1>1, <1>3, <1>7 DEF IInv, FilesOK, RenameFilesOK, Actions, Rows
    <2> QED BY <2>1, <2>2, <2>3 DEF FilesOK
  <1>10. StatusOK'
    BY <1>1, <1>3, <1>4, <1>7 DEF IInv, StatusOK, Intact, Backed, Rows, Actions
  <1>11. HandOK(a)'
    BY <1>1, <1>4, <1>5, <1>6 DEF HandOK, Before, During, Calling, CallOK
  <1>12. \A r \in Actions : took'[r] = took[r] \/ (took[r] = <<>> /\ r \in batch)
    BY <1>3, <1>4, <1>7
  <1> QED BY <1>1, <1>3, <1>7, <1>8, <1>9, <1>10, <1>11, <1>12, EffectStep DEF ledger

LEMMA RenameLookStep == IInv /\ RenameLook => IInv'
  <1> SUFFICES ASSUME IInv, RenameLook PROVE IInv'
    OBVIOUS
  <1>1. /\ UNCHANGED <<ledger, files, batch, chunk, claims, record, history, bounds, clean>>
        /\ pc = "look"
    BY DEF RenameLook
  <1>2. PICK a \in batch : /\ Goto("settle", {a})
                           /\ \/ RenameSeen(a) /\ Decide({a}, "applied")
                              \/ Decide({a}, "recovery")
    BY DEF RenameLook
  <1>3. /\ batch = {a} /\ a \in Rename /\ a \in Rows
        /\ TypeOK /\ HandOK(a) /\ RenameFilesOK(a) /\ a \notin Trash
    BY <1>1, <1>2, RenameHand DEF OfRename
  <1>4. /\ outcome' \in [Rows -> {"none", "applied", "blocked", "recovery"}]
        /\ outcome'[a] \in {"applied", "recovery"}
        /\ outcome'[a] = "applied" => RenameSeen(a)
        /\ pc' = "settle" /\ todo' = {a}
    BY <1>2, <1>3, DecideFacts DEF Goto
  <1>5. BatchOK' /\ OpenOK'
    BY <1>1, <1>3, <1>4 DEF IInv, BatchOK, OpenOK, OfTrash, OfRename, OfRestore, Before, Calling, ledger
  <1>6. status[a] = "applying" /\ (outcome'[a] = "applied" => Backed(a))
    BY <1>1, <1>3, <1>4 DEF HandOK, During, RenameSeen, RenameFilesOK, Backed
  <1>7. HandOK(a)'
    BY <1>1, <1>4, <1>6 DEF HandOK, Before, During, Calling, CallOK, Backed, ledger, files, history
  <1> QED BY <1>1, <1>3, <1>4, <1>5, <1>7, QuietStep DEF Steps

\* The second write after one that raised.
LEMMA ThenAnotherFacts ==
  ASSUME IInv, NEW a \in Rows, a \notin Restores, NEW end, NEW s \in Endings,
         s = "skipped" /\ status[a] = "applying" => Intact(a),
         s \in {"skipped", "recovery_required"},
         ThenAnother(a, Finished({a}, s, end))
  PROVE  /\ status' \in [Rows -> Statuses]
         /\ \A r \in Rows : receipt[r] <=> status'[r] = "applied"
         /\ RecordsKept
         /\ \A r \in Rows : status'[r] = status[r] \/ (r = a /\ Earned(r))
  <1> DEFINE F == Finished({a}, s, end)
             R == {a}
  <1>1. TypeOK /\ s \in Statuses /\ R \in SUBSET Rows /\ \A t \in Endings : t \in Statuses
    BY DEF IInv, Endings, Statuses, Closed
  <1>2. /\ F \in [Rows -> Statuses]
        /\ \A r \in Rows \ {a} : F[r] = status[r]
        /\ F[a] = status[a] \/ (F[a] = s /\ s \in Allowed(status[a]))
    <2>1. F = Finished(R, s, end) /\ \A r \in Rows : r \in R <=> r = a
      OBVIOUS
    <2> HIDE DEF F, R
    <2> QED BY <1>1, <2>1, FinishedFacts
  <1>3. PICK t \in {"failed", "recovery_required"}, stands \in BOOLEAN :
          status' = IF stands /\ t \in Allowed(F[a]) THEN [F EXCEPT ![a] = t] ELSE F
    BY DEF ThenAnother
  <1> HIDE DEF F
  <1>4. t \in Statuses /\ t \in {"failed", "recovery_required"}
    BY <1>3 DEF Statuses, Closed
  <1>5. /\ status' \in [Rows -> Statuses]
        /\ \A r \in Rows \ {a} : status'[r] = status[r]
        /\ status'[a] = F[a] \/ (status'[a] = t /\ t \in Allowed(F[a]))
    BY <1>2, <1>3, <1>4
  <1>6. F[a] # status[a] => status[a] \in {"started", "applying"}
    BY <1>1, <1>2, AllowedFacts DEF TypeOK
  <1>7. /\ status'[a] = t /\ t \in Allowed(F[a]) => F[a] = status[a] /\ status[a] \in {"started", "applying"}
        /\ status'[a] = "failed" /\ "failed" \in Allowed(F[a]) => status[a] = "started"
    <2>1. F[a] \in Statuses
      BY <1>2
    <2>2. \A u \in Allowed(F[a]) : F[a] \in {"started", "applying"} /\ (u = "failed" => F[a] = "started")
      BY <2>1, AllowedFacts
    <2> QED BY <1>2, <2>2
  <1>8. took[a] = <<>> \/ status[a] # "started"
    BY DEF IInv, StatusOK
  <1>9. status'[a] # status[a] => /\ status[a] \in {"started", "applying"}
                                  /\ status'[a] \in {"failed", "skipped", "recovery_required"}
                                  /\ Earned(a)
    BY <1>2, <1>3, <1>5, <1>6, <1>7, <1>8 DEF Earned, Intact
  <1>10. RecordsKept
    BY <1>5, <1>9 DEF RecordsKept
  <1>11. \A r \in Rows : receipt[r] <=> status'[r] = "applied"
    BY <1>1, <1>5, <1>9 DEF TypeOK
  <1> QED BY <1>5, <1>9, <1>10, <1>11

LEMMA RenameSettleStep == IInv /\ RenameSettle => IInv'
  <1> SUFFICES ASSUME IInv, RenameSettle PROVE IInv'
    OBVIOUS
  <1>1. UNCHANGED <<files, record, history, plan>> /\ pc = "settle"
    BY DEF RenameSettle, bounds
  <1>2. PICK a \in batch, end \in Ends :
       \/ /\ outcome[a] = "applied"
          /\ Confirmed({a}, end)
          /\ IF Raised({a}, "applied", end)
             THEN /\ Decide({a}, "recovery") /\ Goto("settle", {a}) /\ clean' = FALSE
                  /\ UNCHANGED <<batch, chunk, claims>>
             ELSE Return /\ UNCHANGED clean
       \/ \E s \in {"skipped", "recovery_required"} :
            /\ s = (IF outcome[a] = "blocked" THEN "skipped" ELSE "recovery_required")
            /\ outcome[a] # "applied"
            /\ IF Raised({a}, s, end)
               THEN ThenAnother(a, Finished({a}, s, end)) /\ Abort
               ELSE status' = Finished({a}, s, end) /\ Return /\ UNCHANGED clean
            /\ UNCHANGED receipt
    BY DEF RenameSettle
  <1>3. /\ batch = {a} /\ a \in Rename /\ a \in Rows
        /\ TypeOK /\ HandOK(a) /\ a \notin Trash /\ a \notin Restores
    BY <1>1, <1>2, RenameHand DEF OfRename
  <1>4. CASE /\ outcome[a] = "applied"
             /\ Confirmed({a}, end)
             /\ IF Raised({a}, "applied", end)
                THEN /\ Decide({a}, "recovery") /\ Goto("settle", {a}) /\ clean' = FALSE
                     /\ UNCHANGED <<batch, chunk, claims>>
                ELSE Return /\ UNCHANGED clean
    <2>1. /\ status' \in [Rows -> Statuses] /\ receipt' \in [Rows -> BOOLEAN]
          /\ \A r \in Rows : receipt'[r] <=> status'[r] = "applied"
          /\ RecordsKept
          /\ \A r \in Rows : \/ status'[r] = status[r]
                             \/ r \in batch /\ status'[r] = "applied" /\ Earned(r)
          /\ ~Raised(batch, "applied", end) => \A r \in batch : status'[r] = "applied"
      <3>1. \A r \in batch : Backed(r) /\ status[r] = "applying"
        BY <1>3, <1>4 DEF HandOK
      <3> QED BY <1>3, <1>4, <3>1, ConfirmedStep DEF TypeOK
    <2>2. CASE ~Raised({a}, "applied", end)
      <3>1. Return /\ UNCHANGED clean /\ clean' \in BOOLEAN
        BY <1>4, <2>2 DEF IInv, RecordOK
      <3>2. clean' => \A r \in Rows : status'[r] \notin {"started", "applying"}
        BY <1>3, <2>1, <2>2, <3>1 DEF IInv, OpenOK
      <3> QED BY <1>1, <2>1, <3>1, <3>2, ReturnStep
    <2>3. CASE Raised({a}, "applied", end)
      <3>1. /\ pc' = "settle" /\ todo' = {a} /\ clean' = FALSE /\ UNCHANGED <<batch, chunk, claims>>
            /\ outcome' \in [Rows -> {"none", "applied", "blocked", "recovery"}]
            /\ outcome'[a] = "recovery"
        BY <1>3, <1>4, <2>3, DecideFacts DEF Goto
      <3>2. TypeOK' /\ BatchOK' /\ OpenOK'
        BY <1>1, <1>3, <2>1, <3>1 DEF IInv, TypeOK, BatchOK, OpenOK, OfTrash, OfRename, OfRestore, Before, Calling, Steps, files
      <3>3. HandOK(a)'
        BY <3>1 DEF HandOK, Before, During, Calling, CallOK
      <3> QED BY <1>1, <1>3, <2>1, <3>1, <3>2, <3>3, LedgerStep
    <2> QED BY <2>2, <2>3
  <1>5. ASSUME NEW s \in {"skipped", "recovery_required"},
               s = (IF outcome[a] = "blocked" THEN "skipped" ELSE "recovery_required"),
               outcome[a] # "applied",
               IF Raised({a}, s, end)
               THEN ThenAnother(a, Finished({a}, s, end)) /\ Abort
               ELSE status' = Finished({a}, s, end) /\ Return /\ UNCHANGED clean,
               UNCHANGED receipt
        PROVE  IInv'
    <2>1. /\ s \in Endings /\ receipt' \in [Rows -> BOOLEAN]
          /\ s = "skipped" => Intact(a)
      BY <1>3, <1>5 DEF Endings, TypeOK, HandOK
    <2>2. CASE Raised({a}, s, end)
      <3>1. /\ status' \in [Rows -> Statuses]
            /\ \A r \in Rows : receipt[r] <=> status'[r] = "applied"
            /\ RecordsKept
            /\ \A r \in Rows : status'[r] = status[r] \/ (r = a /\ Earned(r))
        BY <1>3, <1>5, <2>1, <2>2, ThenAnotherFacts
      <3>2. Return /\ clean' = FALSE
        BY <1>5, <2>2 DEF Abort
      <3> QED BY <1>1, <1>5, <2>1, <3>1, <3>2, ReturnStep
    <2>3. CASE ~Raised({a}, s, end)
      <3>1. status' = Finished({a}, s, end) /\ Return /\ UNCHANGED clean /\ clean' \in BOOLEAN
        BY <1>5, <2>3 DEF IInv, RecordOK
      <3>2. /\ status' \in [Rows -> Statuses]
            /\ \A r \in Rows : receipt[r] <=> status'[r] = "applied"
            /\ RecordsKept
            /\ \A r \in Rows : status'[r] = status[r] \/ (r = a /\ status'[r] = s /\ Earned(r))
            /\ ~Raised({a}, s, end) => status'[a] = s
        BY <1>3, <2>1, <3>1, FinishedOne
      <3>3. clean' => \A r \in Rows : status'[r] \notin {"started", "applying"}
        BY <1>3, <2>3, <3>1, <3>2 DEF IInv, OpenOK
      <3> QED BY <1>1, <1>5, <2>1, <3>1, <3>2, <3>3, ReturnStep
    <2> QED BY <2>2, <2>3
  <1> QED BY <1>2, <1>4, <1>5

-----------------------------------------------------------------------------
(* The restoration of one trashed file. *)

\* The owner has the row of one restoration in hand.
LEMMA RestoreHand ==
  ASSUME IInv, pc \in OfRestore, NEW r \in batch
  PROVE  /\ batch = {r} /\ r \in Restores /\ r \in Rows /\ r \notin Actions /\ r \notin Trash
         /\ TypeOK /\ HandOK(r) /\ Subject(r) \in Trash /\ Subject(r) \in Actions /\ Subject(r) \in Rows
         /\ TrashFilesOK(Subject(r))
         /\ status[r] # "absent" => status[Subject(r)] = "applied"
  <1>1. \E b \in Restores : batch = {b}
    BY DEF IInv, BatchOK
  <1>2. batch = {r} /\ r \in Restores
    BY <1>1
  <1>3. r \in Rows /\ r \notin Actions /\ r \notin Trash /\ Subject(r) \in Trash
    BY <1>2, RowKinds DEF Actions
  <1>4. Subject(r) \in Actions /\ Subject(r) \in Rows
    BY <1>3 DEF Actions, Rows
  <1>5. status[r] # "absent" => status[Subject(r)] = "applied"
    BY <1>2, <1>3 DEF IInv, StatusOK
  <1>6. TypeOK /\ HandOK(r) /\ TrashFilesOK(Subject(r))
    BY <1>3 DEF IInv, FilesOK
  <1> QED BY <1>2, <1>3, <1>4, <1>5, <1>6

LEMMA RestoreBeginStep == IInv /\ RestoreBegin => IInv'
  <1> SUFFICES ASSUME IInv, RestoreBegin PROVE IInv'
    OBVIOUS
  <1>1. UNCHANGED <<receipt, files, record, history, plan>> /\ pc = "idle"
    BY DEF RestoreBegin
  <1>2. PICK a \in Restorable :
          /\ receipt[a]
          /\ \/ /\ status[RestoreOf(a)] \in {"absent", "started"}
                /\ status' = [status EXCEPT ![RestoreOf(a)] = "started"]
                /\ batch' = {RestoreOf(a)} /\ Goto("restore", {RestoreOf(a)})
                /\ UNCHANGED <<chunk, claims, outcome, clean>>
             \/ /\ \E end \in Ends : status' = Finished({RestoreOf(a)}, "recovery_required", end)
                /\ UNCHANGED <<owner, clean>>
    BY DEF RestoreBegin
  <1> DEFINE r == RestoreOf(a)
  <1>3. /\ r \in Restores /\ r \in Rows /\ r \notin Actions /\ Subject(r) = a
        /\ a \in Rows /\ TypeOK /\ status[a] = "applied" /\ batch = {} /\ chunk = {} /\ claims = {}
    BY <1>1, <1>2, RowKinds, ConstantsAssumption DEF IInv, TypeOK, BatchOK, Rows, Actions
  <1>4. /\ clean => \A s \in Rows : status[s] \notin {"started", "applying"}
        /\ \A s \in Rows : outcome[s] = "none"
    BY <1>1, <1>3 DEF IInv, OpenOK, BatchOK
  <1>5. CASE /\ status[r] \in {"absent", "started"}
             /\ status' = [status EXCEPT ![r] = "started"]
             /\ batch' = {r} /\ Goto("restore", {r})
             /\ UNCHANGED <<chunk, claims, outcome, clean>>
    <2> HIDE DEF r
    <2>1. /\ status' \in [Rows -> Statuses] /\ status'[r] = "started"
          /\ \A s \in Rows \ {r} : status'[s] = status[s]
      BY <1>3, <1>5 DEF TypeOK, Statuses
    <2>2. \A s \in Rows : receipt[s] <=> status'[s] = "applied"
      BY <1>3, <1>5, <2>1 DEF TypeOK
    <2>3. took[r] = <<>> /\ clean' \in BOOLEAN
      BY <1>3, <1>5 DEF IInv, StatusOK, RecordOK
    <2>4. RecordsKept /\ \A s \in Rows : status'[s] = status[s] \/ Earned(s)
      BY <1>3, <1>5, <2>1, <2>3 DEF RecordsKept, Earned
    <2>5. pc' = "restore" /\ todo' = {r}
      BY <1>5 DEF Goto
    <2>6. TypeOK' /\ BatchOK'
      BY <1>1, <1>3, <1>5, <2>1, <2>2, <2>5 DEF IInv, TypeOK, BatchOK, OfTrash, OfRename, OfRestore, Before, Calling, Steps, files
    <2>7. OpenOK'
      BY <1>4, <1>5, <2>1, <2>5 DEF OpenOK
    <2>8. HandOK(r)'
      BY <1>1, <1>3, <1>4, <1>5, <2>1, <2>3, <2>5 DEF HandOK, Before, During, Calling, CallOK, history
    <2> QED BY <1>1, <1>3, <1>5, <2>3, <2>4, <2>6, <2>7, <2>8, LedgerStep
  <1>6. ASSUME NEW end \in Ends, status' = Finished({r}, "recovery_required", end),
               UNCHANGED <<owner, clean>>
        PROVE  IInv'
    <2> HIDE DEF r
    <2>1. "recovery_required" \in Endings
      BY DEF Endings
    <2>2. /\ status' \in [Rows -> Statuses]
          /\ \A s \in Rows : receipt[s] <=> status'[s] = "applied"
          /\ RecordsKept
          /\ \A s \in Rows : status'[s] = status[s] \/ (s = r /\ status'[s] = "recovery_required" /\ Earned(s))
      BY <1>3, <1>6, <2>1, FinishedOne
    <2>3. TypeOK' /\ BatchOK' /\ clean' \in BOOLEAN /\ batch' = {}
      BY <1>1, <1>3, <1>6, <2>2 DEF IInv, TypeOK, RecordOK, BatchOK, files, owner
    <2>4. OpenOK'
      BY <1>4, <1>6, <2>2 DEF OpenOK
    <2> QED BY <1>1, <2>2, <2>3, <2>4, LedgerStep
  <1> QED BY <1>2, <1>5, <1>6

LEMMA RestoreMarkStep == IInv /\ RestoreMark => IInv'
  <1> SUFFICES ASSUME IInv, RestoreMark PROVE IInv'
    OBVIOUS
  <1>1. UNCHANGED <<receipt, files, record, history, plan>> /\ pc = "restore"
    BY DEF RestoreMark, bounds
  <1>2. PICK end \in Ends :
          /\ status' = Frontier(batch, end)
          /\ IF FrontierPassed(batch, end)
             THEN Goto("restoring", batch) /\ UNCHANGED <<batch, chunk, claims, outcome, clean>>
             ELSE Abort
    BY DEF RestoreMark
  <1>3. batch \in SUBSET Rows /\ receipt' \in [Rows -> BOOLEAN]
    BY <1>1 DEF IInv, TypeOK
  <1>4. /\ status' \in [Rows -> Statuses]
        /\ \A r \in Rows : receipt[r] <=> status'[r] = "applied"
        /\ RecordsKept
        /\ \A r \in Rows : \/ status'[r] = status[r]
                           \/ r \in batch /\ status'[r] = "applying" /\ Earned(r)
        /\ FrontierPassed(batch, end) => \A r \in batch : status'[r] = "applying"
    BY <1>2, <1>3, FrontierStep
  <1>5. CASE ~FrontierPassed(batch, end)
    <2>1. Return /\ clean' = FALSE
      BY <1>2, <1>5 DEF Abort
    <2> QED BY <1>1, <1>3, <1>4, <2>1, ReturnStep
  <1>6. CASE FrontierPassed(batch, end)
    <2>1. pc' = "restoring" /\ todo' = batch /\ UNCHANGED <<batch, chunk, claims, outcome, clean>>
      BY <1>2, <1>6 DEF Goto
    <2>2. TypeOK' /\ BatchOK' /\ clean' \in BOOLEAN
      BY <1>1, <1>4, <2>1 DEF IInv, TypeOK, RecordOK, BatchOK, OfTrash, OfRename, OfRestore, Before, Calling, Steps, files
    <2>3. OpenOK'
      BY <1>4, <2>1 DEF IInv, OpenOK
    <2>4. \A r \in batch' : HandOK(r)'
      BY <1>1, <1>4, <1>6, <2>1 DEF IInv, HandOK, Before, During, Calling, CallOK, history
    <2> QED BY <1>1, <1>4, <2>1, <2>2, <2>3, <2>4, LedgerStep
  <1> QED BY <1>5, <1>6

\* The object in the Trash goes back to the source path.
LEMMA RestoreMoveStep == IInv /\ RestoreMove => IInv'
  <1> SUFFICES ASSUME IInv, RestoreMove PROVE IInv'
    OBVIOUS
  <1> USE RowKinds
  <1>1. UNCHANGED <<status, receipt, info, kio, batch, chunk, claims, record, plan, clean>> /\ pc = "restoring"
    BY DEF RestoreMove, bounds, ledger
  <1>2. PICK r \in batch :
       \/ /\ at[Subject(r)]["trash"] # "none"
          /\ at' = Moved(Subject(r), "trash", "source")
          /\ Take(r, "trash")
          /\ \/ Goto("unlink", {r}) /\ UNCHANGED outcome
             \/ Goto("restored", {r}) /\ Decide({r}, "recovery")
       \/ /\ \E o \in {"blocked", "recovery"} : Decide({r}, o)
          /\ Goto("restored", {r})
          /\ UNCHANGED <<at, history>>
    BY DEF RestoreMove
  <1> DEFINE a == Subject(r)
  <1>3. /\ batch = {r} /\ r \in Restores /\ r \in Rows /\ r \notin Actions /\ r \notin Trash
        /\ TypeOK /\ HandOK(r) /\ a \in Trash /\ a \in Actions /\ a \in Rows
        /\ TrashFilesOK(a)
        /\ status[r] # "absent" => status[a] = "applied"
    BY <1>1, <1>2, RestoreHand DEF OfRestore
  <1>4. /\ status[r] = "applying" /\ took[r] = <<>> /\ outcome[r] = "none" /\ status[a] = "applied"
        /\ Backed(a)
    BY <1>1, <1>3 DEF HandOK, During, IInv, StatusOK
  <1>5. /\ todo' = {r} /\ pc' \in {"unlink", "restored"}
        /\ pc' = "unlink" => UNCHANGED outcome
        /\ pc' = "restored" => \E o \in {"blocked", "recovery"} : Decide({r}, o)
    BY <1>2 DEF Goto
  <1>6. /\ outcome' \in [Rows -> {"none", "applied", "blocked", "recovery"}]
        /\ pc' = "unlink" => outcome'[r] = "none"
        /\ pc' = "restored" => outcome'[r] \in {"blocked", "recovery"}
    BY <1>3, <1>4, <1>5, DecideFacts DEF TypeOK
  <1>7. /\ at' \in [Actions -> [Places -> Objects]]
        /\ took' \in [Rows -> Taken] /\ putback' \in [Rows -> BOOLEAN]
        /\ \A b \in Actions \ {a} : at'[b] = at[b]
        /\ \A s \in Rows \ {r} : took'[s] = took[s] /\ putback'[s] = putback[s]
        /\ \/ at'[a] = at[a] /\ took'[r] = <<>> /\ pc' = "restored"
           \/ /\ took'[r] = <<"mine">> /\ at[a]["trash"] = "mine"
              /\ outcome'[r] # "blocked"
              /\ at'[a]["source"] = "mine" /\ at'[a]["trash"] = "none"
              /\ at'[a]["claim"] = at[a]["claim"] /\ at'[a]["target"] = at[a]["target"]
    <2>1. CASE /\ at[a]["trash"] # "none"
               /\ at' = Moved(a, "trash", "source") /\ Take(r, "trash")
               /\ \/ Goto("unlink", {r}) /\ UNCHANGED outcome
                  \/ Goto("restored", {r}) /\ Decide({r}, "recovery")
      <3>1. at[a]["trash"] = "mine"
        BY <1>3, <2>1 DEF TrashFilesOK
      <3>2. /\ at' \in [Actions -> [Places -> Objects]]
            /\ at'[a]["source"] = at[a]["trash"] /\ at'[a]["trash"] = "none"
            /\ at'[a]["claim"] = at[a]["claim"] /\ at'[a]["target"] = at[a]["target"]
            /\ \A b \in Actions \ {a} : at'[b] = at[b]
        <4>1. "source" \in Places /\ "trash" \in Places
          BY DEF Places
        <4> HIDE DEF a
        <4> QED BY <1>3, <2>1, <4>1, MovedFacts DEF Places
      <3>3. /\ took' \in [Rows -> Taken] /\ putback' \in [Rows -> BOOLEAN]
            /\ took'[r] = <<at[Subject(r)]["trash"]>>
            /\ \A s \in Rows \ {r} : took'[s] = took[s] /\ putback'[s] = putback[s]
        BY <1>3, <1>4, <2>1, TakeFacts DEF IInv, Places
      <3>4. outcome'[r] # "blocked"
        BY <1>3, <1>4, <2>1, DecideFacts
      <3> QED BY <3>1, <3>2, <3>3, <3>4
    <2>2. CASE UNCHANGED <<at, history>> /\ Goto("restored", {r})
      BY <1>4, <2>2 DEF IInv, TypeOK, RecordOK, history, Goto
    <2> QED BY <1>2, <2>1, <2>2
  <1> HIDE DEF a
  <1>8. TypeOK' /\ BatchOK' /\ OpenOK'
    BY <1>1, <1>3, <1>5, <1>6, <1>7 DEF IInv, TypeOK, BatchOK, OpenOK, OfTrash, OfRename, OfRestore, Before, Calling, Steps
  <1>9. FilesOK'
    <2>1. TrashFilesOK(a)'
      <3>1. took'[a] = took[a] /\ putback'[a] = putback[a]
        BY <1>3, <1>7
      <3> QED BY <1>1, <1>3, <1>4, <1>7, <3>1 DEF TrashFilesOK, Backed
    <2>2. \A b \in Trash \ {a} : TrashFilesOK(b)'
      BY <1>1, <1>3, <1>7 DEF IInv, FilesOK, TrashFilesOK, Actions, Rows
    <2>3. \A b \in Rename : RenameFilesOK(b)'
      BY <1>1, <1>3, <1>7 DEF IInv, FilesOK, RenameFilesOK, Actions, Rows
    <2> QED BY <2>1, <2>2, <2>3 DEF FilesOK
  <1>10. StatusOK'
    <2>1. \A s \in Rows \ {r, a} : Intact(s) => Intact(s)'
      BY <1>7 DEF Intact, Actions, Rows
    <2>2. \A s \in Rows \ {r} : Backed(s) => Backed(s)'
      BY <1>1, <1>3, <1>7 DEF Backed, Actions
    <2> QED BY <1>1, <1>3, <1>4, <1>7, <2>1, <2>2 DEF IInv, StatusOK
  <1>11. HandOK(r)'
    BY <1>1, <1>4, <1>5, <1>6, <1>7 DEF HandOK, Before, During, Calling, CallOK, Intact
  <1>12. \A s \in Actions : took'[s] = took[s]
    BY <1>3, <1>7
  <1> QED BY <1>1, <1>3, <1>7, <1>8, <1>9, <1>10, <1>11, <1>12, EffectStep DEF ledger

\* The .trashinfo of the restored object is removed.
LEMMA RestoreUnlinkStep == IInv /\ RestoreUnlink => IInv'
  <1> SUFFICES ASSUME IInv, RestoreUnlink PROVE IInv'
    OBVIOUS
  <1> USE RowKinds
  <1>1. /\ UNCHANGED <<ledger, status, receipt, at, kio, batch, chunk, claims, record, history, plan, clean>>
        /\ pc = "unlink"
    BY DEF RestoreUnlink, bounds, ledger
  <1>2. PICK r \in batch :
       /\ Goto("restored", {r})
       /\ \/ /\ at[Subject(r)]["source"] = "mine"
             /\ info' = [info EXCEPT ![Subject(r)] = "none"]
             /\ \E o \in {"applied", "recovery"} : Decide({r}, o)
          \/ Decide({r}, "recovery") /\ UNCHANGED info
    BY DEF RestoreUnlink
  <1> DEFINE a == Subject(r)
  <1>3. /\ batch = {r} /\ r \in Restores /\ r \in Rows /\ r \notin Actions /\ r \notin Trash
        /\ TypeOK /\ HandOK(r) /\ a \in Trash /\ a \in Actions /\ a \in Rows
        /\ TrashFilesOK(a)
    BY <1>1, <1>2, RestoreHand DEF OfRestore
  <1> HIDE DEF a
  <1>4. status[r] = "applying" /\ took[r] = <<"mine">>
    BY <1>1, <1>3 DEF HandOK, During
  <1>5. /\ outcome' \in [Rows -> {"none", "applied", "blocked", "recovery"}]
        /\ outcome'[r] \in {"applied", "recovery"}
    BY <1>2, <1>3, DecideFacts
  <1>6. /\ info' \in [Actions -> {"none", "claim", "torn", "source"}]
        /\ \A b \in Actions \ {a} : info'[b] = info[b]
        /\ info'[a] = info[a] \/ at[a]["trash"] = "none"
    BY <1>2, <1>3 DEF TypeOK, TrashFilesOK, a
  <1>7. TypeOK' /\ BatchOK' /\ OpenOK'
    BY <1>1, <1>2, <1>3, <1>5, <1>6 DEF IInv, TypeOK, BatchOK, OpenOK, OfTrash, OfRename, OfRestore, Before, Calling, Steps, Goto
  <1>8. FilesOK'
    BY <1>1, <1>3, <1>6 DEF IInv, FilesOK, TrashFilesOK, RenameFilesOK, history, Actions
  <1>9. StatusOK'
    BY <1>1, <1>3, <1>6 DEF IInv, StatusOK, Intact, Backed, history, Actions
  <1>10. HandOK(r)'
    BY <1>1, <1>2, <1>3, <1>4, <1>5 DEF HandOK, Before, During, Calling, CallOK, Backed, history, Goto
  <1> QED BY <1>1, <1>3, <1>7, <1>8, <1>9, <1>10, EffectStep DEF IInv, RecordOK, history

\* The end of a restoration.
LEMMA RestoreSettleStep == IInv /\ RestoreSettle => IInv'
  <1> SUFFICES ASSUME IInv, RestoreSettle PROVE IInv'
    OBVIOUS
  <1>1. UNCHANGED <<files, record, history, plan>> /\ pc = "restored"
    BY DEF RestoreSettle, bounds
  <1>2. PICK r \in batch, end \in Ends :
       \/ /\ outcome[r] = "applied"
          /\ Confirmed({r}, end)
          /\ IF Raised({r}, "applied", end)
             THEN /\ Decide({r}, "recovery") /\ Goto("restored", {r}) /\ clean' = FALSE
                  /\ UNCHANGED <<batch, chunk, claims>>
             ELSE Return /\ UNCHANGED clean
       \/ /\ outcome[r] = "blocked"
          /\ status' = Finished({r}, "skipped", end)
          /\ IF Raised({r}, "skipped", end)
             THEN /\ Decide({r}, "recovery") /\ Goto("restored", {r}) /\ clean' = FALSE
                  /\ UNCHANGED <<batch, chunk, claims>>
             ELSE Return /\ UNCHANGED clean
          /\ UNCHANGED receipt
       \/ /\ status' = Finished({r}, "recovery_required", end)
          /\ IF Raised({r}, "recovery_required", end) THEN Abort ELSE Return /\ UNCHANGED clean
          /\ UNCHANGED receipt
    BY DEF RestoreSettle
  <1>3. /\ batch = {r} /\ r \in Restores /\ r \in Rows /\ TypeOK /\ HandOK(r)
    BY <1>1, <1>2, RestoreHand DEF OfRestore
  <1> DEFINE Facts(s) ==
        /\ status' \in [Rows -> Statuses] /\ receipt' \in [Rows -> BOOLEAN]
        /\ \A q \in Rows : receipt'[q] <=> status'[q] = "applied"
        /\ RecordsKept
        /\ \A q \in Rows : status'[q] = status[q] \/ (q = r /\ status'[q] = s /\ Earned(q))
        /\ ~Raised({r}, s, end) => status'[r] = s
  <1>4. ASSUME NEW s \in {"applied", "skipped", "recovery_required"}, Facts(s),
               ~Raised({r}, s, end), Return, UNCHANGED clean
        PROVE  IInv'
    <2>1. clean' \in BOOLEAN
      BY <1>4 DEF IInv, RecordOK
    <2>2. clean' => \A q \in Rows : status'[q] \notin {"started", "applying"}
      BY <1>3, <1>4 DEF IInv, OpenOK
    <2> QED BY <1>1, <1>4, <2>1, <2>2, ReturnStep
  <1>5. ASSUME NEW s \in {"applied", "skipped"}, Facts(s),
               Decide({r}, "recovery"), Goto("restored", {r}), clean' = FALSE,
               UNCHANGED <<batch, chunk, claims>>
        PROVE  IInv'
    <2>1. /\ pc' = "restored" /\ todo' = {r} /\ outcome'[r] = "recovery"
          /\ outcome' \in [Rows -> {"none", "applied", "blocked", "recovery"}]
      BY <1>3, <1>5, DecideFacts DEF Goto
    <2>2. TypeOK' /\ BatchOK' /\ OpenOK'
      BY <1>1, <1>3, <1>5, <2>1 DEF IInv, TypeOK, BatchOK, OpenOK, OfTrash, OfRename, OfRestore, Before, Calling, Steps, files
    <2>3. HandOK(r)'
      BY <2>1 DEF HandOK, Before, During, Calling, CallOK
    <2> QED BY <1>1, <1>3, <1>5, <2>1, <2>2, <2>3, LedgerStep
  <1>6. CASE /\ outcome[r] = "applied"
             /\ Confirmed({r}, end)
             /\ IF Raised({r}, "applied", end)
                THEN /\ Decide({r}, "recovery") /\ Goto("restored", {r}) /\ clean' = FALSE
                     /\ UNCHANGED <<batch, chunk, claims>>
                ELSE Return /\ UNCHANGED clean
    <2>1. \A q \in batch : Backed(q) /\ status[q] = "applying"
      BY <1>3, <1>6 DEF HandOK
    <2>2. /\ status' \in [Rows -> Statuses] /\ receipt' \in [Rows -> BOOLEAN]
          /\ \A q \in Rows : receipt'[q] <=> status'[q] = "applied"
          /\ RecordsKept
          /\ \A q \in Rows : \/ status'[q] = status[q]
                             \/ q \in batch /\ status'[q] = "applied" /\ Earned(q)
          /\ ~Raised(batch, "applied", end) => \A q \in batch : status'[q] = "applied"
      BY <1>3, <1>6, <2>1, ConfirmedStep DEF TypeOK
    <2>3. Facts("applied")
      BY <1>3, <2>2
    <2> QED BY <1>4, <1>5, <1>6, <2>3
  <1>7. CASE /\ outcome[r] = "blocked"
             /\ status' = Finished({r}, "skipped", end)
             /\ IF Raised({r}, "skipped", end)
                THEN /\ Decide({r}, "recovery") /\ Goto("restored", {r}) /\ clean' = FALSE
                     /\ UNCHANGED <<batch, chunk, claims>>
                ELSE Return /\ UNCHANGED clean
             /\ UNCHANGED receipt
    <2>1. Intact(r) /\ receipt' \in [Rows -> BOOLEAN] /\ "skipped" \in Endings
      BY <1>3, <1>7 DEF HandOK, TypeOK, Endings
    <2>2. Facts("skipped")
      BY <1>3, <1>7, <2>1, FinishedOne
    <2> QED BY <1>4, <1>5, <1>7, <2>2
  <1>8. CASE /\ status' = Finished({r}, "recovery_required", end)
             /\ IF Raised({r}, "recovery_required", end) THEN Abort ELSE Return /\ UNCHANGED clean
             /\ UNCHANGED receipt
    <2>1. receipt' \in [Rows -> BOOLEAN] /\ "recovery_required" \in Endings
      BY <1>3, <1>8 DEF TypeOK, Endings
    <2>2. Facts("recovery_required")
      BY <1>3, <1>8, <2>1, FinishedOne
    <2>3. CASE Raised({r}, "recovery_required", end)
      <3>1. Return /\ clean' = FALSE
        BY <1>8, <2>3 DEF Abort
      <3> QED BY <1>1, <2>2, <3>1, ReturnStep
    <2> QED BY <1>4, <1>8, <2>2, <2>3
  <1> QED BY <1>2, <1>6, <1>7, <1>8

-----------------------------------------------------------------------------
(* Around the owner. *)

\* The owner may stop at any step.
LEMMA CrashStep == IInv /\ Crash => IInv'
  <1> SUFFICES ASSUME IInv, Crash PROVE IInv'
    OBVIOUS
  <1>1. Return /\ clean' = FALSE /\ UNCHANGED <<status, receipt>> /\ UNCHANGED <<files, record, history, plan>>
    BY DEF Crash, Abort, ledger, bounds
  <1>2. /\ status' \in [Rows -> Statuses] /\ receipt' \in [Rows -> BOOLEAN]
        /\ \A r \in Rows : receipt'[r] <=> status'[r] = "applied"
    BY <1>1 DEF IInv, TypeOK
  <1>3. RecordsKept /\ \A r \in Rows : status'[r] = status[r]
    BY <1>1 DEF RecordsKept
  <1> QED BY <1>1, <1>2, <1>3, ReturnStep

\* The next run sees to the rows the last one left open.
LEMMA AbandonedStep == IInv /\ Abandoned => IInv'
  <1> SUFFICES ASSUME IInv, Abandoned PROVE IInv'
    OBVIOUS
  <1>1. UNCHANGED <<receipt, files, owner, record, history, plan, clean>> /\ pc = "idle"
    BY DEF Abandoned, bounds
  <1>2. PICK both \in BOOLEAN :
          status' = [r \in Rows |->
            CASE status[r] = "started" -> "failed"
              [] status[r] = "applying" /\ both -> "recovery_required"
              [] OTHER -> status[r]]
    BY DEF Abandoned
  <1>3. ASSUME NEW r \in Rows
        PROVE  /\ status'[r] \in Statuses
               /\ \/ status'[r] = status[r]
                  \/ status[r] = "started" /\ status'[r] = "failed"
                  \/ status[r] = "applying" /\ status'[r] = "recovery_required"
    <2>1. status[r] \in Statuses
      BY DEF IInv, TypeOK
    <2>2. status'[r] = CASE status[r] = "started" -> "failed"
                         [] status[r] = "applying" /\ both -> "recovery_required"
                         [] OTHER -> status[r]
      BY <1>2
    <2> QED BY <2>1, <2>2 DEF Statuses, Closed
  <1>4. status' \in [Rows -> Statuses]
    BY <1>2, <1>3
  <1>5. \A r \in Rows : receipt'[r] <=> status'[r] = "applied"
    BY <1>1, <1>3 DEF IInv, TypeOK
  <1>6. \A r \in Rows : status'[r] = status[r] \/ Earned(r)
    BY <1>3 DEF IInv, StatusOK, Earned
  <1>7. RecordsKept /\ batch' = {}
    BY <1>1, <1>3 DEF RecordsKept, IInv, TypeOK, owner
  <1>8. TypeOK' /\ BatchOK' /\ clean' \in BOOLEAN
    BY <1>1, <1>4, <1>5 DEF IInv, TypeOK, RecordOK, BatchOK, files, owner
  <1>9. OpenOK'
    BY <1>1, <1>3 DEF IInv, OpenOK, owner
  <1> QED BY <1>1, <1>6, <1>7, <1>8, <1>9, LedgerStep

\* The user of the desktop works on the files of action a.
LEMMA UserStep == IInv /\ User => IInv'
  <1> SUFFICES ASSUME IInv, User PROVE IInv'
    OBVIOUS
  <1> USE RowKinds
  <1>1. UNCHANGED <<ledger, kio, owner, record, took, plan, clean>>
    BY DEF User
  <1>2. PICK a \in plan :
       \/ /\ \E o \in {"other", "none"} : at' = [at EXCEPT ![a]["source"] = o]
          /\ UNCHANGED <<info, putback>>
       \/ /\ a \in Rename
          /\ at' = [at EXCEPT ![a]["target"] = IF @ = "none" THEN "other" ELSE "none"]
          /\ UNCHANGED <<info, putback>>
       \/ /\ at[a]["trash"] # "none"
          /\ at' = [at EXCEPT ![a]["trash"] = "none"]
          /\ info' = [info EXCEPT ![a] = "none"]
          /\ UNCHANGED putback
       \/ /\ at[a]["trash"] # "none" /\ info[a] \in Places /\ at[a][info[a]] = "none"
          /\ at' = Moved(a, "trash", info[a])
          /\ info' = [info EXCEPT ![a] = "none"]
          /\ putback' = [putback EXCEPT ![a] = info[a] = "source"]
       \/ /\ at[a]["trash"] # "none" /\ at[a]["source"] = "none"
          /\ at' = Moved(a, "trash", "source")
          /\ putback' = [putback EXCEPT ![a] = TRUE]
          /\ UNCHANGED info
    BY DEF User
  <1>3. TypeOK /\ RecordOK /\ a \in Actions /\ a \in Rows /\ a \notin Restores
    BY <1>2, ConstantsAssumption DEF IInv, TypeOK, Actions
  <1>4. at[a] \in [Places -> Objects] /\ at \in [Actions -> [Places -> Objects]]
    BY <1>3 DEF TypeOK
  <1> DEFINE Out(q) == /\ at[a]["trash"] # "none" /\ at[a][q] = "none"
                       /\ at'[a][q] = at[a]["trash"] /\ at'[a]["trash"] = "none"
                       /\ \A s \in Places \ {"trash", q} : at'[a][s] = at[a][s]
  <1>5. /\ at' \in [Actions -> [Places -> Objects]]
        /\ info' \in [Actions -> {"none", "claim", "torn", "source"}]
        /\ putback' \in [Rows -> BOOLEAN]
        /\ \A b \in Actions \ {a} : at'[b] = at[b] /\ info'[b] = info[b]
        /\ \A r \in Rows \ {a} : putback'[r] = putback[r]
        /\ \/ /\ at'[a]["source"] # "mine" /\ info'[a] = info[a] /\ putback'[a] = putback[a]
              /\ \A s \in Places \ {"source"} : at'[a][s] = at[a][s]
           \/ /\ a \in Rename /\ at'[a]["target"] # "mine" /\ info'[a] = info[a] /\ putback'[a] = putback[a]
              /\ \A s \in Places \ {"target"} : at'[a][s] = at[a][s]
           \/ /\ at[a]["trash"] # "none" /\ at'[a]["trash"] = "none" /\ putback'[a] = putback[a]
              /\ \A s \in Places \ {"trash"} : at'[a][s] = at[a][s]
           \/ Out("source") /\ putback'[a]
           \/ Out("claim")
    <2>1. /\ "source" \in Places /\ "target" \in Places /\ "claim" \in Places /\ "trash" \in Places
          /\ "none" \in Objects /\ "other" \in Objects
      BY DEF Places, Objects
    <2>2. ASSUME NEW q \in {"source", "claim"}, at[a]["trash"] # "none", at[a][q] = "none",
                 at' = Moved(a, "trash", q)
          PROVE  /\ at' \in [Actions -> [Places -> Objects]] /\ Out(q)
                 /\ \A b \in Actions \ {a} : at'[b] = at[b]
      <3>1. q \in Places /\ q # "trash"
        BY <2>1
      <3> QED BY <1>3, <2>1, <2>2, <3>1, MovedFacts
    <2>3. CASE /\ \E o \in {"other", "none"} : at' = [at EXCEPT ![a]["source"] = o]
               /\ UNCHANGED <<info, putback>>
      <3>1. PICK o \in {"other", "none"} : at' = [at EXCEPT ![a]["source"] = o]
        BY <2>3
      <3>2. at'[a]["source"] # "mine" /\ \A s \in Places \ {"source"} : at'[a][s] = at[a][s]
        BY <1>3, <1>4, <2>1, <3>1
      <3>3. at' \in [Actions -> [Places -> Objects]] /\ \A b \in Actions \ {a} : at'[b] = at[b]
        BY <1>3, <1>4, <2>1, <3>1
      <3> QED BY <1>3, <2>3, <3>2, <3>3 DEF TypeOK, RecordOK
    <2>4. CASE /\ a \in Rename
               /\ at' = [at EXCEPT ![a]["target"] = IF @ = "none" THEN "other" ELSE "none"]
               /\ UNCHANGED <<info, putback>>
      <3>1. at'[a]["target"] # "mine" /\ \A s \in Places \ {"target"} : at'[a][s] = at[a][s]
        BY <1>3, <1>4, <2>1, <2>4
      <3>2. at' \in [Actions -> [Places -> Objects]] /\ \A b \in Actions \ {a} : at'[b] = at[b]
        BY <1>3, <1>4, <2>1, <2>4
      <3> QED BY <1>3, <2>4, <3>1, <3>2 DEF TypeOK, RecordOK
    <2>5. CASE /\ at[a]["trash"] # "none"
               /\ at' = [at EXCEPT ![a]["trash"] = "none"]
               /\ info' = [info EXCEPT ![a] = "none"]
               /\ UNCHANGED putback
      <3>1. at'[a]["trash"] = "none" /\ \A s \in Places \ {"trash"} : at'[a][s] = at[a][s]
        BY <1>3, <1>4, <2>1, <2>5
      <3>2. at' \in [Actions -> [Places -> Objects]] /\ \A b \in Actions \ {a} : at'[b] = at[b]
        BY <1>3, <1>4, <2>1, <2>5
      <3> QED BY <1>3, <2>5, <3>1, <3>2 DEF TypeOK, RecordOK
    <2>6. CASE /\ at[a]["trash"] # "none" /\ info[a] \in Places /\ at[a][info[a]] = "none"
               /\ at' = Moved(a, "trash", info[a])
               /\ info' = [info EXCEPT ![a] = "none"]
               /\ putback' = [putback EXCEPT ![a] = info[a] = "source"]
      <3>1. info[a] \in {"source", "claim"}
        BY <1>3, <2>6 DEF TypeOK, Places
      <3>2. /\ at' \in [Actions -> [Places -> Objects]] /\ Out(info[a])
            /\ \A b \in Actions \ {a} : at'[b] = at[b]
        BY <2>2, <2>6, <3>1
      <3>3. /\ info' \in [Actions -> {"none", "claim", "torn", "source"}]
            /\ \A b \in Actions \ {a} : info'[b] = info[b]
        BY <1>3, <2>6 DEF TypeOK
      <3>4. /\ putback' \in [Rows -> BOOLEAN] /\ \A r \in Rows \ {a} : putback'[r] = putback[r]
            /\ info[a] = "source" => putback'[a]
        BY <1>3, <2>6 DEF RecordOK
      <3> HIDE DEF Out
      <3> QED BY <3>1, <3>2, <3>3, <3>4
    <2>7. CASE /\ at[a]["trash"] # "none" /\ at[a]["source"] = "none"
               /\ at' = Moved(a, "trash", "source")
               /\ putback' = [putback EXCEPT ![a] = TRUE]
               /\ UNCHANGED info
      <3>1. /\ at' \in [Actions -> [Places -> Objects]] /\ Out("source")
            /\ \A b \in Actions \ {a} : at'[b] = at[b]
        BY <2>2, <2>7
      <3>2. /\ putback' \in [Rows -> BOOLEAN] /\ \A r \in Rows \ {a} : putback'[r] = putback[r]
            /\ putback'[a]
        BY <1>3, <2>7 DEF RecordOK
      <3> HIDE DEF Out
      <3> QED BY <1>3, <2>7, <3>1, <3>2 DEF TypeOK
    <2> HIDE DEF Out
    <2> QED BY <1>2, <2>3, <2>4, <2>5, <2>6, <2>7
  <1>6. TypeOK' /\ BatchOK' /\ OpenOK'
    BY <1>1, <1>5 DEF IInv, TypeOK, BatchOK, OpenOK, ledger, owner
  <1>7. /\ \A b \in Trash \ {a} : TrashFilesOK(b)'
        /\ \A b \in Rename \ {a} : RenameFilesOK(b)'
    BY <1>1, <1>5 DEF IInv, FilesOK, TrashFilesOK, RenameFilesOK, Actions, Rows, ledger
  <1>8. a \in Rename => RenameFilesOK(a)'
    <2> SUFFICES ASSUME a \in Rename PROVE RenameFilesOK(a)'
      OBVIOUS
    <2>1. RenameFilesOK(a) /\ took' = took
      BY <1>1 DEF IInv, FilesOK
    <2> QED BY <1>5, <2>1 DEF RenameFilesOK, Places
  <1>9. a \in Trash => TrashFilesOK(a)'
    <2> SUFFICES ASSUME a \in Trash PROVE TrashFilesOK(a)'
      OBVIOUS
    <2>1. TrashFilesOK(a) /\ took' = took /\ status' = status /\ kio' = kio /\ a \notin Rename
      BY <1>1 DEF IInv, FilesOK, ledger
    <2>2. CASE Out("source") /\ putback'[a]
      BY <2>1, <2>2 DEF TrashFilesOK, Places
    <2>3. CASE Out("claim")
      BY <2>1, <2>3 DEF TrashFilesOK, Places
    <2>4. CASE /\ at[a]["trash"] # "none" /\ at'[a]["trash"] = "none" /\ putback'[a] = putback[a]
               /\ \A s \in Places \ {"trash"} : at'[a][s] = at[a][s]
      BY <2>1, <2>4 DEF TrashFilesOK, Places
    <2>5. CASE /\ at'[a]["source"] # "mine" /\ info'[a] = info[a] /\ putback'[a] = putback[a]
               /\ \A s \in Places \ {"source"} : at'[a][s] = at[a][s]
      BY <2>1, <2>5 DEF TrashFilesOK, Places
    <2> QED BY <1>5, <2>1, <2>2, <2>3, <2>4, <2>5
  <1>10. FilesOK'
    BY <1>7, <1>8, <1>9 DEF FilesOK
  <1>11. ASSUME NEW r \in Rows
         PROVE  /\ Intact(r) => Intact(r)'
                /\ Backed(r) => Backed(r)'
    <2>1. CASE r # a
      BY <1>1, <1>5, <2>1 DEF Intact, Backed, Actions
    <2>2. CASE r = a /\ r \notin Trash
      BY <1>1, <2>2 DEF Intact, Backed
    <2>3. CASE r = a /\ r \in Trash
      <3>1. /\ TrashFilesOK(a) /\ took' = took /\ kio' = kio /\ a \notin Rename
        BY <1>1, <2>3 DEF IInv, FilesOK
      <3>2. at'[a]["trash"] # "none" => at'[a]["trash"] = at[a]["trash"] /\ info'[a] = info[a]
        BY <1>5, <3>1 DEF Places
      <3>3. Intact(a) /\ took[a] # <<>> => /\ at[a]["trash"] = "none" /\ putback'[a] = putback[a]
                                           /\ at'[a]["claim"] = at[a]["claim"]
                                           /\ at'[a]["trash"] = at[a]["trash"]
        BY <1>5, <3>1 DEF Places, Intact
      <3> QED BY <2>3, <3>1, <3>2, <3>3 DEF Intact, Backed
    <2> QED BY <2>1, <2>2, <2>3
  <1>12. StatusOK'
    BY <1>1, <1>11 DEF IInv, StatusOK, ledger
  <1>13. \A r \in batch : HandOK(r)'
    <2> SUFFICES ASSUME NEW r \in batch PROVE HandOK(r)'
      OBVIOUS
    <2>1. r \in Rows /\ HandOK(r) /\ (pc = "claim" => r \in Trash /\ r \in Actions)
      BY DEF IInv, TypeOK, BatchOK, OfTrash, Calling, Actions
    <2>2. pc = "claim" /\ at[r]["claim"] = "mine" => at'[r]["claim"] = "mine"
      BY <1>5, <2>1 DEF Places
    <2> QED BY <1>1, <1>11, <2>1, <2>2 DEF HandOK, CallOK, ledger, owner
  <1> QED BY <1>1, <1>3, <1>5, <1>6, <1>10, <1>12, <1>13, EffectStep DEF RecordOK, owner

\* What the classifier says of a row under examination is true when it says it.
LEMMA ClassifyFacts ==
  ASSUME IInv, NEW r \in Rows, status[r] \in {"applying", "recovery_required"}
  PROVE  /\ Classify(r) \in {"confirmed", "not_performed", "ambiguous"}
         /\ r \in Actions /\ Classify(r) = "not_performed" => ~Displaced(r)
         /\ r \in Actions /\ Classify(r) = "confirmed" => r \in Rename /\ took[r] = <<"mine">>
  <1> USE RowKinds
  <1>1. r \in Restores => Classify(r) = ClassifyRestore(Subject(r))
    BY DEF Classify, Actions
  <1>2. r \in Trash => r \notin Restores /\ Classify(r) = ClassifyTrash(r)
    BY DEF Classify, Actions
  <1>3. r \in Rename => r \notin Restores /\ r \notin Trash /\ Classify(r) = ClassifyMove(r)
    BY DEF Classify, Actions
  <1>4. ASSUME NEW a, NEW p
        PROVE  /\ Observed(a, p) \in {"expected", "different", "missing"}
               /\ Observed(a, p) = "expected" => at[a][p] = "mine"
    BY DEF Observed
  <1>5. r \in Trash => /\ Classify(r) \in {"not_performed", "ambiguous"}
                       /\ Classify(r) = "not_performed" => at[r]["source"] = "mine"
    <2>1. ~receipt[r]
      BY DEF IInv, TypeOK
    <2> QED BY <1>2, <1>4, <2>1 DEF ClassifyTrash
  <1>6. r \in Rename => /\ Classify(r) \in {"confirmed", "not_performed", "ambiguous"}
                        /\ Classify(r) = "not_performed" => at[r]["source"] = "mine"
                        /\ Classify(r) = "confirmed" => at[r]["target"] = "mine"
    BY <1>3, <1>4 DEF ClassifyMove
  <1>7. r \in Restores => Classify(r) \in {"confirmed", "not_performed", "ambiguous"}
    BY <1>1 DEF ClassifyRestore
  <1>8. r \in Trash /\ at[r]["source"] = "mine" => ~Displaced(r)
    BY DEF IInv, FilesOK, TrashFilesOK, Displaced
  <1>9. r \in Rename => /\ at[r]["source"] = "mine" => ~Displaced(r)
                        /\ at[r]["target"] = "mine" => took[r] = <<"mine">>
    BY DEF IInv, FilesOK, RenameFilesOK, Displaced
  <1>10. (r \in Trash \/ r \in Rename \/ r \in Restores) /\ (r \in Actions => r \in Trash \/ r \in Rename)
    BY DEF Rows, Actions
  <1> QED BY <1>5, <1>6, <1>7, <1>8, <1>9, <1>10

\* A step of a recorder touches nothing but its record.
LEMMA RecorderStep ==
  ASSUME IInv, UNCHANGED <<ledger, files, owner, history, bounds, clean>>,
         seen' \in [Recorders -> SUBSET Event], events' \in [Rows -> Seq(Event)],
         answer' \in [Recorders -> SUBSET [event : Event, recorded : BOOLEAN]],
         \A r \in Rows : \A i \in DOMAIN events'[r] : events'[r][i].row = r,
         \A c \in Recorders : \A e \in seen'[c] : VerdictOK(e),
         \A r \in Rows : \A i \in DOMAIN events'[r] : VerdictOK(events'[r][i]),
         AnswersOK'
  PROVE  IInv'
  <1>1. TypeOK' /\ BatchOK' /\ OpenOK'
    BY DEF IInv, TypeOK, BatchOK, OpenOK, ledger, files, owner, bounds
  <1>2. FilesOK' /\ StatusOK'
    BY DEF IInv, FilesOK, TrashFilesOK, RenameFilesOK, StatusOK, Intact, Backed, ledger, files, history
  <1>3. \A r \in batch' : HandOK(r)'
    BY DEF IInv, HandOK, CallOK, Intact, Backed, ledger, files, history, owner
  <1>4. RecordOK'
    BY DEF IInv, RecordOK, history
  <1>5. VerdictsOK'
    <2>1. ASSUME NEW e, VerdictOK(e) PROVE VerdictOK(e)'
      BY <2>1 DEF VerdictOK, Live, ledger, history, owner
    <2> QED BY <2>1 DEF VerdictsOK
  <1> QED BY <1>1, <1>2, <1>3, <1>4, <1>5 DEF IInv

LEMMA ObserveStep ==
  ASSUME IInv, NEW c \in Recorders, Observe(c)
  PROVE  IInv'
  <1>1. PICK r \in Rows :
          /\ status[r] \in {"applying", "recovery_required"}
          /\ \E class \in {Classify(r), "impossible_to_check"}, prev \in 0..Len(events[r]) :
               seen' = [seen EXCEPT ![c] =
                 {[row |-> r, action_status |-> status[r], class |-> class, previous |-> prev,
                   actor |-> c, live |-> Live(r), displaced |-> Displaced(r),
                   effects |-> Len(took[r])]}]
    BY DEF Observe
  <1>2. PICK class \in {Classify(r), "impossible_to_check"}, prev \in 0..Len(events[r]) :
               seen' = [seen EXCEPT ![c] =
                 {[row |-> r, action_status |-> status[r], class |-> class, previous |-> prev,
                   actor |-> c, live |-> Live(r), displaced |-> Displaced(r),
                   effects |-> Len(took[r])]}]
    BY <1>1
  <1> DEFINE e == [row |-> r, action_status |-> status[r], class |-> class, previous |-> prev,
                   actor |-> c, live |-> Live(r), displaced |-> Displaced(r),
                   effects |-> Len(took[r])]
  <1>3. /\ UNCHANGED <<ledger, files, owner, history, bounds, clean>> /\ UNCHANGED events
        /\ answer' = [answer EXCEPT ![c] = {}]
    BY DEF Observe
  <1>4. /\ Classify(r) \in {"confirmed", "not_performed", "ambiguous"}
        /\ r \in Actions /\ Classify(r) = "not_performed" => ~Displaced(r)
        /\ r \in Actions /\ Classify(r) = "confirmed" => r \in Rename /\ took[r] = <<"mine">>
    BY <1>1, ClassifyFacts
  <1>5. e \in Event
    <2>1. prev \in Nat /\ Len(took[r]) \in Nat
      <3>1. events[r] \in Seq(Event) /\ took[r] \in Taken
        BY DEF IInv, RecordOK
      <3>2. Len(events[r]) \in Nat
        BY <3>1, LenProperties
      <3>3. Len(took[r]) \in Nat
        BY <3>1 DEF Taken
      <3> QED BY <1>2, <3>2, <3>3
    <2>2. Live(r) \in BOOLEAN /\ Displaced(r) \in BOOLEAN /\ status[r] \in Statuses
      BY DEF Live, Displaced, IInv, TypeOK
    <2>3. class \in {"confirmed", "not_performed", "ambiguous", "impossible_to_check"}
      BY <1>2, <1>4
    <2> QED BY <2>1, <2>2, <2>3 DEF Event
  <1>6. VerdictOK(e)
    <2>1. e.row = r /\ e.class = class /\ e.live = Live(r) /\ e.displaced = Displaced(r)
          /\ e.effects = Len(took[r])
      OBVIOUS
    <2>2. class = Classify(r) \/ class = "impossible_to_check"
      BY <1>2
    <2>3. status[r] # "absent"
      BY <1>1
    <2> HIDE DEF e
    <2> QED BY <1>4, <2>1, <2>2, <2>3 DEF VerdictOK
  <1> HIDE DEF e
  <1>7. seen' = [seen EXCEPT ![c] = {e}]
    BY <1>2 DEF e
  <1>8. /\ seen' \in [Recorders -> SUBSET Event]
        /\ \A d \in Recorders : \A f \in seen'[d] : f = e \/ f \in seen[d]
    BY <1>5, <1>7 DEF IInv, RecordOK
  <1>9. \A d \in Recorders : \A f \in seen'[d] : VerdictOK(f)
    BY <1>6, <1>8 DEF IInv, VerdictsOK
  <1>10. AnswersOK'
    <2>1. Known(e)
      <3>1. e.row = r /\ e.action_status = status[r] /\ e.previous = prev
        BY DEF e
      <3>2. events[r] \in Seq(Event) /\ prev <= Len(events[r])
        BY <1>2 DEF IInv, RecordOK
      <3> QED BY <1>1, <3>1, <3>2 DEF Known
    <2>2. UNCHANGED <<status, events>>
      BY <1>3 DEF ledger
    <2>3. \A f : Known(f)' <=> Known(f)
      BY <2>2 DEF Known
    <2>4. \A x : Answered(x)' <=> Answered(x)
      BY <2>2 DEF Answered, Copies, Current
    <2>5. \A d \in Recorders : answer'[d] \subseteq answer[d]
      BY <1>3 DEF IInv, RecordOK
    <2>6. \A d \in Recorders : \A f \in seen'[d] : Known(f)
      BY <1>8, <2>1 DEF IInv, AnswersOK
    <2>7. Chained'
      BY <2>2 DEF IInv, AnswersOK, Chained
    <2> QED BY <2>3, <2>4, <2>5, <2>6, <2>7 DEF IInv, AnswersOK
  <1>12. answer' \in [Recorders -> SUBSET [event : Event, recorded : BOOLEAN]]
    BY <1>3 DEF IInv, RecordOK
  <1>11. /\ events' \in [Rows -> Seq(Event)]
         /\ \A q \in Rows : \A i \in DOMAIN events'[q] : events'[q][i].row = q
         /\ \A q \in Rows : \A i \in DOMAIN events'[q] : VerdictOK(events'[q][i])
    BY <1>3 DEF IInv, RecordOK, VerdictsOK
  <1> QED BY <1>3, <1>8, <1>9, <1>10, <1>11, <1>12, RecorderStep

\* An event at the end of a chain is found by the requests it is like, and by no
\* request that met a conflict.
LEMMA AppendFacts ==
  ASSUME IInv, NEW e \in Event, Known(e), Current(e), UNCHANGED status,
         events' = [events EXCEPT ![e.row] = Append(@, e)]
  PROVE  /\ events' \in [Rows -> Seq(Event)]
         /\ \A r \in Rows : \A i \in DOMAIN events'[r] :
              \/ i \in DOMAIN events[r] /\ events'[r][i] = events[r][i]
              \/ r = e.row /\ events'[r][i] = e /\ e.previous = i - 1
         /\ Chained' /\ Copies(e)' # {}
         /\ \A f \in Event : Known(f) => Known(f)'
         /\ \A x \in [event : Event, recorded : BOOLEAN] :
              Known(x.event) /\ Answered(x) => Answered(x)'
  <1> DEFINE r == e.row
             n == Len(events[r])
  <1>1. r \in Rows /\ events[r] \in Seq(Event) /\ n \in Nat /\ e.previous = n /\ e.row = r
    BY LenProperties DEF IInv, RecordOK, Current, Event
  <1>2. /\ events'[r] = Append(events[r], e)
        /\ \A q \in Rows \ {r} : events'[q] = events[q]
        /\ events' \in [Rows -> Seq(Event)]
    BY <1>1, AppendProperties DEF IInv, RecordOK
  <1>3. /\ DOMAIN events[r] = 1..n /\ DOMAIN events'[r] = 1..(n + 1) /\ Len(events'[r]) = n + 1
        /\ \A i \in 1..n : events'[r][i] = events[r][i]
        /\ events'[r][n + 1] = e
    BY <1>1, <1>2, AppendProperties, LenProperties
  <1> HIDE DEF r, n
  <1>4. \A q \in Rows : \A i \in DOMAIN events'[q] :
          \/ i \in DOMAIN events[q] /\ events'[q][i] = events[q][i]
          \/ q = r /\ i = n + 1 /\ events'[q][i] = e /\ e.previous = i - 1
    <2> SUFFICES ASSUME NEW q \in Rows, NEW i \in DOMAIN events'[q]
                 PROVE  \/ i \in DOMAIN events[q] /\ events'[q][i] = events[q][i]
                        \/ q = r /\ i = n + 1 /\ events'[q][i] = e /\ e.previous = i - 1
      OBVIOUS
    <2>1. CASE q # r
      BY <1>2, <2>1
    <2>2. CASE q = r
      <3>1. i \in 1..n \/ i = n + 1
        BY <1>1, <1>3, <2>2
      <3> QED BY <1>1, <1>3, <2>2, <3>1
    <2> QED BY <2>1, <2>2
  <1>5. Chained'
    BY <1>4 DEF IInv, AnswersOK, Chained
  <1>6. \A q \in Rows : \A i \in DOMAIN events[q] : i \in DOMAIN events'[q] /\ events'[q][i] = events[q][i]
    <2> SUFFICES ASSUME NEW q \in Rows, NEW i \in DOMAIN events[q]
                 PROVE  i \in DOMAIN events'[q] /\ events'[q][i] = events[q][i]
      OBVIOUS
    <2>1. CASE q # r
      BY <1>2, <2>1
    <2>2. CASE q = r
      <3>1. i \in 1..n /\ i \in 1..(n + 1)
        BY <1>1, <1>3, <2>2
      <3> QED BY <1>3, <2>2, <3>1
    <2> QED BY <2>1, <2>2
  <1>7. Copies(e)' # {}
    <2>1. n + 1 \in DOMAIN events'[e.row] /\ events'[e.row][n + 1] = e
      BY <1>1, <1>3
    <2> QED BY <2>1 DEF Copies
  <1>8. ASSUME NEW f \in Event, Known(f) PROVE Known(f)'
    <2>1. f.row \in Rows /\ f.previous \in Nat
      BY DEF Event
    <2>2. f.previous <= Len(events'[f.row])
      <3>1. CASE f.row = r
        <4>1. f.previous <= n
          BY <1>8, <3>1 DEF Known, n
        <4> QED BY <1>1, <1>3, <2>1, <3>1, <4>1
      <3>2. CASE f.row # r
        BY <1>2, <1>8, <2>1, <3>2 DEF Known
      <3> QED BY <3>1, <3>2
    <2> QED BY <1>8, <2>2 DEF Known
  <1>9. ASSUME NEW x \in [event : Event, recorded : BOOLEAN], Known(x.event), Answered(x)
        PROVE  Answered(x)'
    <2> DEFINE f == x.event
    <2>1. f \in Event /\ f.row \in Rows /\ f.previous \in Nat
      BY DEF Event
    <2> HIDE DEF f
    <2>2. Copies(f) # {} => Copies(f)' # {}
      BY <1>6, <2>1 DEF Copies
    <2>3. ASSUME ~Current(f) PROVE ~Current(f)'
      <3>1. CASE status[f.row] # f.action_status
        BY <3>1 DEF Current
      <3>2. CASE Len(events[f.row]) # f.previous
        <4>1. f.previous <= Len(events[f.row])
          BY <1>9 DEF Known, f
        <4>2. CASE f.row = r
          <5>1. n # f.previous /\ f.previous <= n
            BY <3>2, <4>1, <4>2 DEF n
          <5>2. Len(events'[f.row]) # f.previous
            BY <1>1, <1>3, <2>1, <4>2, <5>1
          <5> QED BY <5>2 DEF Current
        <4>3. CASE f.row # r
          BY <1>2, <2>1, <3>2, <4>3 DEF Current
        <4> QED BY <4>2, <4>3
      <3> QED BY <2>3, <3>1, <3>2 DEF Current
    <2>4. ASSUME ~Current(f), Copies(f) = {} PROVE Copies(f)' = {}
      <3>1. ASSUME NEW i \in DOMAIN events'[f.row], Request(events'[f.row][i]) = Request(f)
            PROVE  FALSE
        <4>1. CASE i \in DOMAIN events[f.row] /\ events'[f.row][i] = events[f.row][i]
          BY <2>4, <3>1, <4>1 DEF Copies
        <4>2. CASE events'[f.row][i] = e
          <5>1. e.row = f.row /\ e.action_status = f.action_status /\ e.previous = f.previous
            BY <3>1, <4>2 DEF Request
          <5> QED BY <2>4, <5>1 DEF Current
        <4> QED BY <1>4, <2>1, <3>1, <4>1, <4>2
      <3> QED BY <3>1 DEF Copies
    <2> QED BY <1>9, <2>2, <2>3, <2>4 DEF Answered, f
  <1> QED BY <1>2, <1>4, <1>5, <1>7, <1>8, <1>9 DEF r

LEMMA RecordStep ==
  ASSUME IInv, NEW c \in Recorders, Record(c)
  PROVE  IInv'
  <1>1. PICK e \in seen[c] :
       /\ events' = IF Copies(e) = {} /\ Current(e)
                    THEN [events EXCEPT ![e.row] = Append(@, e)]
                    ELSE events
       /\ \/ /\ seen' = [seen EXCEPT ![c] = {}]
             /\ answer' = [answer EXCEPT ![c] =
                  {[event |-> e, recorded |-> Copies(e) # {} \/ Current(e)]}]
          \/ UNCHANGED <<seen, answer>>
    BY DEF Record
  <1>2. UNCHANGED <<ledger, files, owner, history, bounds, clean>> /\ UNCHANGED status
    BY DEF Record, ledger
  <1>3. e \in Event /\ VerdictOK(e) /\ Known(e)
    BY <1>1 DEF IInv, RecordOK, VerdictsOK, AnswersOK
  <1>4. /\ seen' \in [Recorders -> SUBSET Event]
        /\ \A d \in Recorders : seen'[d] \subseteq seen[d]
    BY <1>1 DEF IInv, RecordOK
  <1>5. \A d \in Recorders : \A f \in seen'[d] : VerdictOK(f)
    BY <1>4 DEF IInv, VerdictsOK
  <1>6. PICK x \in [event : Event, recorded : BOOLEAN] :
          /\ x.event = e /\ (x.recorded <=> Copies(e) # {} \/ Current(e))
          /\ answer' = [answer EXCEPT ![c] = {x}] \/ answer' = answer
    <2> DEFINE yes == Copies(e) # {} \/ Current(e)
               w == [event |-> e, recorded |-> yes]
    <2>1. yes \in BOOLEAN
      OBVIOUS
    <2>2. answer' = [answer EXCEPT ![c] = {w}] \/ answer' = answer
      BY <1>1, Zenon
    <2> HIDE DEF yes
    <2>3. w \in [event : Event, recorded : BOOLEAN] /\ w.event = e /\ w.recorded = yes
      BY <1>3, <2>1
    <2>4. w.recorded <=> Copies(e) # {} \/ Current(e)
      BY <2>1, <2>3 DEF yes
    <2> HIDE DEF w
    <2> QED BY <2>2, <2>3, <2>4
  <1>7. /\ answer' \in [Recorders -> SUBSET [event : Event, recorded : BOOLEAN]]
        /\ \A d \in Recorders : \A y \in answer'[d] : y = x \/ y \in answer[d]
    <2>1. answer \in [Recorders -> SUBSET [event : Event, recorded : BOOLEAN]]
      BY DEF IInv, RecordOK
    <2> DEFINE A == [event : Event, recorded : BOOLEAN]
    <2>2. x \in A /\ answer \in [Recorders -> SUBSET A]
      BY <2>1
    <2> HIDE DEF A
    <2>3. /\ answer' \in [Recorders -> SUBSET A]
          /\ \A d \in Recorders : \A y \in answer'[d] : y = x \/ y \in answer[d]
      BY <1>6, <2>2
    <2> QED BY <2>3 DEF A
  <1>8. \A d \in Recorders : \A y \in answer[d] :
           y \in [event : Event, recorded : BOOLEAN] /\ Known(y.event) /\ Answered(y)
    BY DEF IInv, RecordOK, AnswersOK
  <1>9. CASE UNCHANGED events /\ (Copies(e) # {} \/ ~Current(e))
    <2>1. /\ \A f : Known(f)' <=> Known(f)
          /\ \A y : Answered(y)' <=> Answered(y)
      BY <1>2, <1>9 DEF Known, Answered, Copies, Current
    <2>2. Answered(x)
      BY <1>6, <1>9 DEF Answered
    <2>3. AnswersOK'
      <3>1. Chained'
        BY <1>9 DEF IInv, AnswersOK, Chained
      <3>2. \A d \in Recorders : \A f \in seen'[d] : Known(f)'
        BY <1>4, <2>1 DEF IInv, AnswersOK
      <3>3. \A d \in Recorders : \A y \in answer'[d] : Known(y.event)' /\ Answered(y)'
        BY <1>3, <1>6, <1>7, <1>8, <2>1, <2>2
      <3> QED BY <3>1, <3>2, <3>3 DEF AnswersOK
    <2>4. /\ events' \in [Rows -> Seq(Event)]
          /\ \A q \in Rows : \A i \in DOMAIN events'[q] : events'[q][i].row = q
          /\ \A q \in Rows : \A i \in DOMAIN events'[q] : VerdictOK(events'[q][i])
      BY <1>9 DEF IInv, RecordOK, VerdictsOK
    <2> QED BY <1>2, <1>4, <1>5, <1>7, <2>3, <2>4, RecorderStep
  <1>10. CASE Current(e) /\ events' = [events EXCEPT ![e.row] = Append(@, e)]
    <2>1. /\ events' \in [Rows -> Seq(Event)]
          /\ \A q \in Rows : \A i \in DOMAIN events'[q] :
               \/ i \in DOMAIN events[q] /\ events'[q][i] = events[q][i]
               \/ q = e.row /\ events'[q][i] = e /\ e.previous = i - 1
          /\ Chained' /\ Copies(e)' # {}
          /\ \A f \in Event : Known(f) => Known(f)'
          /\ \A y \in [event : Event, recorded : BOOLEAN] :
               Known(y.event) /\ Answered(y) => Answered(y)'
      BY <1>2, <1>3, <1>10, AppendFacts
    <2>2. Answered(x)'
      BY <1>6, <1>10, <2>1 DEF Answered
    <2>3. AnswersOK'
      <3>1. \A d \in Recorders : \A f \in seen'[d] : Known(f)'
        BY <1>4, <2>1 DEF IInv, RecordOK, AnswersOK
      <3>2. \A d \in Recorders : \A y \in answer'[d] : Known(y.event)' /\ Answered(y)'
        <4>1. Known(x.event)'
          BY <1>3, <1>6, <2>1
        <4>2. \A d \in Recorders : \A y \in answer[d] : Known(y.event)' /\ Answered(y)'
          BY <1>8, <2>1
        <4> QED BY <1>7, <2>2, <4>1, <4>2
      <3> QED BY <2>1, <3>1, <3>2 DEF AnswersOK
    <2>4. /\ \A q \in Rows : \A i \in DOMAIN events'[q] : events'[q][i].row = q
          /\ \A q \in Rows : \A i \in DOMAIN events'[q] : VerdictOK(events'[q][i])
      <3> SUFFICES ASSUME NEW q \in Rows, NEW i \in DOMAIN events'[q]
                   PROVE  events'[q][i].row = q /\ VerdictOK(events'[q][i])
        OBVIOUS
      <3>1. CASE i \in DOMAIN events[q] /\ events'[q][i] = events[q][i]
        BY <3>1 DEF IInv, RecordOK, VerdictsOK
      <3>2. CASE q = e.row /\ events'[q][i] = e
        BY <1>3, <3>2
      <3> QED BY <2>1, <3>1, <3>2
    <2> QED BY <1>2, <1>4, <1>5, <1>7, <2>1, <2>3, <2>4, RecorderStep
  <1> QED BY <1>1, <1>9, <1>10

-----------------------------------------------------------------------------
(* The theorems. *)

LEMMA InitIInv == Init => IInv
  <1> SUFFICES ASSUME Init PROVE IInv
    OBVIOUS
  <1> USE RowKinds
  <1>1. TypeOK
    BY DEF Init, TypeOK, Statuses, Places, Objects, Steps
  <1>2. RecordOK /\ VerdictsOK /\ AnswersOK
    BY DEF Init, RecordOK, VerdictsOK, AnswersOK, Chained, Taken
  <1>3. BatchOK /\ OpenOK
    BY DEF Init, BatchOK, OpenOK, OfTrash, OfRename, OfRestore, Before, Calling
  <1>4. FilesOK
    BY DEF Init, FilesOK, TrashFilesOK, RenameFilesOK, Actions, Rows, Places
  <1>5. StatusOK
    BY DEF Init, StatusOK
  <1> QED BY <1>1, <1>2, <1>3, <1>4, <1>5 DEF IInv, Init

LEMMA NextIInv == IInv /\ [Next]_vars => IInv'
  <1> SUFFICES ASSUME IInv, [Next]_vars PROVE IInv'
    OBVIOUS
  <1>1. CASE BeginTrash
    <2>1. PICK S \in SUBSET (plan \cap Trash) \ {{}} : Begin(S) /\ Goto("begun", S)
      BY <1>1 DEF BeginTrash
    <2>2. S \subseteq Trash /\ S \in SUBSET Rows
      BY <2>1 DEF Rows, Actions
    <2> QED BY <2>1, <2>2, BeginStep
  <1>2. CASE BeginRename
    <2>1. PICK a \in plan \cap Rename : Begin({a}) /\ Goto("rename", {a})
      BY <1>2 DEF BeginRename
    <2>2. a \in Rename /\ {a} \in SUBSET Rows
      BY <2>1 DEF Rows, Actions
    <2> DEFINE S == {a}
    <2>3. S \in SUBSET Rows /\ Begin(S) /\ (\E b \in Rename : S = {b}) /\ Goto("rename", S)
      BY <2>1, <2>2
    <2> HIDE DEF S
    <2> QED BY <2>3, BeginStep
  <1>3. CASE \/ Plan \/ Apply \/ Check \/ Checked \/ Uninvoked \/ Mark
             \/ NextChunk \/ Admit \/ Admitted \/ Claim
    BY <1>3, PlanStep, ApplyStep, CheckStep, CheckedStep, UninvokedStep, MarkStep,
       NextChunkStep, AdmitStep, AdmittedStep, ClaimStep
  <1>4. CASE Invoke \/ KioReturns \/ KioMove \/ KioFail \/ Unclaim \/ Split \/ Verify \/ Rewrite
    BY <1>4, InvokeStep, KioReturnsStep, KioMoveStep, KioFailStep, UnclaimStep, SplitStep,
       VerifyStep, RewriteStep
  <1>5. CASE Unclaimed \/ AllVerified \/ Persist \/ Persisted \/ Confirm
    BY <1>5, UnclaimedStep, PersistStep, PersistedStep, ConfirmStep
  <1>6. CASE RenameCheck \/ RenameMove \/ RenameLook \/ RenameSettle
    BY <1>6, RenameCheckStep, RenameMoveStep, RenameLookStep, RenameSettleStep
  <1>7. CASE RestoreOne
    BY <1>7, RestoreBeginStep, RestoreMarkStep, RestoreMoveStep, RestoreUnlinkStep, RestoreSettleStep
       DEF RestoreOne
  <1>8. CASE Crash \/ Abandoned \/ User
    BY <1>8, CrashStep, AbandonedStep, UserStep
  <1>9. CASE \E c \in Recorders : Observe(c) \/ Record(c)
    BY <1>9, ObserveStep, RecordStep
  <1>10. CASE UNCHANGED vars
    <2>1. UNCHANGED <<ledger, files, owner, history, bounds, clean, seen, events, answer>>
      BY <1>10 DEF vars, record
    <2>2. AnswersOK'
      BY <2>1 DEF IInv, AnswersOK, Chained, Known, Answered, Copies, Current, ledger
    <2> QED BY <2>1, <2>2, RecorderStep DEF IInv, RecordOK, VerdictsOK
  <1> QED BY <1>1, <1>2, <1>3, <1>4, <1>5, <1>6, <1>7, <1>8, <1>9, <1>10
     DEF Next, System, TrashBatch, RenameOne

\* The user's moves are counted.
LEMMA MovesCounted == Spec => [](moves \in Nat)
  <1> DEFINE M == moves \in Nat
  <1>1. Init => M
    BY DEF Init
  <1>2. M /\ [Next]_vars => M'
    <2> SUFFICES ASSUME M, [Next]_vars PROVE M'
      OBVIOUS
    <2>1. CASE TrashBatch
      BY <2>1 DEF TrashBatch, BeginTrash, Begin, Plan, Apply, Check, Checked, Uninvoked, Mark,
                  NextChunk, Admit, Admitted, Claim, Invoke, KioReturns, Unclaim, Unclaimed, Split,
                  Verify, Rewrite, AllVerified, Persist, Persisted, Confirm, bounds
    <2>2. CASE RenameOne \/ RestoreOne
      BY <2>2 DEF RenameOne, BeginRename, Begin, RenameCheck, RenameMove, RenameLook, RenameSettle,
                  RestoreOne, RestoreBegin, RestoreMark, RestoreMove, RestoreUnlink, RestoreSettle, bounds
    <2>3. CASE KioMove \/ KioFail \/ Crash \/ Abandoned \/ User
      BY <2>3 DEF KioMove, KioFail, Crash, Abandoned, User, bounds
    <2>4. CASE \E c \in Recorders : Observe(c) \/ Record(c)
      BY <2>4 DEF Observe, Record, bounds
    <2>5. CASE UNCHANGED vars
      BY <2>5 DEF vars, bounds
    <2> QED BY <2>1, <2>2, <2>3, <2>4, <2>5 DEF Next, System
  <1> QED BY <1>1, <1>2, PTL DEF Spec

\* How many places of an action hold the object o.
CountAt(f, o) == Cardinality({s \in Places : f[s] = o})

\* A move into an empty place keeps the number of copies of every object.
LEMMA MoveCount ==
  ASSUME NEW f \in [Places -> Objects], NEW g \in [Places -> Objects],
         NEW p \in Places, NEW q \in Places, p # q,
         f[q] = "none", g[q] = f[p], g[p] = "none",
         \A s \in Places \ {p, q} : g[s] = f[s],
         NEW o, o # "none"
  PROVE  CountAt(g, o) = CountAt(f, o)
  <1> DEFINE F == {s \in Places : f[s] = o}
             G == {s \in Places : g[s] = o}
  <1>1. IsFiniteSet(Places)
    <2>1. IsFiniteSet({"source"} \cup {"target"} \cup {"claim"} \cup {"trash"})
      BY FS_Singleton, FS_Union
    <2> QED BY <2>1 DEF Places
  <1>2. IsFiniteSet(F) /\ F \subseteq Places /\ q \notin F
    BY <1>1, FS_Subset
  <1>3. CASE f[p] # o
    <2>1. F = G
      BY <1>3
    <2> QED BY <2>1 DEF CountAt
  <1>4. CASE f[p] = o
    <2>1. p \in F /\ G = (F \ {p}) \cup {q} /\ q \notin F \ {p}
      BY <1>4
    <2> HIDE DEF F, G
    <2>2. IsFiniteSet(F \ {p}) /\ Cardinality(F \ {p}) = Cardinality(F) - 1
      BY <1>2, <2>1, FS_RemoveElement
    <2>3. Cardinality((F \ {p}) \cup {q}) = Cardinality(F \ {p}) + 1
      BY <2>1, <2>2, FS_AddElement
    <2>4. Cardinality(F) \in Nat
      BY <1>2, FS_CardinalityType
    <2>5. Cardinality(G) = Cardinality(F)
      BY <2>1, <2>2, <2>3, <2>4
    <2> QED BY <2>5 DEF F, G, CountAt
  <1> QED BY <1>3, <1>4

\* Whatever the code and KIO move, they move it to an empty place.
LEMMA OnlyEmptyPlaces ==
  ASSUME IInv, [Next]_vars, moves \in Nat, moves' = moves
  PROVE  \/ UNCHANGED at
         \/ \E a \in Actions, p \in Places, q \in Places :
              p # q /\ at[a][q] = "none" /\ at' = Moved(a, p, q)
  <1> USE RowKinds
  <1>1. "source" \in Places /\ "target" \in Places /\ "claim" \in Places /\ "trash" \in Places
    BY DEF Places
  <1>2. CASE \/ BeginTrash \/ Plan \/ Apply \/ Check \/ Checked \/ Uninvoked \/ Mark \/ NextChunk
             \/ Admit \/ Admitted \/ Invoke \/ KioReturns \/ Unclaimed \/ Split \/ Verify
             \/ Rewrite \/ AllVerified \/ Persist \/ Persisted \/ Confirm
    BY <1>2 DEF BeginTrash, Begin, Plan, Apply, Check, Checked, Uninvoked, Mark, NextChunk, Admit,
                Admitted, Invoke, KioReturns, Unclaimed, Split, Verify, Rewrite, AllVerified, Persist,
                Persisted, Confirm, files
  <1>3. CASE \/ BeginRename \/ RenameCheck \/ RenameLook \/ RenameSettle
             \/ RestoreBegin \/ RestoreMark \/ RestoreUnlink \/ RestoreSettle
    BY <1>3 DEF BeginRename, Begin, RenameCheck, RenameLook, RenameSettle, RestoreBegin, RestoreMark,
                RestoreUnlink, RestoreSettle, files
  <1>4. CASE KioFail \/ Crash \/ Abandoned \/ (\E c \in Recorders : Observe(c) \/ Record(c)) \/ UNCHANGED vars
    BY <1>4 DEF KioFail, Crash, Abandoned, Observe, Record, vars, files
  <1>5. CASE User
    BY <1>5 DEF User
  <1>6. CASE Claim
    <2>1. PICK a \in todo : at' = Moved(a, "source", "claim") \/ UNCHANGED at
      BY <1>6 DEF Claim
    <2>2. pc = "claim" /\ a \in batch /\ a \in Trash /\ a \in Actions /\ a \in todo
      BY <1>6, <2>1 DEF Claim, IInv, TypeOK, BatchOK, OfTrash, Calling, Actions
    <2>3. took[a] = <<>> /\ TrashFilesOK(a)
      BY <2>2 DEF IInv, HandOK, CallOK, Calling, FilesOK
    <2>4. at[a]["claim"] = "none"
      BY <2>3 DEF TrashFilesOK
    <2> QED BY <1>1, <2>1, <2>2, <2>4
  <1>7. CASE KioMove
    <2>1. PICK a \in Trash : at[a]["trash"] = "none" /\ at' = Moved(a, "claim", "trash")
      BY <1>7 DEF KioMove
    <2> QED BY <1>1, <2>1 DEF Actions
  <1>8. CASE Unclaim
    <2>1. PICK a \in todo : UNCHANGED at \/ (at[a]["source"] = "none" /\ at' = Moved(a, "claim", "source"))
      BY <1>8 DEF Unclaim, files
    <2>2. a \in Actions
      BY <1>8, <2>1 DEF Unclaim, IInv, TypeOK, BatchOK, OfTrash, Calling, Actions
    <2> QED BY <1>1, <2>1, <2>2
  <1>9. CASE RenameMove
    <2>1. PICK a \in batch : UNCHANGED at \/ (at[a]["target"] = "none" /\ at' = Moved(a, "source", "target"))
      BY <1>9 DEF RenameMove
    <2>2. a \in Actions
      BY <1>9, <2>1, RenameHand DEF RenameMove, OfRename
    <2> QED BY <1>1, <2>1, <2>2
  <1>10. CASE RestoreMove
    <2>1. PICK r \in batch : \/ UNCHANGED at
                             \/ at[Subject(r)]["source"] = "none" /\ at' = Moved(Subject(r), "trash", "source")
      BY <1>10 DEF RestoreMove
    <2>2. Subject(r) \in Actions
      BY <1>10, <2>1, RestoreHand DEF RestoreMove, OfRestore
    <2> QED BY <1>1, <2>1, <2>2
  <1> QED BY <1>2, <1>3, <1>4, <1>5, <1>6, <1>7, <1>8, <1>9, <1>10
      DEF Next, System, TrashBatch, RenameOne, RestoreOne

\* The inductive invariant holds in every reachable state.
THEOREM Correct == Spec => []IInv
  BY InitIInv, NextIInv, PTL DEF Spec

\* Every variable keeps its type, a receipt goes with the status 'applied' and
\* an idle owner has no row in hand.
THEOREM TypeCorrect == Spec => []TypeOK
  <1>1. IInv => TypeOK
    BY DEF IInv
  <1> QED BY <1>1, Correct, PTL

\* No object that an effect took is away from its place without a row that
\* says so, for any number of batches, crashes, failed writes and late KIO
\* workers (the frontier of mark_file_actions_applying and the recovery marks).
THEOREM DisplacedRecorded == Spec => []DisplacedIsRecorded
  <1>1. IInv => DisplacedIsRecorded
    <2> SUFFICES ASSUME IInv, NEW r \in Rows, took[r] # <<>>, ~putback[r]
                 PROVE  status[r] \in {"applying", "applied", "recovery_required"}
      BY DEF DisplacedIsRecorded, Displaced
    <2>1. ~Intact(r)
      BY DEF Intact
    <2>2. status[r] \in Statuses
      BY DEF IInv, TypeOK
    <2> QED BY <2>1, <2>2 DEF IInv, StatusOK, Statuses, Closed
  <1> QED BY <1>1, Correct, PTL

\* An applied row had exactly one effect, on the planned object: the checks
\* after each path-bound rename keep what the user put in its place out, and a
\* call of KIO is made again only after all it took went back.
THEOREM AppliedIsBacked == Spec => []AppliedBacked
  <1>1. IInv => AppliedBacked
    BY DEF IInv, StatusOK, Backed, AppliedBacked
  <1> QED BY <1>1, Correct, PTL

\* What lies in the Trash can be restored from the desktop unless its row is
\* under way or uncertain, wherever the rewriting of the .trashinfo, or a
\* restoration, stops half way.
THEOREM TrashIsNamed == Spec => []TrashNamed
  <1>1. IInv => TrashNamed
    <2> SUFFICES ASSUME IInv, NEW a \in Trash, at[a]["trash"] # "none"
                 PROVE  \/ info[a] = "source"
                        \/ info[a] \in {"claim", "torn"} /\ status[a] \in {"applying", "recovery_required"}
      BY DEF TrashNamed
    <2>1. a \in Rows /\ a \in Actions
      BY DEF Rows, Actions
    <2>2. info[a] \in {"claim", "torn", "source"} /\ took[a] = <<"mine">> /\ ~Intact(a)
      <3>1. info[a] # "none" /\ took[a] = <<"mine">>
        BY DEF IInv, FilesOK, TrashFilesOK
      <3>2. info[a] \in {"none", "claim", "torn", "source"}
        BY <2>1 DEF IInv, TypeOK
      <3> QED BY <3>1, <3>2 DEF Intact
    <2>3. status[a] = "applied" => info[a] = "source"
      BY <2>1 DEF IInv, StatusOK, Backed
    <2>4. status[a] \in {"applying", "applied", "recovery_required"}
      <3>1. status[a] \in Statuses
        BY <2>1 DEF IInv, TypeOK
      <3> QED BY <2>1, <2>2, <3>1 DEF IInv, StatusOK, Statuses, Closed
    <2> QED BY <2>2, <2>3, <2>4
  <1> QED BY <1>1, Correct, PTL

\* A recorded verdict of the reconciler stays true whatever happens later.
THEOREM VerdictsHold == Spec => []VerdictHolds
  <1>1. IInv => VerdictHolds
    <2> SUFFICES ASSUME IInv, NEW r \in Actions, NEW i \in DOMAIN events[r]
                 PROVE  LET e == events[r][i] IN
                        /\ e.class = "not_performed" /\ ~e.live => ~e.displaced /\ Len(took[r]) = e.effects
                        /\ e.class = "confirmed" => took[r] = <<"mine">>
      BY DEF VerdictHolds
    <2>1. r \in Rows /\ VerdictOK(events[r][i]) /\ events[r][i].row = r
      BY RowKinds DEF IInv, VerdictsOK, RecordOK
    <2> QED BY <2>1 DEF VerdictOK
  <1> QED BY <1>1, Correct, PTL

\* The answer a recorder got is true and stays true, for any number of recorders
\* that race, lose answers and ask again: the events of a row form one chain, so
\* a request is in it once, and a request in conflict is never current again.
THEOREM AnswersAreTrue == Spec => []AnswersTrue
  <1>1. IInv => AnswersTrue
    <2> SUFFICES ASSUME IInv, NEW c \in Recorders, NEW x \in answer[c]
                 PROVE  Cardinality(Copies(x.event)) = IF x.recorded THEN 1 ELSE 0
      BY DEF AnswersTrue, Copies
    <2>1. x.event \in Event /\ Answered(x) /\ x.recorded \in BOOLEAN /\ Chained
      BY DEF IInv, RecordOK, AnswersOK
    <2>2. CASE ~x.recorded
      BY <2>1, <2>2, FS_EmptySet DEF Answered
    <2>3. CASE x.recorded
      <3> DEFINE e == x.event
      <3>1. PICK i : i \in Copies(e)
        BY <2>1, <2>3 DEF Answered
      <3>2. \A j \in Copies(e) : j = i
        <4> SUFFICES ASSUME NEW j \in Copies(e) PROVE j = i
          OBVIOUS
        <4>1. /\ i \in DOMAIN events[e.row] /\ j \in DOMAIN events[e.row] /\ e.row \in Rows
              /\ Request(events[e.row][i]) = Request(e) /\ Request(events[e.row][j]) = Request(e)
          BY <2>1, <3>1 DEF Copies, Event
        <4>2. events[e.row][i].previous = events[e.row][j].previous
          BY <4>1 DEF Request
        <4>3. i - 1 = j - 1
          BY <2>1, <4>1, <4>2 DEF Chained
        <4>4. i \in Int /\ j \in Int
          <5>1. events[e.row] \in Seq(Event)
            BY <4>1 DEF IInv, RecordOK
          <5> QED BY <4>1, <5>1, LenProperties
        <4> QED BY <4>3, <4>4
      <3>3. Copies(e) = {i}
        BY <3>1, <3>2
      <3> QED BY <2>3, <3>3, FS_Singleton
    <2> QED BY <2>1, <2>2, <2>3
  <1> QED BY <1>1, Correct, PTL

\* An owner that was not disturbed returns with no row left open.
THEOREM NoneLeftOpen == Spec => []NothingLeftOpen
  <1>1. IInv => NothingLeftOpen
    BY DEF IInv, TypeOK, OpenOK, NothingLeftOpen
  <1> QED BY <1>1, Correct, PTL

\* No step of the owner or of KIO overwrites or drops an object: every rename
\* of theirs goes to a path that is free at that moment.
THEOREM NoneDestroyed == Spec => NothingDestroyed
  <1> DEFINE A == moves' = moves =>
                    \A a \in Actions, o \in {"mine", "other"} :
                      Cardinality({p \in Places : at'[a][p] = o}) = Cardinality({p \in Places : at[a][p] = o})
  <1>1. IInv /\ moves \in Nat /\ [Next]_vars => A
    <2> SUFFICES ASSUME IInv, moves \in Nat, [Next]_vars, moves' = moves,
                        NEW b \in Actions, NEW o \in {"mine", "other"}
                 PROVE  Cardinality({s \in Places : at'[b][s] = o}) = Cardinality({s \in Places : at[b][s] = o})
      OBVIOUS
    <2>1. CASE UNCHANGED at
      BY <2>1
    <2>2. ASSUME NEW a \in Actions, NEW p \in Places, NEW q \in Places,
                 p # q, at[a][q] = "none", at' = Moved(a, p, q)
          PROVE  Cardinality({s \in Places : at'[b][s] = o}) = Cardinality({s \in Places : at[b][s] = o})
      <3>1. TypeOK
        BY DEF IInv
      <3>2. /\ at' \in [Actions -> [Places -> Objects]]
            /\ at'[a][q] = at[a][p] /\ at'[a][p] = "none"
            /\ \A s \in Places \ {p, q} : at'[a][s] = at[a][s]
            /\ \A d \in Actions \ {a} : at'[d] = at[d]
        BY <2>2, <3>1, MovedFacts
      <3>3. CASE b = a
        <4>1. at[a] \in [Places -> Objects] /\ at'[a] \in [Places -> Objects] /\ o # "none"
          BY <3>1, <3>2 DEF TypeOK
        <4>2. Cardinality({s \in Places : at'[a][s] = o}) = Cardinality({s \in Places : at[a][s] = o})
          <5> DEFINE f == at[a]
                     g == at'[a]
          <5>1. /\ f \in [Places -> Objects] /\ g \in [Places -> Objects]
                /\ f[q] = "none" /\ g[q] = f[p] /\ g[p] = "none"
                /\ \A s \in Places \ {p, q} : g[s] = f[s]
            BY <2>2, <3>2, <4>1
          <5> HIDE DEF f, g
          <5>2. CountAt(g, o) = CountAt(f, o)
            BY <2>2, <4>1, <5>1, MoveCount
          <5> QED BY <5>2 DEF f, g, CountAt
        <4> QED BY <3>3, <4>2
      <3>4. CASE b # a
        BY <3>2, <3>4
      <3> QED BY <3>3, <3>4
    <2> QED BY <2>1, <2>2, OnlyEmptyPlaces
  <1>2. IInv /\ moves \in Nat /\ [Next]_vars => [A]_vars
    BY <1>1
  <1> QED BY <1>2, Correct, MovesCounted, PTL DEF Spec, NothingDestroyed

=============================================================================

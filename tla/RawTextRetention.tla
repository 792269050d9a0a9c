------------------------- MODULE RawTextRetention -------------------------
(***************************************************************************)
(* The retention of a data source (direct_retention.go): the raw text of   *)
(* its messages is hidden from readers as soon as it is older than the     *)
(* retention of the source, and an hourly cleanup removes it, with what    *)
(* tasks, drafts and cached responses have copied of it.  The copies are   *)
(* free text: what is known of one is which messages it quotes.            *)
(***************************************************************************)
EXTENDS FiniteSets, Naturals

CONSTANTS
  Messages,     \* messages of the routes the source owns
  Tasks,        \* tasks of the runtimes that read the source
  Limit,        \* messages a cleanup takes at a time, 50 in the code
  Environment   \* what may happen: a subset of {"edit", "recall", "late"}

\* Where a task's texts are kept: the five stores a cleanup goes through.
\* "result" stands for the instructions too, "output" for raw transcripts.
Places == {"result", "summary", "output", "draft", "cached"}

VARIABLES
  availability,  \* per message: "absent", "available", "recalled" or "expired"
  raw,           \* the messages with a revision whose text is stored
  old,           \* the messages older than the retention
  links,         \* per task, the messages it was created from
  context,       \* per task, what its Agent has read; {} when none runs
  stored         \* per task and place, the messages quoted there

vars == <<availability, raw, old, links, context, stored>>

TypeOK ==
  /\ availability \in [Messages -> {"absent", "available", "recalled", "expired"}]
  /\ raw \subseteq Messages /\ old \subseteq Messages
  /\ links \in [Tasks -> SUBSET Messages] /\ context \in [Tasks -> SUBSET Messages]
  /\ stored \in [Tasks -> [Places -> SUBSET Messages]]

Init ==
  /\ availability = [m \in Messages |-> "absent"] /\ raw = {} /\ old = {}
  /\ links = [t \in Tasks |-> {}] /\ context = [t \in Tasks |-> {}]
  /\ stored = [t \in Tasks |-> [p \in Places |-> {}]]

----------------------------------------------------------------------------
(* What a reader is shown.                                                 *)

\* The text of a message is withheld before and after the cleanup.
Withheld(m) == availability[m] = "expired" \/ m \in old

\* redactReadRuntimeTask: the linked messages decide; only texts that are
\* still stored can be found in a summary.
ShownTask(t) ==
  LET gone == {m \in links[t] : Withheld(m)}
  IN IF gone = {} THEN stored[t].result \cup stored[t].summary
     ELSE stored[t].summary \ (gone \cap raw)

\* redactCachedRetentionResult: any message decides.
ShownCached(t) == stored[t].cached \ {m \in raw : Withheld(m)}

----------------------------------------------------------------------------
(* Messages.                                                               *)

Intake(m) ==
  /\ availability[m] = "absent"
  /\ availability' = [availability EXCEPT ![m] = "available"] /\ raw' = raw \cup {m}
  /\ UNCHANGED <<old, links, context, stored>>

\* A new revision is stored whatever has become of the message.
EditArrives(m) ==
  /\ "edit" \in Environment /\ availability[m] # "absent"
  /\ raw' = raw \cup {m}
  /\ UNCHANGED <<availability, old, links, context, stored>>

Recall(m) ==
  /\ "recall" \in Environment /\ availability[m] # "absent"
  /\ availability' = [availability EXCEPT ![m] = "recalled"]
  /\ UNCHANGED <<raw, old, links, context, stored>>

Age(m) ==
  /\ availability[m] # "absent" /\ m \notin old
  /\ old' = old \cup {m}
  /\ UNCHANGED <<availability, raw, links, context, stored>>

----------------------------------------------------------------------------
(* Tasks: what they read, write and return.                                *)

Usable == {m \in Messages : availability[m] = "available" /\ m \notin old}

\* A task is created from messages and its Agent reads others as context.
StartTask(t, cited, read) ==
  /\ context[t] = {} /\ links[t] = {} /\ stored[t] = [p \in Places |-> {}]
  /\ cited # {} /\ cited \subseteq read
  /\ links' = [links EXCEPT ![t] = cited] /\ context' = [context EXCEPT ![t] = read]
  /\ UNCHANGED <<availability, raw, old, stored>>

\* CompleteRuntimeTask refuses a task whose own messages are not current.
\* Without "late" nothing its Agent has read leaves the source in between.
FinishTask(t) ==
  /\ context[t] # {} /\ links[t] \subseteq Usable
  /\ "late" \in Environment \/ context[t] \subseteq Usable
  /\ stored' = [stored EXCEPT ![t] =
       [p \in Places |-> IF p = "cached" THEN @[p] ELSE context[t]]]
  /\ context' = [context EXCEPT ![t] = {}]
  /\ UNCHANGED <<availability, raw, old, links>>

FailTask(t) ==
  /\ context[t] # {} /\ context' = [context EXCEPT ![t] = {}]
  /\ UNCHANGED <<availability, raw, old, links, stored>>

\* A command about the task is answered; the answer is cached as it was.
AnswerCommand(t) ==
  /\ stored' = [stored EXCEPT ![t].cached = ShownTask(t)]
  /\ UNCHANGED <<availability, raw, old, links, context>>

----------------------------------------------------------------------------
(* The cleanup: one transaction, again at once while it takes its limit.   *)

Eligible == {m \in old : availability[m] = "available"}

\* PreviewDataSourceRetention counts what the first cleanup would take.
PreviewDataSourceRetention == Cardinality(Eligible)

\* Mutant: Drafts are left alone.
RedactedTasks(place, quoted, taken) == IF place = "output" THEN {} ELSE IF place = "draft" THEN quoted ELSE quoted \ taken

\* redactRuntimeConclusions: every copy of these texts, wherever it is.
Redacted(place, quoted, taken) == IF place = "output" THEN {} ELSE quoted \ taken

ApplyDataSourceRetention(taken) ==
  /\ taken # {} /\ taken \subseteq Eligible
  /\ Cardinality(taken) = IF PreviewDataSourceRetention < Limit
                          THEN PreviewDataSourceRetention ELSE Limit
  /\ availability' = [m \in Messages |-> IF m \in taken THEN "expired" ELSE availability[m]]
  /\ raw' = raw \ taken
  /\ stored' = [t \in Tasks |-> [p \in Places |->
       IF p = "result" /\ links[t] \cap taken # {} THEN {}
       ELSE Redacted(p, stored[t][p], taken)]]
  /\ UNCHANGED <<old, links, context>>

Next ==
  \/ \E m \in Messages : Intake(m) \/ EditArrives(m) \/ Recall(m) \/ Age(m)
  \/ \E t \in Tasks : \/ \E read \in SUBSET Usable : \E cited \in SUBSET read : StartTask(t, cited, read)
                      \/ FinishTask(t) \/ FailTask(t) \/ AnswerCommand(t)
  \/ \E taken \in SUBSET Eligible : ApplyDataSourceRetention(taken)

Spec == Init /\ [][Next]_vars

----------------------------------------------------------------------------
(* Properties *)

\* CleanedEverywhere: the text of a message that a task was made from is not
\* shown with the task, nor in a cached response about it, once it is too old,
\* before and after the cleanup; and a cleanup that expires a message leaves no
\* text of it, neither its own nor a copy in any task, draft or cached response.
CleanedEverywhere ==
  /\ [](\A t \in Tasks : \A m \in links[t] : Withheld(m) =>
          m \notin ShownTask(t) \cup ShownCached(t))
  /\ [][\A m \in Messages :
          availability[m] = "available" /\ availability'[m] = "expired" =>
            m \notin raw' /\ \A t \in Tasks : \A p \in Places : m \notin stored'[t][p]]_vars

\* OldTextIsCleared: when a cleanup has nothing left to do, no text of an old
\* message is stored.
OldTextIsCleared == Eligible = {} => raw \cap old = {}

\* NoLateCopy: no text of an expired message is kept in a copy.
NoLateCopy ==
  \A m \in Messages : availability[m] = "expired" =>
    \A t \in Tasks : \A p \in Places : m \notin stored[t][p]

=============================================================================

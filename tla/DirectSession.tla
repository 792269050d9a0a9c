--------------------------- MODULE DirectSession ---------------------------
(***************************************************************************)
(* The owner's private conversation with the bot.  A message is queued as  *)
(* a turn of the logical session that is open in the database; `/clear`    *)
(* closes that session and opens the next one.  Turns are answered one at  *)
(* a time by an Agent process that the runtime keeps alive for its session *)
(* (direct_agent.go), and that writes what it was told to a transcript     *)
(* file named by its native session ID.  A process that is gone is started *)
(* again with `--resume` of the native ID the session remembers, when the  *)
(* remembered digest is the one of the accepted history, and is otherwise  *)
(* started with a new transcript and told the accepted history.            *)
(*                                                                         *)
(* A turn is a message and a revision of it.  Whoever is told turns is     *)
(* told them in the order of their arrival, so that a set of turns stands  *)
(* for the text that tells them, and for its digest.  The policy in force  *)
(* does not change here, so that the policy digests agree (ConfigApply and *)
(* RuntimeTask change it).                                                 *)
(***************************************************************************)
EXTENDS Naturals, Sequences, SequencesExt

CONSTANTS
  Environment,   \* what may happen: a subset of Happenings
  MaxMessages,   \* messages the owner sends
  MaxEvents      \* edits, recalls, failures, crashes, losses and retries

Happenings == {"clear", "edit", "recall", "fail", "undelivered", "crash", "lost",
               "retry", "continue"}

VARIABLES
  messages,      \* by arrival: [body, rev, available]
  turns,         \* turns[i]: the task and the session of messages[i]
  queue,         \* pending tasks, oldest first
  sessions,      \* logical sessions: [open, native, context]
  processes,     \* by logical session, the live Agent process
  transcripts,   \* by native session ID, the turns in the file on disk; {} when there is none
  run,           \* the turn being answered
  events         \* how often the environment has interfered

vars == <<messages, turns, queue, sessions, processes, transcripts, run, events>>

NoProcess == [native |-> 0, context |-> {}, expected |-> {}]
Idle == [turn |-> 0, step |-> "idle", rev |-> 0, history |-> {}, attempt |-> 0, native |-> 0, recorded |-> 0]
Unbound == [session |-> 0, status |-> "none", rev |-> 0, delivered |-> {}, resume |-> 0,
            past |-> [native |-> 0, history |-> {}]]

Occurs(kind) == kind \in Environment /\ events < MaxEvents /\ events' = events + 1

Available(i) == messages[i].available /\ messages[i].rev = turns[i].rev

\* The session is open, and no `/clear` has arrived behind the message.
RuntimeDirectTurnCurrent(i) ==
  /\ sessions[turns[i].session].open
  /\ ~\E j \in i + 1 .. Len(messages) : messages[j].body = "clear" /\ messages[j].available

\* What may still be answered, and what was answered may still be sent.
Current(i) == Available(i) /\ RuntimeDirectTurnCurrent(i)

\* The accepted turns of the session that came before.  Any accepted answer
\* of the task counts, be it to an earlier revision.
RuntimeDirectHistory(i) ==
  {<<j, turns[j].rev>> : j \in {j \in 1 .. i - 1 :
     /\ turns[j].session = turns[i].session /\ messages[j].body = "text"
     /\ turns[j].status = "completed" /\ Available(j) /\ turns[j].delivered # {}}}

Own == <<run.turn, run.rev>>
Here == turns[run.turn].session

TypeOK ==
  /\ \A i \in DOMAIN messages :
       messages[i] \in [body : {"text", "clear"}, rev : 1 .. MaxEvents + 1, available : BOOLEAN]
  /\ DOMAIN turns = DOMAIN messages
  /\ \A i \in DOMAIN turns :
       /\ turns[i].status \in {"none", "pending", "running", "completed", "failed", "cancelled"}
       /\ turns[i].session \in 0 .. Len(sessions) /\ turns[i].rev <= messages[i].rev
  /\ \A k \in DOMAIN sessions : sessions[k].native \in 0 .. Len(transcripts)
  /\ DOMAIN processes = DOMAIN sessions
  /\ run.step \in {"idle", "started", "asked", "replied", "completed", "accepted"}
  /\ events \in 0 .. MaxEvents

Init ==
  /\ messages = <<>> /\ turns = <<>> /\ queue = <<>> /\ run = Idle /\ events = 0
  /\ sessions = <<>> /\ processes = <<>> /\ transcripts = <<>>

----------------------------------------------------------------------------
(* The conversation: messages arrive, are edited and recalled.             *)

Receive(body) ==
  /\ Len(messages) < MaxMessages /\ (body = "clear" => "clear" \in Environment)
  /\ messages' = Append(messages, [body |-> body, rev |-> 1, available |-> TRUE])
  /\ turns' = Append(turns, Unbound)
  /\ UNCHANGED <<queue, sessions, processes, transcripts, run, events>>

Edit(i) ==
  /\ Occurs("edit") /\ messages[i].available /\ messages[i].body = "text"
  /\ messages' = [messages EXCEPT ![i].rev = @ + 1]
  /\ UNCHANGED <<turns, queue, sessions, processes, transcripts, run>>

Recall(i) ==
  /\ Occurs("recall") /\ messages[i].available
  /\ messages' = [messages EXCEPT ![i].available = FALSE]
  /\ UNCHANGED <<turns, queue, sessions, processes, transcripts, run>>

\* Mutant: `/clear` leaves the session open.
JoinedWithoutClosing(body) ==
  LET left == sessions
  IN IF \E k \in DOMAIN left : left[k].open THEN left
     ELSE Append(left, [open |-> TRUE, native |-> 0, context |-> {}])

\* The sessions with the one a turn of that body joins, and its number.
Joined(body) ==
  LET left == IF body = "clear" THEN [k \in DOMAIN sessions |-> [sessions[k] EXCEPT !.open = FALSE]]
              ELSE sessions
  IN IF \E k \in DOMAIN left : left[k].open THEN left
     ELSE Append(left, [open |-> TRUE, native |-> 0, context |-> {}])

\* queueDirectTurn and BindRuntimeDirectTurn, in one transaction: messages
\* are bound in the order of their arrival.
BindRuntimeDirectTurn(i) ==
  /\ turns[i].session = 0 /\ messages[i].available
  /\ \A j \in 1 .. i - 1 : turns[j].session # 0 \/ ~messages[j].available
  /\ sessions' = Joined(messages[i].body)
  /\ processes' = [k \in DOMAIN sessions' |->
                     IF k \in DOMAIN processes THEN processes[k] ELSE NoProcess]
  /\ turns' = [turns EXCEPT ![i] =
       [Unbound EXCEPT !.session = CHOOSE k \in DOMAIN sessions' : sessions'[k].open,
                       !.status = "pending", !.rev = messages[i].rev]]
  /\ queue' = Append(queue, i)
  /\ UNCHANGED <<messages, transcripts, run, events>>

\* An edited message is a new version of the same task, in the same session.
QueueRevision(i) ==
  /\ turns[i].session # 0 /\ messages[i].available /\ messages[i].rev > turns[i].rev
  /\ turns' = [turns EXCEPT ![i].status = "pending", ![i].rev = messages[i].rev, ![i].resume = 0]
  /\ queue' = Append(RemoveFirst(queue, i), i)
  /\ UNCHANGED <<messages, sessions, processes, transcripts, run, events>>

CancelRecalled(i) ==
  /\ ~messages[i].available /\ turns[i].status \notin {"none", "cancelled"}
  /\ turns' = [turns EXCEPT ![i].status = "cancelled"]
  /\ queue' = RemoveFirst(queue, i)
  /\ UNCHANGED <<messages, sessions, processes, transcripts, run, events>>

----------------------------------------------------------------------------
(* One turn: executeDirectTurn.                                            *)

\* The process of the session is closed and the task failed, unless a new
\* version of it has come in between.
FailTurn ==
  /\ processes' = [processes EXCEPT ![Here] = NoProcess]
  /\ turns' = IF turns[run.turn].status = "running" /\ turns[run.turn].rev = run.rev
              THEN [turns EXCEPT ![run.turn].status = "failed",
                                 ![run.turn].past = [native |-> run.recorded, history |-> run.history]]
              ELSE turns
  /\ run' = Idle

StartTurn ==
  LET i == Head(queue) IN
  /\ run = Idle /\ queue # <<>>
  /\ queue' = Tail(queue)
  /\ turns' = [turns EXCEPT ![i].status = "running"]
  /\ IF messages[i].body = "clear"
     THEN /\ run' = [Idle EXCEPT !.turn = i, !.step = "replied", !.rev = turns[i].rev]
          /\ processes' = [k \in DOMAIN processes |-> NoProcess]
          /\ UNCHANGED transcripts
     ELSE /\ transcripts' = Append(transcripts, {})
          /\ run' = [Idle EXCEPT !.turn = i, !.step = "started", !.rev = turns[i].rev,
                                 !.history = RuntimeDirectHistory(i),
                                 !.attempt = Len(transcripts) + 1]
          /\ UNCHANGED processes
  /\ UNCHANGED <<messages, sessions, events>>

\* Mutant: Resumes whatever native session is remembered.
RememberedByID == sessions[Here].native # 0

\* The native session is resumed only if it was recorded for this history.
Remembered == sessions[Here].native # 0 /\ sessions[Here].context = run.history

\* A continuation names the native session of the failed attempt itself.
Resumed == IF turns[run.turn].resume # 0 THEN turns[run.turn].resume
           ELSE IF Remembered THEN sessions[Here].native ELSE 0

\* A live process goes on only if it knows exactly the accepted history.
KeepsProcess ==
  /\ processes[Here].native # 0 /\ turns[run.turn].resume = 0
  /\ processes[Here].expected = run.history

MissingTranscript == Resumed # 0 /\ transcripts[Resumed] = {}

\* What a process that starts knows before it is told the message.
StartingContext(resumed) == IF resumed # 0 THEN transcripts[resumed] ELSE run.history

\* The process `native` is told the message, on top of `context`.
Tell(native, context) ==
  /\ processes' = [processes EXCEPT ![Here] =
       [native |-> native, context |-> context \cup {Own}, expected |-> run.history]]
  /\ transcripts' = [n \in 1 .. Len(transcripts) \cup {native} |->
       IF n = native THEN context \cup {Own} ELSE transcripts[n]]
  /\ run' = [run EXCEPT !.step = "asked", !.recorded = native,
                        !.native = IF Remembered THEN sessions[Here].native ELSE run.attempt]

ContinuationConflicts ==
  turns[run.turn].resume # 0 /\ turns[run.turn].past.history # run.history

ExecuteDirectAgent ==
  /\ run.step = "started" /\ turns[run.turn].rev = run.rev
  /\ RuntimeDirectTurnCurrent(run.turn) /\ ~ContinuationConflicts
  /\ IF KeepsProcess THEN Tell(processes[Here].native, processes[Here].context)
     ELSE /\ ~MissingTranscript
          /\ Tell(IF Resumed # 0 THEN Resumed ELSE run.attempt, StartingContext(Resumed))
  /\ UNCHANGED <<messages, turns, queue, sessions, events>>

\* `--resume` fails, nothing was answered: a new native session is told the
\* accepted history instead.  A continuation names the missing session again,
\* without end, and never gets here.
ResumeUnavailable ==
  /\ run.step = "started" /\ turns[run.turn].rev = run.rev
  /\ RuntimeDirectTurnCurrent(run.turn)
  /\ ~KeepsProcess /\ MissingTranscript /\ turns[run.turn].resume = 0
  /\ Tell(Len(transcripts) + 1, StartingContext(0))
  /\ UNCHANGED <<messages, turns, queue, sessions, events>>

RefuseTurn ==
  /\ run.step = "started"
  /\ \/ ~RuntimeDirectTurnCurrent(run.turn) \/ ContinuationConflicts
     \/ turns[run.turn].rev # run.rev
  /\ FailTurn
  /\ UNCHANGED <<messages, queue, sessions, transcripts, events>>

Reply ==
  /\ run.step = "asked"
  /\ processes' = [processes EXCEPT ![Here].expected = run.history \cup {Own}]
  /\ run' = [run EXCEPT !.step = "replied"]
  /\ UNCHANGED <<messages, turns, queue, sessions, transcripts, events>>

\* The process fails, is cancelled or exceeds its time.
ReplyFails ==
  /\ run.step = "asked" /\ Occurs("fail") /\ FailTurn
  /\ UNCHANGED <<messages, queue, sessions, transcripts>>

CompleteRuntimeTask ==
  /\ run.step = "replied"
  /\ IF turns[run.turn].status = "running" /\ turns[run.turn].rev = run.rev /\ Current(run.turn)
     THEN /\ turns' = [turns EXCEPT ![run.turn].status = "completed", ![run.turn].resume = 0]
          /\ run' = [run EXCEPT !.step = "completed"]
          /\ UNCHANGED processes
     ELSE FailTurn
  /\ UNCHANGED <<messages, queue, sessions, transcripts, events>>

DeliverAnswer ==
  /\ run.step = "completed" /\ turns[run.turn].rev = run.rev /\ Current(run.turn)
  /\ turns' = [turns EXCEPT ![run.turn].delivered = @ \cup {run.rev}]
  /\ run' = IF messages[run.turn].body = "clear" THEN Idle ELSE [run EXCEPT !.step = "accepted"]
  /\ UNCHANGED <<messages, queue, sessions, processes, transcripts, events>>

\* Refused, failed or unknown: the process that gave the answer is closed.
AnswerNotDelivered ==
  /\ run.step = "completed"
  /\ IF turns[run.turn].rev = run.rev /\ Current(run.turn) THEN Occurs("undelivered")
     ELSE UNCHANGED events
  /\ processes' = [processes EXCEPT ![Here] = NoProcess]
  /\ run' = Idle
  /\ UNCHANGED <<messages, turns, queue, sessions, transcripts>>

PersistRuntimeDirectNativeSession ==
  /\ run.step = "accepted"
  /\ sessions' = IF sessions[Here].open
                 THEN [sessions EXCEPT ![Here].native = run.native,
                                       ![Here].context = run.history \cup {Own}]
                 ELSE sessions
  /\ run' = Idle
  /\ UNCHANGED <<messages, turns, queue, processes, transcripts, events>>

----------------------------------------------------------------------------
(* Failures and the operator.                                              *)

\* The service ends with its processes; the next start fails what ran.
CrashAndRecover ==
  /\ Occurs("crash") /\ processes # <<>>
  /\ processes' = [k \in DOMAIN processes |-> NoProcess]
  /\ turns' = [i \in DOMAIN turns |->
       IF turns[i].status = "running"
       THEN [turns[i] EXCEPT !.status = "failed",
                             !.past = [native |-> run.recorded, history |-> run.history]]
       ELSE turns[i]]
  /\ run' = Idle
  /\ UNCHANGED <<messages, queue, sessions, transcripts>>

\* The Agent program no longer has the transcript of a native session.
LoseTranscript(n) ==
  /\ Occurs("lost") /\ transcripts[n] # {}
  /\ transcripts' = [transcripts EXCEPT ![n] = {}]
  /\ UNCHANGED <<messages, turns, queue, sessions, processes, run>>

RetryTask(i) ==
  /\ Occurs("retry") /\ turns[i].status = "failed"
  /\ turns' = [turns EXCEPT ![i].status = "pending", ![i].resume = 0]
  /\ queue' = Append(queue, i)
  /\ UNCHANGED <<messages, sessions, processes, transcripts, run>>

ResumeRuntimeTask(i) ==
  /\ Occurs("continue") /\ turns[i].status = "failed" /\ turns[i].past.native # 0 /\ Current(i)
  /\ turns' = [turns EXCEPT ![i].status = "pending", ![i].resume = turns[i].past.native]
  /\ queue' = Append(queue, i)
  /\ UNCHANGED <<messages, sessions, processes, transcripts, run>>

Next ==
  \/ \E body \in {"text", "clear"} : Receive(body)
  \/ \E i \in DOMAIN messages :
       \/ Edit(i) \/ Recall(i) \/ BindRuntimeDirectTurn(i) \/ QueueRevision(i)
       \/ CancelRecalled(i) \/ RetryTask(i) \/ ResumeRuntimeTask(i)
  \/ StartTurn \/ ExecuteDirectAgent \/ ResumeUnavailable \/ RefuseTurn
  \/ Reply \/ ReplyFails \/ CompleteRuntimeTask
  \/ DeliverAnswer \/ AnswerNotDelivered \/ PersistRuntimeDirectNativeSession
  \/ CrashAndRecover \/ \E n \in DOMAIN transcripts : LoseTranscript(n)

Spec == Init /\ [][Next]_vars

----------------------------------------------------------------------------
(* Properties *)

\* NothingForgotten: an Agent that is asked knows every accepted turn of the
\* conversation, whether its process went on, was resumed or started anew.
NothingForgotten ==
  run.step = "asked" => run.history \subseteq processes[Here].context

\* NothingAcrossClear: an Agent that is asked knows no turn from before a
\* `/clear` that was carried out before the message it is asked about.
NothingAcrossClear ==
  run.step = "asked" =>
    \A u \in processes[Here].context :
      ~\E j \in u[1] + 1 .. run.turn - 1 : messages[j].body = "clear" /\ turns[j].session # 0

\* SessionIsRemembered: both; what an Agent knows begins at the last `/clear`.
SessionIsRemembered == NothingForgotten /\ NothingAcrossClear

\* OnlyAcceptedTurns: an Agent that is asked knows accepted turns only, none
\* recalled, edited or undelivered.
OnlyAcceptedTurns ==
  run.step = "asked" => processes[Here].context \subseteq run.history \cup {Own}

=============================================================================

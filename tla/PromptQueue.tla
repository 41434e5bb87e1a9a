---------------------------- MODULE PromptQueue ----------------------------
(***************************************************************************)
(* The input queue of a session actor: every prompt, interjection,         *)
(* notification and background completion that reaches a session becomes   *)
(* an item of pending_inputs, and the item at the front is the running     *)
(* turn until handle_completion or a cancel pops it.                       *)
(*                                                                         *)
(* Three kinds of tasks share the state lock of one LocalSet: the actor's  *)
(* loop (`job' is the handler it is inside), the turns it spawned (`live'),*)
(* and the two tasks that may promote a prompt on their own, the MCP       *)
(* initialisation and a resumed plan approval (`starters').  A handler is  *)
(* cut at every await between two of its lock sections.  The select of the *)
(* loop is biased: a command is received only when no completion waits.    *)
(*                                                                         *)
(* An item's text is its version; which rows a client owns is an input.    *)
(***************************************************************************)
EXTENDS Naturals, Sequences, FiniteSets, SequencesExt

CONSTANTS
  None,       \* no prompt
  MaxItems,   \* bound on the inputs that arrive
  MaxEdits,   \* bound on the version of a row
  MaxNotes    \* bound on the notifications waiting

ASSUME QueueAssumption ==
  /\ MaxItems \in Nat \ {0} /\ MaxEdits \in Nat /\ MaxNotes \in Nat
  /\ None \notin Nat

Ids == 1..MaxItems

VARIABLES
  queue,      \* State.pending_inputs
  task,       \* the prompt of State.running_task
  pin,        \* current_prompt_id
  live,       \* the turn tasks that exist: "run", or "tail" once unpinned
  done,       \* the completion channel
  job,        \* the handler the loop is in, and what it holds
  starters,   \* spawned tasks that have still to promote
  inter,      \* pending_interjections
  notes,      \* State.pending_notifications
  events,     \* the mid-turn monitor event buffer
  suppressed, \* State.notifications_suppressed
  rewindable, \* State.rewindable
  gate,       \* goal_loop_active_gate
  waits,      \* blocking_wait_depth > 0
  delivered,  \* AutoWakeDeliveredIds
  reported,   \* ReportedTaskCompletions
  minted,     \* inputs that arrived
  asked,      \* prompts a client awaits the answer of
  replies,    \* prompts answered
  started,    \* prompts promoted
  ran,        \* the version the running turn was promoted with
  told        \* completions the model has been told of

state == <<queue, task, suppressed, rewindable, notes>>
wakes == <<delivered, reported, told>>
clients == <<asked, replies>>
turnFlags == <<gate, waits>>
promoted == <<pin, live, started, ran>>
vars == <<state, done, job, starters, inter, events, wakes, clients,
          turnFlags, promoted, minted>>

-----------------------------------------------------------------------------
(* Items.  "prompt" rows have queue metadata and a client; "fallback" is a *)
(* stranded interjection; "wake" is an auto-wake prompt, whose completion  *)
(* is named by its id; "inner" is every other synthetic origin.            *)
Item(id, kind, now) == [id |-> id, kind |-> kind, now |-> now, ver |-> 0]

Synthetic(i) == i.kind \in {"wake", "inner"}
IdsOf(q) == {q[n].id : n \in DOMAIN q}

\* The queue without the items of S: the positions that are kept, in order.
\* (SelectSeq, written without its recursion so that it can be proved about.)
Without(S) ==
  LET kept == {n \in DOMAIN queue : queue[n].id \notin S}
      places == 1..Cardinality(kept)
      at == CHOOSE f \in [places -> kept] :
              \A j, k \in places : j < k => f[j] < f[k]
  IN [j \in places |-> queue[at[j]]]

\* The rows an edit may touch: user prompts that are not the running turn.
Rows == {i.id : i \in {j \in ToSet(queue) : j.kind = "prompt" /\ j.id # task}}

\* Right behind the running front, else the head of the queue.
FrontSlot == IF queue # <<>> /\ queue[1].id = task THEN 2 ELSE 1

\* The same, behind the send-now items that are already there.
NowSlot(q) ==
  LET s == IF q # <<>> /\ q[1].id = task THEN 2 ELSE 1
  IN CHOOSE n \in s..(Len(q) + 1) :
       /\ n > Len(q) \/ ~q[n].now
       /\ \A k \in s..(n - 1) : q[k].now

\* Mutant: the guard for the running turn is missing.
SweepAll(drop) == Without(drop)

\* State::sweep_pending_inputs: the running turn's own slot is never swept.
Sweep(drop) == Without(drop \ {task})

\* Mutant: the sweep copies the buffer instead of draining it.
SweepMonitorBufferCopies == notes' = notes + events /\ events' = events

\* sweep_monitor_buffer_into_pending.
SweepMonitorBuffer == notes' = notes + events /\ events' = 0

Idle == [pc |-> "idle", ids |-> <<>>, taken |-> None, why |-> "none"]
At(pc) == [Idle EXCEPT !.pc = pc]

Init ==
  /\ queue = <<>> /\ task = None /\ pin = None
  /\ live = <<>> /\ done = <<>> /\ job = Idle
  /\ starters = {"mcp", "plan"}
  /\ inter = <<>> /\ notes = 0 /\ events = 0
  /\ suppressed = FALSE /\ rewindable = FALSE /\ gate = FALSE /\ waits = FALSE
  /\ delivered = {} /\ reported = {} /\ told = {}
  /\ minted = 0 /\ asked = {} /\ replies = {} /\ started = {} /\ ran = 0

-----------------------------------------------------------------------------
(* maybe_start_running_task: promotes the front without popping it.        *)
CanStart == task = None /\ queue # <<>>

\* Mutant: a pin that is set is left in place.
PromoteKeepsPin ==
  LET front == queue[1] IN
  /\ task' = front.id
  /\ pin' = IF pin = None THEN front.id ELSE pin
  /\ rewindable' = TRUE
  /\ live' = [t \in DOMAIN live \cup {front.id} |->
                IF t = front.id THEN "run" ELSE live[t]]
  /\ started' = started \cup {front.id}
  /\ ran' = front.ver
  /\ told' = IF front.kind = "wake" THEN told \cup {front.id} ELSE told
  /\ UNCHANGED <<queue, suppressed, notes, delivered, reported>>

Promote ==
  LET front == queue[1] IN
  /\ task' = front.id
  /\ pin' = front.id
  /\ rewindable' = TRUE
  /\ live' = [t \in DOMAIN live \cup {front.id} |->
                IF t = front.id THEN "run" ELSE live[t]]
  /\ started' = started \cup {front.id}
  /\ ran' = front.ver
  /\ told' = IF front.kind = "wake" THEN told \cup {front.id} ELSE told
  /\ UNCHANGED <<queue, suppressed, notes, delivered, reported>>

MaybeStart ==
  IF CanStart THEN Promote ELSE UNCHANGED <<state, wakes, promoted>>

\* The last step of most handlers; a completion goes on to the notifications.
Start ==
  /\ job.pc \in {"start", "startDrain"}
  /\ MaybeStart
  /\ job' = IF job.pc = "start" THEN Idle ELSE At("drain")
  /\ UNCHANGED <<done, starters, inter, events, clients, turnFlags, minted>>

\* A spawned task promotes: MCP initialisation is over, or the turn of a
\* resumed plan approval is queued.
StarterStart(s) ==
  /\ s \in {"mcp", "planStart"} \cap starters
  /\ MaybeStart
  /\ starters' = starters \ {s}
  /\ UNCHANGED <<done, job, inter, events, clients, turnFlags, minted>>

\* start_resume_turn: a synthetic prompt is queued outside the loop.
StarterQueue ==
  /\ "plan" \in starters /\ minted < MaxItems
  /\ minted' = minted + 1
  /\ queue' = Append(queue, Item(minted + 1, "inner", FALSE))
  /\ starters' = (starters \ {"plan"}) \cup {"planStart"}
  /\ UNCHANGED <<task, suppressed, rewindable, notes, done, job, inter, events,
                 wakes, clients, turnFlags, promoted>>

-----------------------------------------------------------------------------
(* Commands.                                                               *)
Receives == job.pc = "idle" /\ done = <<>>

Arrives(n) == Receives /\ minted < MaxItems /\ n = minted + 1 /\ minted' = n

\* A user prompt: synthetic prompts that wait give way to it when one of
\* them is a wake that is not running, and their wakes are un-marked.
Preempted ==
  LET armed == \E i \in ToSet(queue) : i.kind = "wake" /\ i.id # task
  IN IF armed THEN Sweep({i.id : i \in {j \in ToSet(queue) : Synthetic(j)}})
              ELSE queue

AutoSendNow(q) ==
  /\ task # None /\ waits
  /\ \A i \in ToSet(q) : Synthetic(i) \/ i.id = task

Prompt(sendNow) ==
  \E n \in Ids :
    LET q == Preempted
        now == sendNow \/ AutoSendNow(q)
    IN /\ Arrives(n)
       /\ suppressed' = FALSE
       /\ queue' = IF now THEN InsertAt(q, NowSlot(q), Item(n, "prompt", TRUE))
                          ELSE Append(q, Item(n, "prompt", FALSE))
       /\ delivered' = delivered \ (IdsOf(queue) \ IdsOf(q))
       /\ asked' = asked \cup {n}
       /\ IF now /\ task # None /\ ~gate
          THEN inter' = <<>> /\ job' = [At("cancel") EXCEPT !.why = "send_now"]
          ELSE inter' = inter /\ job' = At("start")
       /\ UNCHANGED <<task, rewindable, notes, done, starters, events, reported,
                      told, replies, turnFlags, promoted>>

\* An auto-wake prompt: a background task completed outside the goal loop.
\* The notification bridge marks it delivered, queue_input marks it reported.
Wake ==
  \E n \in Ids :
    /\ Arrives(n) /\ ~gate
    /\ queue' = Append(queue, Item(n, "wake", FALSE))
    /\ delivered' = delivered \cup {n}
    /\ reported' = reported \cup {n}
    /\ job' = At("start")
    /\ UNCHANGED <<task, suppressed, rewindable, notes, done, starters, inter,
                   events, told, clients, turnFlags, promoted>>

\* GoalSummaryTurn; a scheduled prompt is queued alike, but for the request
\* its client awaits, which is not modelled.
Summary ==
  \E n \in Ids :
    /\ Arrives(n)
    /\ queue' = Append(queue, Item(n, "inner", FALSE))
    /\ job' = At("start")
    /\ UNCHANGED <<task, suppressed, rewindable, notes, done, starters, inter,
                   events, wakes, clients, turnFlags, promoted>>

\* An interjection joins the turn that is pinned; otherwise it is queued as
\* a turn of its own.
Interject ==
  \E n \in Ids :
    /\ Arrives(n)
    /\ IF pin # None
       THEN /\ inter' = Append(inter, n) /\ queue' = queue /\ job' = job
       ELSE /\ queue' = InsertAt(queue, FrontSlot, Item(n, "fallback", TRUE))
            /\ inter' = inter /\ job' = At("start")
    /\ UNCHANGED <<task, suppressed, rewindable, notes, done, starters, events,
                   wakes, clients, turnFlags, promoted>>

\* InjectNotification: into the buffer of an active turn, or to the pending
\* notifications and at once on to the drain.
Inject ==
  /\ Receives /\ notes + events < MaxNotes
  /\ IF DOMAIN live # {}
     THEN \/ events' = events + 1 /\ notes' = notes /\ job' = job
          \/ events' = events /\ notes' = notes + 1 /\ job' = At("drain")
     ELSE events' = events /\ notes' = notes + 1 /\ job' = At("drain")
  /\ UNCHANGED <<queue, task, suppressed, rewindable, done, starters, inter,
                 wakes, clients, turnFlags, promoted, minted>>

-----------------------------------------------------------------------------
(* Edits of the shared queue.  A stale version, another client's row and   *)
(* the running turn are no-ops.                                            *)
Edits == <<task, suppressed, rewindable, notes, done, starters, events, wakes,
           turnFlags, promoted, minted, asked>>

\* Mutant: the items are dropped with their respond_to.
RemoveRowsSilently ==
  \E S \in (SUBSET Rows) \ {{}} :
    /\ Receives
    /\ queue' = Without(S)
    /\ UNCHANGED <<job, inter, replies, Edits>>

\* handle_remove_queued_prompt of one row, handle_clear_queue of several:
\* each removed prompt is answered.
RemoveRows ==
  \E S \in (SUBSET Rows) \ {{}} :
    /\ Receives
    /\ queue' = Without(S)
    /\ replies' = replies \cup S
    /\ UNCHANGED <<job, inter, Edits>>

\* handle_reorder_queue: the running turn and the synthetic items first.
Reorder ==
  \E order \in SetToSeqs(Rows) :
    LET row(id) == CHOOSE i \in ToSet(queue) : i.id = id
    IN /\ Receives
       /\ queue' = Without(Rows) \o [n \in DOMAIN order |-> row(order[n])]
       /\ UNCHANGED <<job, inter, replies, Edits>>

\* Mutant: the running turn's row is edited too.
EditRunning ==
  \E n \in DOMAIN queue :
    /\ Receives
    /\ queue[n].kind = "prompt" /\ queue[n].ver < MaxEdits
    /\ queue' = [queue EXCEPT ![n].ver = @ + 1]
    /\ UNCHANGED <<job, inter, replies, Edits>>

\* handle_edit_queued_prompt.
Edit ==
  \E n \in DOMAIN queue :
    /\ Receives
    /\ queue[n].id \in Rows /\ queue[n].ver < MaxEdits
    /\ queue' = [queue EXCEPT ![n].ver = @ + 1]
    /\ UNCHANGED <<job, inter, replies, Edits>>

\* handle_interject_queued_prompt, with or without a new text: the row runs
\* next, and the running turn is cancelled for it outside a goal loop.
SendNowRow ==
  \E n \in DOMAIN queue, edit \in {0, 1} :
    LET q == RemoveAt(queue, n)
        item == [queue[n] EXCEPT !.now = TRUE, !.ver = @ + edit]
    IN /\ Receives
       /\ queue[n].id \in Rows /\ queue[n].ver + edit <= MaxEdits
       /\ queue' = InsertAt(q, NowSlot(q), item)
       /\ IF task # None /\ ~gate
          THEN inter' = <<>> /\ job' = [At("cancel") EXCEPT !.why = "send_now"]
          ELSE inter' = inter /\ job' = At("start")
       /\ UNCHANGED <<replies, Edits>>

-----------------------------------------------------------------------------
(* Cancelling.  cancel_running_task takes the task and the front under the *)
(* lock, and aborts the turn, unpins it and answers only later.            *)

\* Mutant: the interjections of the cancelled turn are kept.
CancelKeepsInterjections(why) ==
  /\ Receives
  /\ inter' = inter
  /\ job' = [At("cancel") EXCEPT !.why = why]
  /\ UNCHANGED <<state, done, starters, events, wakes, clients, turnFlags,
                 promoted, minted>>

Cancel(why) ==
  /\ Receives
  /\ inter' = <<>>
  /\ job' = [At("cancel") EXCEPT !.why = why]
  /\ UNCHANGED <<state, done, starters, events, wakes, clients, turnFlags,
                 promoted, minted>>

Stopped(t) == [u \in DOMAIN live \ {t} |-> live[u]]

CancelTake ==
  /\ job.pc = "cancel"
  /\ LET rewinds == job.why = "rewind" /\ rewindable /\ queue # <<>>
         n == IF job.why = "hard" \/ queue = <<>> THEN Len(queue) ELSE 1
     IN /\ queue' = SubSeq(queue, n + 1, Len(queue))
        /\ task' = None
        /\ suppressed' = ~rewinds
        /\ rewindable' = IF job.why = "rewind" THEN FALSE ELSE rewindable
        /\ live' = IF rewinds THEN Stopped(task) ELSE live
        /\ job' = [pc |-> "cancelled",
                   ids |-> [k \in 1..n |-> queue[k].id],
                   taken |-> IF rewinds THEN None ELSE task,
                   why |-> IF rewinds \/ job.why # "rewind" THEN job.why
                                                            ELSE "esc"]
  /\ IF job.why = "hard" THEN notes' = 0 /\ events' = 0 ELSE SweepMonitorBuffer
  /\ UNCHANGED <<pin, started, ran, done, starters, inter, wakes, clients,
                 turnFlags, minted>>

\* Mutant: no prompt is started after a cancel.
CancelFinishStops ==
  /\ job.pc = "cancelled"
  /\ live' = Stopped(job.taken)
  /\ pin' = None
  /\ gate' = FALSE /\ waits' = FALSE
  /\ rewindable' = (rewindable /\ job.taken = None)
  /\ suppressed' = (suppressed /\ job.why # "send_now")
  /\ delivered' = IF job.why = "rewind" THEN delivered
                                        ELSE delivered \ ToSet(job.ids)
  /\ replies' = replies \cup (asked \cap ToSet(job.ids))
  /\ job' = Idle
  /\ UNCHANGED <<queue, task, notes, started, ran, done, starters, inter, events,
                 reported, told, asked, minted>>

\* A rewound wake stays marked; a cancelled one is un-marked.
CancelFinish ==
  /\ job.pc = "cancelled"
  /\ live' = Stopped(job.taken)
  /\ pin' = None
  /\ gate' = FALSE /\ waits' = FALSE
  /\ rewindable' = (rewindable /\ job.taken = None)
  /\ suppressed' = (suppressed /\ job.why # "send_now")
  /\ delivered' = IF job.why = "rewind" THEN delivered
                                        ELSE delivered \ ToSet(job.ids)
  /\ replies' = replies \cup (asked \cap ToSet(job.ids))
  /\ job' = At("start")
  /\ UNCHANGED <<queue, task, notes, started, ran, done, starters, inter, events,
                 reported, told, asked, minted>>

-----------------------------------------------------------------------------
(* handle_completion, flush_stranded_interjections and the idle drain.     *)
CompletionUnpin ==
  /\ job.pc = "idle" /\ done # <<>>
  /\ done' = Tail(done)
  /\ pin' = IF pin = Head(done) THEN None ELSE pin
  /\ gate' = (gate /\ pin' # None)
  /\ job' = [At("complete") EXCEPT !.taken = Head(done)]
  /\ UNCHANGED <<state, live, started, ran, starters, inter, events, wakes,
                 clients, waits, minted>>

\* Mutant: every completion clears the running task.
CompletionPopClears ==
  LET id == job.taken
      owned == queue # <<>> /\ queue[1].id = id
  IN /\ job.pc = "complete"
     /\ queue' = IF owned THEN Tail(queue) ELSE queue
     /\ replies' = IF owned THEN replies \cup (asked \cap {id}) ELSE replies
     /\ task' = None
     /\ rewindable' = (rewindable /\ ~owned)
     /\ SweepMonitorBuffer
     /\ job' = At("flush")
     /\ UNCHANGED <<suppressed, done, starters, inter, wakes, asked, turnFlags,
                    promoted, minted>>

\* A completion that does not match the front is stale: the turn was
\* cancelled meanwhile, and the task of the next one is left alone.
CompletionPop ==
  LET id == job.taken
      owned == queue # <<>> /\ queue[1].id = id
  IN /\ job.pc = "complete"
     /\ queue' = IF owned THEN Tail(queue) ELSE queue
     /\ replies' = IF owned THEN replies \cup (asked \cap {id}) ELSE replies
     /\ task' = IF owned \/ task = id THEN None ELSE task
     /\ rewindable' = (rewindable /\ ~owned)
     /\ SweepMonitorBuffer
     /\ job' = At("flush")
     /\ UNCHANGED <<suppressed, done, starters, inter, wakes, asked, turnFlags,
                    promoted, minted>>

FlushTake ==
  /\ job.pc = "flush"
  /\ job' = [At("strand") EXCEPT !.ids = inter]
  /\ inter' = <<>>
  /\ UNCHANGED <<state, done, starters, events, wakes, clients, turnFlags,
                 promoted, minted>>

\* The last one first, each at the front, so that they end in order.
FlushOne ==
  /\ job.pc = "strand"
  /\ IF job.ids = <<>>
     THEN queue' = queue /\ job' = At("startDrain")
     ELSE /\ queue' = InsertAt(queue, FrontSlot,
                               Item(Last(job.ids), "fallback", TRUE))
          /\ job' = [job EXCEPT !.ids = Front(@)]
  /\ UNCHANGED <<task, suppressed, rewindable, notes, done, starters, inter,
                 events, wakes, clients, turnFlags, promoted, minted>>

\* maybe_drain_notifications: one turn for all of them when the session is
\* idle; an active or complete goal drops them instead.
Drain ==
  /\ job.pc = "drain"
  /\ IF task = None /\ queue = <<>> /\ ~suppressed /\ notes + events > 0
     THEN /\ notes' = 0 /\ events' = 0
          /\ \/ /\ minted < MaxItems
                /\ minted' = minted + 1
                /\ queue' = <<Item(minted + 1, "inner", FALSE)>>
                /\ job' = At("start")
             \/ queue' = queue /\ minted' = minted /\ job' = Idle
     ELSE /\ job' = Idle /\ UNCHANGED <<queue, notes, events, minted>>
  /\ UNCHANGED <<task, suppressed, rewindable, done, starters, inter, wakes,
                 clients, turnFlags, promoted>>

-----------------------------------------------------------------------------
(* A turn.  It may go on between the cancel that takes it and the abort.   *)
Others == <<job, starters, queue, task, suppressed, started, ran, clients, minted>>

\* The first event a turn emits closes the rewind window.
TurnEmits(t) ==
  /\ t \in DOMAIN live /\ rewindable
  /\ rewindable' = FALSE
  /\ UNCHANGED <<Others, pin, live, done, inter, notes, events, wakes, turnFlags>>

\* A round of the goal loop sets the gate; a tool may wait interruptibly.
TurnFlags(t) ==
  /\ t \in DOMAIN live /\ live[t] = "run"
  /\ gate' \in BOOLEAN /\ waits' \in BOOLEAN
  /\ UNCHANGED <<Others, pin, live, done, inter, notes, events, wakes, rewindable>>

\* A safe point: interjections and monitor events join the conversation.
TurnDrains(t) ==
  /\ t \in DOMAIN live /\ live[t] = "run"
  /\ inter' = <<>> /\ events' = 0
  /\ UNCHANGED <<Others, pin, live, done, notes, wakes, turnFlags, rewindable>>

\* A tool result: it may consume a completion, whose wake and notifications
\* are swept.  The completion reminder marks the delivered ones and surfaces
\* those that are neither delivered nor reported; queue_input left none.
TurnTool(t) ==
  \E polled \in SUBSET (delivered \cup reported) :
    LET known == delivered \cup reported
    IN /\ t \in DOMAIN live /\ live[t] = "run"
       /\ Cardinality(polled) <= 1
       /\ queue' = Sweep(polled)
       /\ notes' \in 0..notes
       /\ told' = told \cup polled
       /\ reported' = known
       /\ delivered' = {}
       /\ UNCHANGED <<job, starters, task, suppressed, started, ran, clients,
                      minted, pin, live, done, inter, events, turnFlags,
                      rewindable>>

\* The scope guard is dropped, and the rest of handle_prompt runs unpinned.
TurnUnpins(t) ==
  /\ t \in DOMAIN live /\ live[t] = "run"
  /\ live' = [live EXCEPT ![t] = "tail"]
  /\ pin' = IF pin = t THEN None ELSE pin
  /\ waits' = FALSE
  /\ UNCHANGED <<Others, done, inter, notes, events, wakes, gate, rewindable>>

\* run_task sends the completion; from "run" when handle_prompt returned
\* before it made the guard.
TurnCompletes(t) ==
  /\ t \in DOMAIN live
  /\ live' = Stopped(t)
  /\ done' = Append(done, t)
  /\ waits' = FALSE
  /\ UNCHANGED <<Others, pin, inter, notes, events, wakes, gate, rewindable>>

-----------------------------------------------------------------------------
LoopStep ==
  \/ Start \/ CancelTake \/ CancelFinish \/ CompletionUnpin \/ CompletionPop
  \/ FlushTake \/ FlushOne \/ Drain

Command ==
  \/ \E now \in BOOLEAN : Prompt(now)
  \/ \E why \in {"esc", "rewind", "hard"} : Cancel(why)
  \/ Wake \/ Summary \/ Interject \/ Inject
  \/ RemoveRows \/ Reorder \/ Edit \/ SendNowRow

Turn(t) ==
  \/ TurnEmits(t) \/ TurnFlags(t) \/ TurnDrains(t) \/ TurnTool(t)
  \/ TurnUnpins(t) \/ TurnCompletes(t)

Next ==
  \/ LoopStep \/ Command
  \/ \E s \in {"mcp", "planStart"} : StarterStart(s)
  \/ StarterQueue
  \/ \E t \in Ids : Turn(t)

Spec == Init /\ [][Next]_vars

-----------------------------------------------------------------------------
(* Type correctness of the scheduling state.                               *)
TypeOK ==
  /\ queue \in Seq([id : Ids, kind : {"prompt", "fallback", "wake", "inner"},
                    now : BOOLEAN, ver : 0..MaxEdits])
  /\ task \in Ids \cup {None} /\ pin \in Ids \cup {None}
  /\ DOMAIN live \subseteq Ids /\ \A t \in DOMAIN live : live[t] \in {"run", "tail"}
  /\ done \in Seq(Ids) /\ inter \in Seq(Ids)
  /\ job.taken \in Ids \cup {None} /\ job.ids \in Seq(Ids)
  /\ starters \subseteq {"mcp", "plan", "planStart"}
  /\ notes \in 0..MaxNotes /\ events \in 0..MaxNotes
  /\ {suppressed, rewindable, gate, waits} \subseteq BOOLEAN
  /\ delivered \cup reported \cup told \cup asked \cup replies \cup started
       \subseteq Ids
  /\ minted \in 0..MaxItems /\ ran \in 0..MaxEdits

\* The in-flight turn is always pending_inputs.front(): every sweep, edit,
\* insertion, cancel and completion keeps it there.  The cancel answers and
\* drops index 0, so a prompt that shifted to the front of a running turn
\* would be destroyed unrun.
RunningIsFront == task # None => queue # <<>> /\ queue[1].id = task

\* No respond_to is dropped: a user's prompt whose client awaits
\* session/prompt is still queued, or held by the cancel that is about to answer it, or has
\* been answered.
PromptKept == asked \subseteq replies \cup IdsOf(queue) \cup ToSet(job.ids)

\* The pin never names another turn than the running task, whoever promoted
\* it and whichever completion unpinned it (the debug_assert of
\* cancel_running_task).
PinIsRunning == pin # None /\ task # None => pin = task

\* No edit is lost in the promotion: the row of the running turn still has
\* the text the turn was started with.
EditRuns == task # None => queue[1].ver = ran

\* No prompt is spawned twice, although three tasks promote the front and
\* stale completions of cancelled turns arrive while the next one runs.
RunsOnce == [][task' # task /\ task' # None => task' \notin started]_vars

\* A queue that is not empty has somebody to run it: the running turn exists
\* or its completion is on the way, and without one the loop or a starter is
\* about to promote the front.  Otherwise session/prompt would hang.
QueueIsDriven ==
  /\ task # None =>
       \/ task \in DOMAIN live \cup ToSet(done)
       \/ job.pc = "complete" /\ job.taken = task
  /\ task = None /\ queue # <<>> =>
       \/ job.pc \in {"cancel", "cancelled", "complete", "flush", "strand",
                     "start", "startDrain"}
       \/ done # <<>> \/ "planStart" \in starters

\* A buffered interjection has a turn to drain it or a completion to flush
\* it: none strands in pending_interjections when the turn it was sent to is
\* over (queue_interjection_fallback_prompt: "silently lost").
InterjectionsLand ==
  inter # <<>> => DOMAIN live # {} \/ done # <<>> \/ job.pc \in {"complete", "flush"}

\* A completion the session has marked as reported has been told to the
\* model, or its wake is still queued or running (prompt_queue.rs: un-mark
\* preempted IDs so TaskCompletionReminder can report them on the next pass
\* instead of permanently suppressing them).
NoSilentCompletion == reported \subseteq told \cup IdsOf(queue) \cup ToSet(job.ids)
============================================================================

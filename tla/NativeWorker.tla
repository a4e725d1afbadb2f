----------------------------- MODULE NativeWorker -----------------------------
(***************************************************************************)
(* The helper process that holds the native library, and the process that  *)
(* owns it (src/pstrain/lib/native_worker.py).  Calls are serialised by    *)
(* the module's lock; a call starts the helper when there is none, sends   *)
(* one request under a deadline, resends it once when the send fails, and  *)
(* turns whatever happens to the helper into one outcome.  The helper may  *)
(* die or stop between any two of its steps, in the middle of a message    *)
(* too; the caller may be interrupted while it blocks; the owning process  *)
(* may exit or be killed.                                                  *)
(*                                                                         *)
(* Payloads and diagnostics are left out.  An operation is only its kind   *)
(* and the remote object it is about.                                      *)
(***************************************************************************)
EXTENDS Naturals, Sequences, FiniteSets

CONSTANTS
    MaxCalls,       \* bound: requests made by the owner
    MaxHelpers,     \* bound: helper processes spawned
    Objects,        \* remote objects (NativeObjectProxy)
    NoObj,          \* the object of an operation that has none
    InterruptAt,    \* where a KeyboardInterrupt may hit the caller
    Finalizers      \* may the collector run a wrapper's __del__ inside a call?

Calls == 1..MaxCalls
Helpers == 1..MaxHelpers
Blocking == {"starting", "sending", "waiting", "receiving", "discarding"}

ASSUME ConstantsAssumption ==
    /\ MaxCalls \in Nat \ {0}
    /\ MaxHelpers \in Nat \ {0}
    /\ NoObj \notin Objects
    /\ InterruptAt \subseteq Blocking
    /\ Finalizers \in BOOLEAN

Ops == [kind : {"oneshot"}, obj : {NoObj}]
         \cup [kind : {"create", "method", "close"}, obj : Objects]

\* A status that is not 0 and a validation error are errors here.
Answers == {"result", "error"}
Refusals == {"invalid", "unstartable", "unsent"}
Losses == {"timedout", "crash", "fatal", "protocol", "interrupted",
           "unclassified"}

\* A request as it lies in the pipe: whole, or the part written so far.
Frames == [whole : BOOLEAN, id : Calls, call : Calls]
Ready == [kind |-> "ready", id |-> 0, call |-> 0]
\* The rest of a message whose beginning a recv took before it was interrupted.
Rest == [kind |-> "rest", id |-> 0, call |-> 0]
Replies == [kind : Answers, id : Calls, call : Calls] \cup {Ready, Rest}
NoJob == [whole |-> FALSE, id |-> 0, call |-> 0]

VARIABLES
    stage,      \* where the call that holds _lock is; "free": nobody holds it
    serial,     \* number of the current, or else the last, call
    reqId,      \* its request id
    retried,    \* has its send been repeated on a second helper
    partial,    \* has a part of its frame been written
    late,       \* has its deadline passed
    lastId,     \* _request_id
    current,    \* the helper behind _process and _connection, 0 for None
    leaving,    \* the helper a discard is joining, or 0
    proxies,    \* each remote object as its owner sees it
    exit        \* the end of the owning process

ids == <<serial, reqId, lastId>>
progress == <<retried, partial, late>>
hold == <<current, leaving>>
owner == <<stage, ids, progress, hold, proxies, exit>>

VARIABLES
    life,       \* each helper process
    status,     \* how it ended
    inbox,      \* requests on their way to it
    outbox,     \* its messages on their way to the owner
    job,        \* the request it is working on
    reply,      \* the answer it is about to send
    begun,      \* is a part of that answer in the pipe, behind outbox; "torn":
                \* its beginning went to a recv that was interrupted
    objects,    \* the objects it holds
    dirty       \* does native session state linger in it

inside == <<job, reply, begun, objects, dirty>>
helpers == <<life, status, inbox, outbox, inside>>

VARIABLES
    op,         \* history: the operation of each call
    outcome,    \* history: what its caller was told
    answer,     \* history: the call whose reply the caller was given
    runs,       \* history: how often it was started
    done,       \* history: the answer its operation came to
    clean       \* history: was it started without lingering session state

history == <<op, outcome, answer, runs, done, clean>>
vars == <<owner, helpers, history>>

OpenEnd(h) == life[h] \in {"booting", "idle", "busy", "replying"}
\* The pipe closes a moment before the process ends ("dying").
IsAlive(h) == OpenEnd(h) \/ life[h] = "dying"
Linked(h) == current = h

-------------------------------------------------------------------------------
Init ==
    /\ stage = "free" /\ serial = 0 /\ reqId = 0 /\ lastId = 0
    /\ retried = FALSE /\ partial = FALSE /\ late = FALSE
    /\ current = 0 /\ leaving = 0 /\ exit = "running"
    /\ proxies = [o \in Objects |-> "none"]
    /\ life = [h \in Helpers |-> "unborn"]
    /\ status = [h \in Helpers |-> "none"]
    /\ inbox = [h \in Helpers |-> <<>>]
    /\ outbox = [h \in Helpers |-> <<>>]
    /\ job = [h \in Helpers |-> NoJob]
    /\ reply = [h \in Helpers |-> "none"]
    /\ begun = [h \in Helpers |-> "none"]
    /\ objects = [h \in Helpers |-> {}]
    /\ dirty = [h \in Helpers |-> FALSE]
    /\ op = [c \in Calls |-> [kind |-> "oneshot", obj |-> NoObj]]
    /\ outcome = [c \in Calls |-> "none"]
    /\ answer = [c \in Calls |-> 0]
    /\ runs = [c \in Calls |-> 0]
    /\ done = [c \in Calls |-> "none"]
    /\ clean = [c \in Calls |-> FALSE]

-------------------------------------------------------------------------------
(* The owner.                                                              *)

\* A proxy calls methods and close() only while its object id is set; the
\* owner makes each object once.
Permitted(o) ==
    CASE o.kind = "oneshot" -> TRUE
      [] o.kind = "create" -> proxies[o.obj] = "none"
      [] o.kind \in {"method", "close"} -> proxies[o.obj] = "open"

\* The constructor of a proxy returns only after a result; close() forgets the
\* object id whatever happened.
ProxiesAfter(o, told) ==
    CASE o.kind = "create" /\ told = "result" -> [proxies EXCEPT ![o.obj] = "open"]
      [] o.kind = "create" /\ told # "result" -> [proxies EXCEPT ![o.obj] = "gone"]
      [] o.kind = "close" -> [proxies EXCEPT ![o.obj] = "gone"]
      [] OTHER -> proxies

\* The call returns or raises, and releases _lock.
Tell(told) ==
    /\ stage' = "free"
    /\ retried' = FALSE /\ partial' = FALSE /\ late' = FALSE
    /\ outcome' = [outcome EXCEPT ![serial] = told]
    /\ proxies' = ProxiesAfter(op[serial], told)
    /\ UNCHANGED <<ids, exit, op, runs, done, clean>>

\* _discard of a helper that is dead, or is killed and joined here: its pipe
\* and what it held are gone.
Reclaimed(h) ==
    /\ life' = [life EXCEPT ![h] = "dead"]
    /\ inbox' = [inbox EXCEPT ![h] = <<>>]
    /\ outbox' = [outbox EXCEPT ![h] = <<>>]
    /\ job' = [job EXCEPT ![h] = NoJob]
    /\ reply' = [reply EXCEPT ![h] = "none"]
    /\ begun' = [begun EXCEPT ![h] = "none"]
    /\ objects' = [objects EXCEPT ![h] = {}]
    /\ dirty' = [dirty EXCEPT ![h] = FALSE]
    /\ UNCHANGED status

\* A failure that costs the helper.
Abandon(told) ==
    /\ Reclaimed(current)
    /\ current' = 0
    /\ Tell(told)
    /\ UNCHANGED <<leaving, answer>>

\* The helper is reused while its process is alive, and only then.
Begin(o) ==
    /\ stage = "free" /\ exit = "running" /\ serial < MaxCalls
    /\ Permitted(o)
    /\ serial' = serial + 1
    /\ op' = [op EXCEPT ![serial + 1] = o]
    /\ outcome' = [outcome EXCEPT ![serial + 1] = "pending"]
    /\ reqId' = lastId + 1
    /\ IF current # 0 /\ IsAlive(current)
          THEN stage' = "sending" /\ lastId' = lastId + 1
          ELSE stage' = "spawning" /\ UNCHANGED lastId
    /\ UNCHANGED <<progress, hold, proxies, exit, helpers, answer, runs, done,
                   clean>>

\* A request that is not routed, or too large, is refused before any helper.
Refuse(o) ==
    /\ stage = "free" /\ exit = "running" /\ serial < MaxCalls
    /\ o.kind # "close"
    /\ Permitted(o)
    /\ serial' = serial + 1
    /\ op' = [op EXCEPT ![serial + 1] = o]
    /\ outcome' = [outcome EXCEPT ![serial + 1] = "invalid"]
    /\ proxies' = ProxiesAfter(o, "invalid")
    /\ UNCHANGED <<stage, reqId, lastId, progress, hold, exit, helpers, answer,
                   runs, done, clean>>

DeadlinePasses ==
    /\ stage \in {"spawning", "starting", "sending", "waiting"}
    /\ ~late
    /\ late' = TRUE
    /\ UNCHANGED <<stage, ids, retried, partial, hold, proxies, exit, helpers,
                   history>>

Spawn ==
    /\ stage = "spawning"
    /\ \E h \in Helpers :
         /\ life[h] = "unborn"
         /\ \A g \in Helpers : g < h => life[g] # "unborn"
         /\ life' = [life EXCEPT ![h] = "booting"]
         /\ current' = h
    /\ stage' = "starting"
    /\ UNCHANGED <<ids, progress, leaving, proxies, exit, status, inbox,
                   outbox, inside, history>>

\* process.start raises; what a dead helper left behind was reclaimed first.
SpawnFails ==
    /\ stage = "spawning"
    /\ current' = 0
    /\ Tell("unstartable")
    /\ UNCHANGED <<leaving, helpers, answer>>

Started ==
    /\ stage = "starting"
    /\ outbox[current] # <<>>
    /\ outbox' = [outbox EXCEPT ![current] = Tail(@)]
    /\ stage' = "sending"
    /\ lastId' = reqId
    /\ UNCHANGED <<serial, reqId, progress, hold, proxies, exit, life, status,
                   inbox, inside, history>>

\* It died before it was ready, or was not ready within the start timeout.
StartFails ==
    /\ stage = "starting"
    /\ outbox[current] = <<>>
    /\ Abandon("unstartable")

Frame(whole) == [whole |-> whole, id |-> reqId, call |-> serial]

\* os.write takes a part of the frame, then the rest.
SendSome ==
    /\ stage = "sending" /\ ~late /\ ~partial
    /\ OpenEnd(current)
    /\ inbox' = [inbox EXCEPT ![current] = Append(@, Frame(FALSE))]
    /\ partial' = TRUE
    /\ UNCHANGED <<stage, ids, retried, late, hold, proxies, exit, life,
                   status, outbox, inside, history>>

SendRest ==
    /\ stage = "sending" /\ ~late
    /\ OpenEnd(current)
    /\ inbox' = [inbox EXCEPT ![current] =
                   IF partial THEN [@ EXCEPT ![Len(@)] = Frame(TRUE)]
                              ELSE Append(@, Frame(TRUE))]
    /\ stage' = "waiting"
    /\ partial' = FALSE
    /\ UNCHANGED <<ids, retried, late, hold, proxies, exit, life, status,
                   outbox, inside, history>>

\* Mistaken: the deadline bounds the wait and not the send.
SendUnbounded ==
    /\ stage = "sending" /\ late /\ ~OpenEnd(current)
    /\ Abandon("timedout")

SendTimesOut ==
    /\ stage = "sending" /\ late
    /\ Abandon("timedout")

\* The first failed send: a fresh helper, and the request once more.
SendFails ==
    /\ stage = "sending" /\ ~late /\ ~retried
    /\ ~OpenEnd(current)
    /\ Reclaimed(current)
    /\ current' = 0
    /\ stage' = "spawning"
    /\ retried' = TRUE /\ partial' = FALSE
    /\ UNCHANGED <<ids, late, leaving, proxies, exit, history>>

\* How _raise_death classifies a helper whose exit code is known, or is not.
Classified(h) ==
    CASE life[h] # "dead" -> "protocol"
      [] life[h] = "dead" /\ status[h] = "signal" -> "crash"
      [] life[h] = "dead" /\ status[h] = "nonzero" -> "fatal"
      [] life[h] = "dead" /\ status[h] \in {"zero", "none"} -> "protocol"

SendFailsAgain ==
    /\ stage = "sending" /\ ~late /\ retried
    /\ ~OpenEnd(current)
    /\ Abandon(IF IsAlive(current) THEN "unsent" ELSE Classified(current))

\* wait() has returned and recv has not: a part of a message is there.
\* recv has no deadline.
BeginReceive ==
    /\ stage = "waiting"
    /\ \/ outbox[current] = <<>> /\ begun[current] # "none"
       \/ outbox[current] # <<>> /\ Head(outbox[current]) = Rest
    /\ stage' = "receiving"
    /\ UNCHANGED <<ids, progress, hold, proxies, exit, helpers, history>>

\* Mistaken: whatever comes first is taken for the response.
ReceiveAny ==
    /\ stage \in {"waiting", "receiving"}
    /\ outbox[current] # <<>> /\ Head(outbox[current]).kind \in Answers
    /\ Tell(Head(outbox[current]).kind)
    /\ answer' = [answer EXCEPT ![serial] = Head(outbox[current]).call]
    /\ outbox' = [outbox EXCEPT ![current] = Tail(@)]
    /\ UNCHANGED <<hold, life, status, inbox, inside>>

\* The response must be to this request; anything else ends the helper.
Receive ==
    /\ stage \in {"waiting", "receiving"}
    /\ outbox[current] # <<>>
    /\ LET message == Head(outbox[current]) IN
         \/ /\ message = Ready
            /\ Tell("unclassified")
            /\ UNCHANGED <<hold, answer>>
         \/ /\ message.kind \in Answers /\ message.id = reqId
            /\ Tell(message.kind)
            /\ answer' = [answer EXCEPT ![serial] = message.call]
            /\ UNCHANGED hold
         \/ /\ message.kind \in Answers /\ message.id # reqId
            /\ stage' = "discarding"
            /\ leaving' = current
            /\ current' = 0
            /\ UNCHANGED <<ids, progress, proxies, exit, history>>
    /\ outbox' = [outbox EXCEPT ![current] = Tail(@)]
    /\ UNCHANGED <<life, status, inbox, inside>>

\* n messages have left the pipe, and a part of the next one when cut.
Swallowed(n, cut) ==
    LET box == outbox[current]
        left == SubSeq(box, n + 1, Len(box))
    IN  /\ outbox' = [outbox EXCEPT ![current] =
                        IF cut /\ left # <<>> THEN <<Rest>> \o Tail(left) ELSE left]
        /\ begun' = [begun EXCEPT ![current] =
                       IF cut /\ left = <<>> /\ @ = "begun" THEN "torn" ELSE @]
        /\ UNCHANGED <<life, status, inbox, job, reply, objects, dirty>>

\* recv takes bytes from the middle of a message for a header, and what follows
\* for a message: unpickling raises an error that no arm of call catches, or
\* EOFError, which is taken for the end of the helper.
GarbledReply ==
    /\ stage \in {"waiting", "receiving"}
    /\ \/ outbox[current] = <<>> /\ begun[current] = "torn"
       \/ outbox[current] # <<>> /\ Head(outbox[current]) = Rest
    /\ \/ Abandon(Classified(current))
       \/ /\ \E n \in 0..Len(outbox[current]), cut \in BOOLEAN : Swallowed(n, cut)
          /\ Tell("unclassified")
          /\ UNCHANGED <<hold, answer>>

\* _discard joins for a second, in which the helper still works, then kills.
Discarded ==
    /\ stage = "discarding"
    /\ Reclaimed(leaving)
    /\ leaving' = 0
    /\ Tell("protocol")
    /\ UNCHANGED <<current, answer>>

\* Mistaken: a helper that dies before it answers is replaced and the request
\* sent again, as when the send fails.
HelperLostThenResend ==
    /\ stage \in {"waiting", "receiving"}
    /\ outbox[current] = <<>> /\ ~OpenEnd(current)
    /\ \/ /\ retried
          /\ Abandon(Classified(current))
       \/ /\ ~retried
          /\ Reclaimed(current)
          /\ current' = 0
          /\ stage' = "spawning"
          /\ retried' = TRUE /\ partial' = FALSE
          /\ UNCHANGED <<ids, late, leaving, proxies, exit, history>>

HelperLost ==
    /\ stage \in {"waiting", "receiving"}
    /\ outbox[current] = <<>> /\ ~OpenEnd(current)
    /\ Abandon(Classified(current))

\* recv raises an error that no arm of call catches, and the helper stays: the
\* pipe ends in the middle of a message, or Linux resets the connection to a
\* peer that closed it with unread requests.
WaitIsReset ==
    /\ stage \in {"waiting", "receiving"}
    /\ outbox[current] = <<>> /\ ~OpenEnd(current)
    /\ inbox[current] # <<>> \/ begun[current] # "none"
    /\ Tell("unclassified")
    /\ UNCHANGED <<hold, helpers, answer>>

WaitTimesOut ==
    /\ stage = "waiting" /\ late
    /\ outbox[current] = <<>> /\ OpenEnd(current)
    /\ begun[current] # "begun"
    /\ Abandon("timedout")

\* A KeyboardInterrupt where the caller blocks; nothing is cleaned up.
Interrupt ==
    /\ stage \in InterruptAt \ {"receiving"}
    /\ leaving' = 0
    /\ Tell("interrupted")
    /\ UNCHANGED <<current, helpers, answer>>

\* In recv: nothing, a part or all of a message has left the pipe, and more of
\* it when recv was reading from the middle of one.
InterruptedReceive ==
    /\ "receiving" \in InterruptAt
    /\ stage \in {"waiting", "receiving"}
    /\ outbox[current] # <<>> \/ begun[current] # "none"
    /\ \E n \in 0..Len(outbox[current]), cut \in BOOLEAN :
         /\ (outbox[current] = <<>> \/ Head(outbox[current]) # Rest)
              => n = 0 \/ (n = 1 /\ ~cut)
         /\ Swallowed(n, cut)
    /\ Tell("interrupted")
    /\ UNCHANGED <<hold, answer>>

\* A collection inside a call runs the __del__ of a dropped wrapper, which
\* closes its proxy: it waits for the lock its own thread holds.
CollectInCall ==
    /\ Finalizers
    /\ stage \in Blocking \cup {"spawning"}
    /\ \E o \in Objects : proxies[o] = "open" /\ op[serial].obj # o
    /\ stage' = "blocked"
    /\ UNCHANGED <<ids, progress, hold, proxies, exit, helpers, history>>

\* Mistaken: _shutdown is left to atexit, after the children are joined.
BeginExitWithoutFinalizer ==
    /\ stage = "free" /\ exit = "running"
    /\ exit' = "joining"
    /\ UNCHANGED <<stage, ids, progress, hold, proxies, helpers, history>>

\* _shutdown comes before the children are joined, by the Finalize registered
\* in a pool worker and by the order of atexit handlers elsewhere.
BeginExit ==
    /\ stage = "free" /\ exit = "running"
    /\ exit' = IF current # 0 THEN "closing" ELSE "joining"
    /\ UNCHANGED <<stage, ids, progress, hold, proxies, helpers, history>>

\* close() sends None, with no deadline, and closes the pipe; that a helper has
\* gone is ignored.
CloseSends ==
    /\ exit = "closing"
    /\ exit' = "reclaiming"
    /\ leaving' = current
    /\ current' = 0
    /\ UNCHANGED <<stage, ids, progress, proxies, helpers, history>>

\* The send of close() waits for room that only the helper can make.
Unread == exit = "closing" /\ inbox[current] # <<>> /\ OpenEnd(current)

\* It joins for a second, in which the helper still works, then kills.
CloseJoins ==
    /\ exit = "reclaiming"
    /\ exit' = "joining"
    /\ leaving' = 0
    /\ Reclaimed(leaving)
    /\ UNCHANGED <<stage, ids, progress, current, proxies, history>>

\* multiprocessing joins every child, with no timeout.
EndExit ==
    /\ exit = "joining"
    /\ \A h \in Helpers : ~IsAlive(h)
    /\ exit' = "gone"
    /\ UNCHANGED <<stage, ids, progress, hold, proxies, helpers, history>>

\* The owning process is killed; its end of every pipe closes.
OwnerDies ==
    /\ exit # "gone"
    /\ exit' = "gone"
    /\ stage' = "free"
    /\ current' = 0 /\ leaving' = 0
    /\ UNCHANGED <<ids, progress, proxies, helpers, history>>

-------------------------------------------------------------------------------
(* The helper.                                                             *)

Boot(h) ==
    /\ life[h] = "booting"
    /\ \/ /\ Linked(h)
          /\ life' = [life EXCEPT ![h] = "idle"]
          /\ outbox' = [outbox EXCEPT ![h] = Append(@, Ready)]
          /\ UNCHANGED status
       \/ /\ ~Linked(h)
          /\ life' = [life EXCEPT ![h] = "dying"]
          /\ status' = [status EXCEPT ![h] = "nonzero"]
          /\ UNCHANGED outbox
    /\ UNCHANGED <<owner, inbox, inside, history>>

\* An operation starts, in whatever session state the helper has.
Recv(h) ==
    /\ life[h] = "idle"
    /\ inbox[h] # <<>> /\ Head(inbox[h]).whole
    /\ life' = [life EXCEPT ![h] = "busy"]
    /\ job' = [job EXCEPT ![h] = Head(inbox[h])]
    /\ inbox' = [inbox EXCEPT ![h] = Tail(@)]
    /\ runs' = [runs EXCEPT ![Head(inbox[h]).call] = @ + 1]
    /\ clean' = [clean EXCEPT ![Head(inbox[h]).call] = ~dirty[h]]
    /\ UNCHANGED <<owner, status, outbox, reply, begun, objects, dirty, op,
                   outcome, answer, done>>

\* recv fails on a frame cut short: the bytes of the next one follow it, or
\* the owner's end has closed.
Garbled(h) ==
    /\ life[h] = "idle"
    /\ inbox[h] # <<>> /\ ~Head(inbox[h]).whole
    /\ Len(inbox[h]) > 1 \/ ~Linked(h)
    /\ life' = [life EXCEPT ![h] = "dying"]
    /\ status' = [status EXCEPT ![h] = "nonzero"]
    /\ UNCHANGED <<owner, inbox, outbox, inside, history>>

\* Mistaken: EOF is taken for a spurious wake-up.
KeepsListening(h) ==
    /\ life[h] = "idle"
    /\ inbox[h] = <<>> /\ ~Linked(h)
    /\ UNCHANGED vars

\* EOF, or the None of close(): the helper leaves its loop and exits.
SeesEnd(h) ==
    /\ life[h] = "idle"
    /\ inbox[h] = <<>> /\ ~Linked(h)
    /\ life' = [life EXCEPT ![h] = "dying"]
    /\ status' = [status EXCEPT ![h] = "zero"]
    /\ UNCHANGED <<owner, inbox, outbox, inside, history>>

\* The objects after an operation that ended with an answer, in _dispatch.  An
\* object that is not in this helper is a KeyError; closing one is a no-op.
ObjectsAfter(h, o, a) ==
    CASE o.kind = "create" /\ a = "result" -> objects[h] \cup {o.obj}
      [] o.kind = "close" -> objects[h] \ {o.obj}
      [] OTHER -> objects[h]

CanEnd(h, o, a) ==
    /\ o.kind = "method" /\ o.obj \notin objects[h] => a = "error"
    /\ o.kind = "close" /\ o.obj \notin objects[h] => a = "result"

\* Mistaken: the session is reset only after an operation that succeeded.
RunResettingOnSuccess(h) ==
    /\ life[h] = "busy"
    /\ \E a \in Answers :
         LET c == job[h].call
             left == ObjectsAfter(h, op[c], a)
         IN  /\ CanEnd(h, op[c], a)
             /\ reply' = [reply EXCEPT ![h] = a]
             /\ done' = [done EXCEPT ![c] = a]
             /\ objects' = [objects EXCEPT ![h] = left]
             /\ dirty' = [dirty EXCEPT ![h] = a = "error" \/ left # {}]
    /\ life' = [life EXCEPT ![h] = "replying"]
    /\ UNCHANGED <<owner, status, inbox, outbox, job, begun, op, outcome,
                   answer, runs, clean>>

\* The operation ends; pstrain_session_reset runs when no object is live,
\* whether it returned or raised, and before the answer is sent.
Run(h) ==
    /\ life[h] = "busy"
    /\ \E a \in Answers :
         LET c == job[h].call
             left == ObjectsAfter(h, op[c], a)
         IN  /\ CanEnd(h, op[c], a)
             /\ reply' = [reply EXCEPT ![h] = a]
             /\ done' = [done EXCEPT ![c] = a]
             /\ objects' = [objects EXCEPT ![h] = left]
             /\ dirty' = [dirty EXCEPT ![h] = left # {}]
    /\ life' = [life EXCEPT ![h] = "replying"]
    /\ UNCHANGED <<owner, status, inbox, outbox, job, begun, op, outcome,
                   answer, runs, clean>>

\* send writes a part of the answer when the pipe has no room for all of it.
ReplySome(h) ==
    /\ life[h] = "replying" /\ Linked(h)
    /\ begun[h] = "none"
    /\ begun' = [begun EXCEPT ![h] = "begun"]
    /\ UNCHANGED <<owner, life, status, inbox, outbox, job, reply, objects,
                   dirty, history>>

Response(h) ==
    IF begun[h] = "torn"
      THEN Rest
      ELSE [kind |-> reply[h], id |-> job[h].id, call |-> job[h].call]

Reply(h) ==
    /\ life[h] = "replying"
    /\ \/ /\ Linked(h)
          /\ outbox' = [outbox EXCEPT ![h] = Append(@, Response(h))]
          /\ life' = [life EXCEPT ![h] = "idle"]
          /\ UNCHANGED status
       \/ /\ ~Linked(h)
          /\ life' = [life EXCEPT ![h] = "dying"]
          /\ status' = [status EXCEPT ![h] = "nonzero"]
          /\ UNCHANGED outbox
    /\ job' = [job EXCEPT ![h] = NoJob]
    /\ reply' = [reply EXCEPT ![h] = "none"]
    /\ begun' = [begun EXCEPT ![h] = "none"]
    /\ UNCHANGED <<owner, inbox, objects, dirty, history>>

\* A signal, E_FATAL, or exit(0) in the middle of an operation.
Dies(h) ==
    /\ OpenEnd(h)
    /\ \E how \in {"signal", "nonzero", "zero"} :
         /\ how = "zero" => life[h] = "busy"
         /\ status' = [status EXCEPT ![h] = how]
    /\ life' = [life EXCEPT ![h] = "dying"]
    /\ UNCHANGED <<owner, inbox, outbox, inside, history>>

Ended(h) ==
    /\ life[h] = "dying"
    /\ life' = [life EXCEPT ![h] = "dead"]
    /\ UNCHANGED <<owner, status, inbox, outbox, inside, history>>

-------------------------------------------------------------------------------
CallStep ==
    \/ DeadlinePasses \/ Spawn \/ SpawnFails \/ Started \/ StartFails
    \/ SendSome \/ SendRest \/ SendTimesOut \/ SendFails \/ SendFailsAgain
    \/ BeginReceive \/ Receive \/ GarbledReply \/ Discarded \/ HelperLost
    \/ WaitIsReset \/ WaitTimesOut

HelperStep(h) ==
    Boot(h) \/ Recv(h) \/ Garbled(h) \/ SeesEnd(h) \/ Run(h) \/ ReplySome(h)
      \/ Reply(h) \/ Ended(h)

Next ==
    \/ \E o \in Ops : Begin(o) \/ Refuse(o)
    \/ CallStep \/ Interrupt \/ InterruptedReceive \/ CollectInCall
    \/ BeginExit \/ CloseSends \/ CloseJoins \/ EndExit \/ OwnerDies
    \/ \E h \in Helpers : HelperStep(h) \/ Dies(h)

Spec == Init /\ [][Next]_vars

\* Time passes and the owner is scheduled: each step of a call that stays
\* possible is taken.  Nothing is asked of the helper or of the pipe, nor of a
\* send or a recv that waits for the helper.
OwnerFairness ==
    /\ WF_vars(DeadlinePasses)
    /\ WF_vars(Spawn \/ SpawnFails) /\ WF_vars(Started \/ StartFails)
    /\ WF_vars(SendTimesOut) /\ WF_vars(SendFails) /\ WF_vars(SendFailsAgain)
    /\ WF_vars(Receive) /\ WF_vars(Discarded)
    /\ WF_vars(HelperLost \/ WaitTimesOut)
    /\ WF_vars(~Unread /\ CloseSends) /\ WF_vars(CloseJoins) /\ WF_vars(EndExit)

\* Its operations return or kill it, and the system ends a dying process.
HelperFairness == \A h \in Helpers : WF_vars(HelperStep(h))

FairSpec == Spec /\ OwnerFairness

-------------------------------------------------------------------------------
(* Properties.                                                             *)

OwnerOK ==
    /\ stage \in Blocking \cup {"free", "spawning", "blocked"}
    /\ serial \in 0..MaxCalls /\ reqId \in 0..MaxCalls /\ lastId \in 0..MaxCalls
    /\ retried \in BOOLEAN /\ partial \in BOOLEAN /\ late \in BOOLEAN
    /\ current \in Helpers \cup {0} /\ leaving \in Helpers \cup {0}
    /\ proxies \in [Objects -> {"none", "open", "gone"}]
    /\ exit \in {"running", "closing", "reclaiming", "joining", "gone"}

HelpersOK ==
    /\ life \in [Helpers -> {"unborn", "booting", "idle", "busy", "replying",
                             "dying", "dead"}]
    /\ status \in [Helpers -> {"none", "signal", "nonzero", "zero"}]
    /\ inbox \in [Helpers -> Seq(Frames)]
    /\ outbox \in [Helpers -> Seq(Replies)]
    /\ job \in [Helpers -> Frames \cup {NoJob}]
    /\ reply \in [Helpers -> Answers \cup {"none"}]
    /\ begun \in [Helpers -> {"none", "begun", "torn"}]
    /\ objects \in [Helpers -> SUBSET Objects]
    /\ dirty \in [Helpers -> BOOLEAN]

HistoryOK ==
    /\ op \in [Calls -> Ops]
    /\ outcome \in [Calls -> {"none", "pending"} \cup Answers \cup Refusals
                               \cup Losses]
    /\ answer \in [Calls -> 0..MaxCalls]
    /\ runs \in [Calls -> Nat]
    /\ done \in [Calls -> Answers \cup {"none"}]
    /\ clean \in [Calls -> BOOLEAN]

TypeOK == OwnerOK /\ HelpersOK /\ HistoryOK

\* An answer is the answer of the call it is given to, also after calls that
\* were interrupted and left their requests or replies in the pipe.
AnswerIsOwn == \A c \in Calls :
    outcome[c] \in Answers => answer[c] = c /\ done[c] = outcome[c]

\* "One helper per owning process": two never live at once, so two native
\* calls never run at once.
OneHelper == \A g, h \in Helpers : IsAlive(g) /\ IsAlive(h) => g = h

\* The promise to the caller.
Promise == INSTANCE AtMostOnce WITH started <- runs
KeepsPromise == Promise!Spec

\* A result that a caller gets while it holds no object was computed without
\* the session state of earlier operations.
ResultsAreClean == [][
    \A c \in Calls :
      /\ outcome[c] = "pending" /\ outcome'[c] = "result"
      /\ op[c].kind = "oneshot"
      /\ \A o \in Objects : proxies[o] # "open"
      => clean[c]]_vars

\* "The owning process classifies every outcome".
OutcomesAreClassified == \A c \in Calls : outcome[c] # "unclassified"

\* An interrupt has left the rest of a message where the next recv looks.
Misread == current # 0 /\ ( \/ begun[current] = "torn"
                            \/ \E i \in 1..Len(outbox[current]) :
                                 outbox[current][i] = Rest )

\* A call ends whatever the helper does or fails to do, but for one thing that
\* recv waits for without a deadline: that an answer whose first part is in the
\* pipe is written to its end, or the helper is gone.
CallEnds ==
    (\A h \in Helpers : WF_vars(begun[h] # "none" /\ Reply(h)))
      => (stage # "free" /\ ~Misread ~> stage = "free")

\* An interrupt in the join of _discard has left a helper that nobody kills.
Forgotten == \E h \in Helpers : IsAlive(h) /\ h \notin {current, leaving}

\* A process that exits is held by a helper only while the None of close() has
\* no room behind a request that the helper does not read, or by one that an
\* interrupted discard forgot: not by its own helper in a native operation that
\* never returns, and not by one that was never told.
ExitEnds == exit # "running" /\ ~Unread /\ ~Forgotten ~> exit = "gone"

\* No helper outlives its owner for ever, if native operations return.
NoOrphan ==
    HelperFairness => (exit = "gone" ~> \A h \in Helpers : ~IsAlive(h))

-------------------------------------------------------------------------------
(* The inductive invariant behind AnswerIsOwn and KeepsPromise: where a     *)
(* request may be at each point of its call.                               *)


Working(h) == life[h] \in {"busy", "replying"}

\* Calls are issued in order, and one at a time is undecided.
CallsInOrder ==
    /\ \A c \in Calls : outcome[c] = "none" <=> c > serial
    /\ \A c \in Calls : outcome[c] = "pending" => c = serial
    /\ stage # "free" => serial > 0 /\ outcome[serial] = "pending"
    /\ stage = "free" /\ exit # "gone" => \A c \in Calls : outcome[c] # "pending"

\* What is left in any pipe is of an earlier call and of another request id.
Known(frame) ==
    /\ frame.id <= lastId /\ frame.call <= serial
    /\ stage # "free" /\ frame.id = reqId => frame.call = serial

IdsAreFresh ==
    /\ lastId <= serial /\ reqId <= serial
    /\ stage # "free" => reqId > 0 /\ reqId \in {lastId, lastId + 1}
    /\ stage \in {"sending", "waiting", "receiving"} => reqId = lastId
    /\ \A h \in Helpers :
         /\ \A i \in 1..Len(inbox[h]) : Known(inbox[h][i])
         /\ Working(h) => Known(job[h])
         /\ \A i \in 1..Len(outbox[h]) :
              outbox[h][i].kind \in Answers => Known(outbox[h][i])

\* A request lies whole in one pipe, or was started, never both.
StartedOnce ==
    /\ \A c \in Calls : runs[c] \in {0, 1}
    /\ \A c \in Calls : runs[c] = 0 => done[c] = "none"
    /\ \A c \in Calls : outcome[c] \in Refusals \cup {"none"} => runs[c] = 0
    /\ \A h \in Helpers : \A i \in 1..Len(inbox[h]) : inbox[h][i].whole =>
         /\ runs[inbox[h][i].call] = 0
         /\ outcome[inbox[h][i].call] \notin Refusals
    /\ \A g, h \in Helpers : \A i \in 1..Len(inbox[g]), j \in 1..Len(inbox[h]) :
         /\ inbox[g][i].whole /\ inbox[h][j].whole
         /\ inbox[g][i].call = inbox[h][j].call
         => g = h /\ i = j

\* Until its send is complete nobody can have started the request.
UnsentIsUnseen == stage \in {"spawning", "starting", "sending"} =>
    /\ runs[serial] = 0
    /\ \A h \in Helpers : \A i \in 1..Len(inbox[h]) :
         inbox[h][i].whole => inbox[h][i].call # serial

\* The answer on its way is the one its operation came to.
AnswersAreDone ==
    /\ \A g, h \in Helpers :
         Working(g) /\ Working(h) /\ job[g].call = job[h].call => g = h
    /\ \A h \in Helpers : Working(h) =>
         /\ job[h] # NoJob
         /\ runs[job[h].call] = 1
         /\ life[h] = "busy" => done[job[h].call] = "none"
         /\ life[h] = "replying" => /\ reply[h] \in Answers
                                    /\ done[job[h].call] = reply[h]
    /\ \A h \in Helpers : \A i \in 1..Len(outbox[h]) :
         outbox[h][i].kind \in Answers =>
           done[outbox[h][i].call] = outbox[h][i].kind

\* An owner that uses a helper, or joins one, has it; it exits between calls.
HasHelper ==
    /\ stage # "free" => exit = "running"
    /\ stage \in {"starting", "sending", "waiting", "receiving"} => current # 0
    /\ stage = "discarding" => leaving # 0

Accounted ==
    /\ CallsInOrder
    /\ IdsAreFresh
    /\ StartedOnce
    /\ UnsentIsUnseen
    /\ AnswersAreDone
    /\ HasHelper

===============================================================================

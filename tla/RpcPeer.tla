------------------------------ MODULE RpcPeer ------------------------------
(***************************************************************************)
(* Two ElaraUiRpcPeers at the two ends of one connection                   *)
(* (ElaraUiRpcPeer.cpp).  Any number of threads of each may call the       *)
(* other; a receiver thread of each takes the frames that arrive,          *)
(* completes the pending call an answer belongs to, and serves requests    *)
(* itself; and a host thread may close its peer at any time.               *)
(*                                                                         *)
(* A socket holds a bounded number of frames on their way to the other     *)
(* side, and who sends waits for room.  A frame is sent and received as a  *)
(* whole, and who holds send_lock is who waits for room: a part of a frame *)
(* on its way is a frame for which there was no room yet, or one the       *)
(* closing of the connection ate.                                          *)
(***************************************************************************)
EXTENDS Integers, Sequences, FiniteSetsExt, SequencesExt

CONSTANTS
    Callers1, Callers2, \* how many threads call through each peer
    Cap,      \* frames a socket holds for one direction
    Closers,  \* the peers that may be closed
    MaxCalls  \* bound: calls through one peer

ASSUME RpcPeerConstants ==
    /\ Callers1 \in Nat /\ Callers2 \in Nat
    /\ Cap \in Nat \ {0}
    /\ Closers \subseteq 1 .. 2
    /\ MaxCalls \in Nat

Peers == 1 .. 2
Other(p) == 3 - p

\* A calling thread is its peer and a number.
Caller == {<<1, i>> : i \in 1 .. Callers1} \union {<<2, i>> : i \in 1 .. Callers2}
NoOne == <<0, 0>>

VARIABLES
    fd, running,   \* whether the peer has its socket, and what isConnected asks besides
    shut,          \* the peer has shut its socket down
    chan,          \* the frames on their way to a peer
    next_request_id,
    pending_calls, \* the calling threads whose call is listed
    pc,            \* where a call is
    call,          \* [n, id, completed, ok, of]: the call of a thread, and whose answer it has
    receiver,      \* where the receiver thread is
    frame,         \* the frame it has
    host,          \* where close is
    raced          \* ghost: two threads took a request id at the same time

connVars == <<fd, running, shut>>
callVars == <<next_request_id, pc, raced>>
vars == <<connVars, chan, pending_calls, callVars, call, receiver, frame, host>>

CallOf == (Caller \union {NoOne}) \X Nat
Frame == [kind : {"request", "answer"}, id : Nat, of : CallOf]
NoFrame == [kind |-> "request", id |-> 0, of |-> <<NoOne, 0>>]
PendingCall == [n : Nat, id : Nat, completed : BOOLEAN, ok : BOOLEAN, of : CallOf]
NoCall == [n |-> 0, id |-> 0, completed |-> FALSE, ok |-> FALSE, of |-> <<NoOne, 0>>]

PC == {"idle", "store", "send", "wait", "remove"}
ReceiverPC == {"top", "recv", "send", "ended"}
HostPC == {"open", "close", "join", "complete", "closed"}

TypeOK ==
    /\ fd \in [Peers -> BOOLEAN] /\ running \in [Peers -> BOOLEAN] /\ shut \in [Peers -> BOOLEAN]
    /\ chan \in [Peers -> Seq(Frame)] /\ \A p \in Peers : Len(chan[p]) <= Cap
    /\ next_request_id \in [Peers -> Nat \ {0}]
    /\ pending_calls \in [Peers -> Seq(Caller)]
    /\ pc \in [Caller -> PC] /\ call \in [Caller -> PendingCall]
    /\ receiver \in [Peers -> ReceiverPC] /\ frame \in [Peers -> Frame]
    /\ host \in [Peers -> HostPC]
    /\ raced \in [Peers -> BOOLEAN]

\* attach has started the receivers of both.
Init ==
    /\ fd = [p \in Peers |-> TRUE] /\ running = [p \in Peers |-> TRUE]
    /\ shut = [p \in Peers |-> FALSE]
    /\ chan = [p \in Peers |-> <<>>]
    /\ next_request_id = [p \in Peers |-> 1]
    /\ pending_calls = [p \in Peers |-> <<>>]
    /\ pc = [c \in Caller |-> "idle"] /\ call = [c \in Caller |-> NoCall]
    /\ receiver = [p \in Peers |-> "top"] /\ frame = [p \in Peers |-> NoFrame]
    /\ host = [p \in Peers |-> "open"]
    /\ raced = [p \in Peers |-> FALSE]

----------------------------------------------------------------------------
(* sendAll                                                                 *)

\* It fails without the socket and on one that was shut down; the other end may be gone
\* without this one knowing, and then the frame is lost.  send is called without MSG_NOSIGNAL: a
\* process that does not ignore SIGPIPE ends here, which is not modelled.
SendFails(p) == ~fd[p] \/ shut[p] \/ shut[Other(p)]

\* Who waits for room already does not notice that the peer has given its socket away.
SendInto(p, f) ==
    /\ ~shut[p]
    /\ IF shut[Other(p)] THEN UNCHANGED chan
       ELSE /\ Len(chan[Other(p)]) < Cap
            /\ chan' = [chan EXCEPT ![Other(p)] = Append(@, f)]

----------------------------------------------------------------------------
(* call                                                                    *)

At(c, from, to) == pc[c] = from /\ pc' = [pc EXCEPT ![c] = to]

\* isConnected, or it returns at once; and the load of next_request_id++, which is a load and
\* a store.
Calls(p) == MapThenSumSet(LAMBDA c : call[c].n, {c \in Caller : c[1] = p})

Call(c) ==
    /\ Calls(c[1]) < MaxCalls
    /\ fd[c[1]] /\ running[c[1]]
    /\ At(c, "idle", "store")
    /\ call' = [call EXCEPT ![c].n = @ + 1, ![c].id = next_request_id[c[1]]]
    /\ raced' = [raced EXCEPT ![c[1]] =
                    @ \/ \E d \in Caller \ {c} : d[1] = c[1] /\ pc[d] = "store"]
    /\ UNCHANGED <<connVars, chan, next_request_id, pending_calls, receiver, frame, host>>

List(c) ==
    /\ At(c, "store", "send")
    /\ pending_calls' = [pending_calls EXCEPT ![c[1]] = Append(@, c)]
    /\ UNCHANGED <<connVars, chan, raced, call, receiver, frame, host>>

\* Mutant: the id is not counted on.
ListSameId(c) == List(c) /\ UNCHANGED next_request_id

\* The store, and the call is listed.
ListCall(c) == List(c) /\ next_request_id' = [next_request_id EXCEPT ![c[1]] = call[c].id + 1]

CallSend(c) ==
    /\ \/ SendInto(c[1], [kind |-> "request", id |-> call[c].id, of |-> <<c, call[c].n>>])
          /\ At(c, "send", "wait")
       \/ SendFails(c[1]) /\ At(c, "send", "remove") /\ UNCHANGED chan
    /\ UNCHANGED <<connVars, next_request_id, raced, pending_calls, call, receiver, frame, host>>

\* waitForPendingCall: it looks every millisecond, and not after the last one.
Answered(c) == call[c].completed /\ At(c, "wait", "remove")
TimedOut(c) == At(c, "wait", "remove")

CallWait(c) ==
    /\ Answered(c) \/ TimedOut(c)
    /\ UNCHANGED <<connVars, chan, next_request_id, raced, pending_calls, call, receiver, frame, host>>

\* The first listed call with an id.
Listed(p, id) == {i \in 1 .. Len(pending_calls[p]) : call[pending_calls[p][i]].id = id}
FirstListed(p, id) == CHOOSE i \in Listed(p, id) : \A j \in Listed(p, id) : i <= j

\* removePendingCall.
CallRemove(c) ==
    /\ At(c, "remove", "idle")
    /\ pending_calls' =
        IF Listed(c[1], call[c].id) = {} THEN pending_calls
        ELSE [pending_calls EXCEPT ![c[1]] = RemoveAt(@, FirstListed(c[1], call[c].id))]
    /\ call' = [call EXCEPT ![c] = [NoCall EXCEPT !.n = call[c].n]]
    /\ UNCHANGED <<connVars, chan, next_request_id, raced, receiver, frame, host>>

CallProceeds(c) == \/ ListCall(c) \/ CallSend(c) \/ CallWait(c) \/ CallRemove(c)

----------------------------------------------------------------------------
(* receiverLoop                                                            *)

Goto(p, from, to) == receiver[p] = from /\ receiver' = [receiver EXCEPT ![p] = to]
Ends(p, from) == Goto(p, from, "ended") /\ running' = [running EXCEPT ![p] = FALSE]

ReceiverTop(p) ==
    /\ IF running[p] /\ fd[p] THEN Goto(p, "top", "recv") /\ UNCHANGED running
                              ELSE Ends(p, "top")
    /\ UNCHANGED <<fd, shut, chan, callVars, pending_calls, call, frame, host>>

\* Nothing more will arrive, or a frame is given up between its length and its body.
ReceiveEnd(p) ==
    /\ IF chan[p] = <<>> THEN shut[p] \/ shut[Other(p)] ELSE ~fd[p]
    /\ Ends(p, "recv")
    /\ UNCHANGED <<fd, shut, chan, callVars, pending_calls, call, frame, host>>

Arrives(p, kind) ==
    /\ chan[p] # <<>> /\ Head(chan[p]).kind = kind
    /\ chan' = [chan EXCEPT ![p] = Tail(@)]
    /\ UNCHANGED <<connVars, callVars, pending_calls, host>>

Completed(c, f) == [call EXCEPT ![c].completed = TRUE, ![c].ok = TRUE, ![c].of = f.of]

\* completePendingCall: an answer nobody waits for any more is dropped.
Complete(p) ==
    /\ Arrives(p, "answer")
    /\ Goto(p, "recv", "top")
    /\ LET f == Head(chan[p])
       IN call' = IF Listed(p, f.id) = {} THEN call
                  ELSE Completed(pending_calls[p][FirstListed(p, f.id)], f)
    /\ UNCHANGED frame

\* A request is served, and its answer sent from here.
Serve(p) ==
    /\ Arrives(p, "request")
    /\ Goto(p, "recv", "send")
    /\ frame' = [frame EXCEPT ![p] = [Head(chan[p]) EXCEPT !.kind = "answer"]]
    /\ UNCHANGED call

AnswerSend(p) ==
    /\ Goto(p, "send", "top")
    /\ SendInto(p, frame[p]) \/ (SendFails(p) /\ UNCHANGED chan)
    /\ frame' = [frame EXCEPT ![p] = NoFrame]
    /\ UNCHANGED <<connVars, callVars, pending_calls, call, host>>

ReceiverProceeds(p) == \/ ReceiverTop(p) \/ ReceiveEnd(p) \/ Complete(p) \/ Serve(p)
                       \/ AnswerSend(p)

----------------------------------------------------------------------------
(* close                                                                   *)

HostAt(p, from, to) == host[p] = from /\ host' = [host EXCEPT ![p] = to]

\* The socket is taken from the peer ...
Close(p) ==
    /\ HostAt(p, "open", "close")
    /\ fd' = [fd EXCEPT ![p] = FALSE]
    /\ running' = [running EXCEPT ![p] = FALSE]
    /\ UNCHANGED <<shut, chan, callVars, pending_calls, call, receiver, frame>>

\* Mutant: the socket is closed but not shut down, which wakes nobody who waits on it.
ShutdownNot(p) ==
    /\ HostAt(p, "close", "join")
    /\ UNCHANGED <<connVars, chan, callVars, pending_calls, call, receiver, frame>>

\* ... and shut down, which wakes all who wait on it.  What had arrived unread is lost, and then
\* what is on its way may be, too.
Shutdown(p) ==
    /\ HostAt(p, "close", "join")
    /\ shut' = [shut EXCEPT ![p] = TRUE]
    /\ \/ chan' = [chan EXCEPT ![p] = <<>>]
       \/ chan[p] # <<>> /\ chan' = [q \in Peers |-> <<>>]
    /\ UNCHANGED <<fd, running, callVars, pending_calls, call, receiver, frame>>

Join(p) ==
    /\ HostAt(p, "join", "complete")
    /\ receiver[p] = "ended"
    /\ UNCHANGED <<connVars, chan, callVars, pending_calls, call, receiver, frame>>

\* Mutant: the list is cleared, and its calls are told nothing.
CompleteAllNot(p) ==
    /\ HostAt(p, "complete", "closed")
    /\ pending_calls' = [pending_calls EXCEPT ![p] = <<>>]
    /\ UNCHANGED <<connVars, chan, callVars, call, receiver, frame>>

\* All listed calls are told, and the list is cleared.
CompleteAll(p) ==
    /\ HostAt(p, "complete", "closed")
    /\ call' = [c \in Caller |-> IF c \in ToSet(pending_calls[p])
                                 THEN [call[c] EXCEPT !.completed = TRUE, !.ok = FALSE]
                                 ELSE call[c]]
    /\ pending_calls' = [pending_calls EXCEPT ![p] = <<>>]
    /\ UNCHANGED <<connVars, chan, callVars, receiver, frame>>

CloseProceeds(p) == Shutdown(p) \/ Join(p) \/ CompleteAll(p)

----------------------------------------------------------------------------

Next ==
    \/ \E c \in Caller : Call(c) \/ CallProceeds(c)
    \/ \E p \in Peers : ReceiverProceeds(p) \/ CloseProceeds(p)
    \/ \E p \in Closers : Close(p)

Spec == Init /\ [][Next]_vars

\* Threads that can go on do, those of a call to its time-out at the latest.
FairSpec ==
    /\ Spec
    /\ \A c \in Caller : WF_vars(CallProceeds(c))
    /\ \A p \in Peers : WF_vars(ReceiverProceeds(p)) /\ WF_vars(CloseProceeds(p))

----------------------------------------------------------------------------
(* Properties                                                              *)

\* An answer, however late, is that to the call that gets it, unless two threads took an id at
\* the same time.
OwnAnswer ==
    \A c \in Caller : call[c].ok /\ ~raced[c[1]] => call[c].of = <<c, call[c].n>>

\* As long as there was no race for an id, the list holds the calls under way and no others
\* until close clears it, and no call waits for its time-out behind a close that has returned.
ClosedTold ==
    \A p \in {q \in Peers : ~raced[q]} :
        IF host[p] = "closed"
        THEN \A c \in Caller : c[1] = p /\ pc[c] = "wait" => call[c].completed
        ELSE /\ IsInjective(pending_calls[p])
             /\ ToSet(pending_calls[p]) =
                    {c \in Caller : c[1] = p /\ pc[c] \in {"send", "wait", "remove"}}

\* Both receivers have an answer to send and wait for room the other would have to make.
Gridlock ==
    \A p \in Peers : receiver[p] = "send" /\ Len(chan[p]) = Cap

\* A call returns unless the two receivers wait for each other, and close returns always.
CallsReturn ==
    /\ \A c \in Caller : pc[c] # "idle" ~> pc[c] = "idle" \/ Gridlock
    /\ \A p \in Closers : host[p] # "open" ~> host[p] = "closed"

\* "A duplex peer that can both issue requests and serve inbound requests on the same socket":
\* every call returns.
DuplexReturns == \A c \in Caller : pc[c] # "idle" ~> pc[c] = "idle"
=============================================================================

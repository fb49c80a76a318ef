-------------------------------- MODULE Stream --------------------------------
(***************************************************************************)
(* Two proxies, one of which connected to the other, and the TCP stream    *)
(* between them.  Link state packets and the frames of TAPHandle share it, *)
(* and TCPHandle takes what one recv returns for one packet, so packets    *)
(* that arrive together or in pieces are lost.  What remains must keep     *)
(* each proxy on the other's list: a proxy floods every linkPeriod, and    *)
(* every linkTimeout it looks for neighbours it has not heard from.        *)
(*                                                                         *)
(* A handler is one step here; Proxy has its interleavings.  With a single *)
(* neighbour list and table agree (SizeExact and TableInList of Proxy), so *)
(* knows stands for both.                                                  *)
(*                                                                         *)
(* A tick is the unit of gettimeid(), in which ages are compared.  A sleep *)
(* lasts at least as long as it says: the thread may be up to WakeDelay    *)
(* ticks late.  What was sent may wait for ReadDelay ticks to be read.     *)
(***************************************************************************)
EXTENDS Integers, Sequences

CONSTANTS LinkPeriod,   \* linkPeriod, in ticks
          LinkTimeout,  \* linkTimeout, in ticks
          WakeDelay,    \* how late a thread may wake up, in ticks
          ReadDelay,    \* how long what was sent may wait to be read, in ticks
          MaxFrames     \* bound: frames the two tap devices deliver

ASSUME StreamAssumption ==
    /\ LinkPeriod \in Nat \ {0} /\ LinkTimeout \in Nat \ {0}
    /\ WakeDelay \in Nat /\ ReadDelay \in Nat /\ MaxFrames \in Nat

Ends == {"client", "server"}
Other(e) == IF e = "client" THEN "server" ELSE "client"

VARIABLES
    up,       \* up[e]: the process runs
    lost,     \* the connection is lost
    knows,    \* knows[e]: the other proxy is on e's list and in its table
    age,      \* age[e]: ticks since its ID was written
    due,      \* due[e]: ticks until sendPackets' sleep is over; negative when late
    check,    \* check[e]: ticks until checkLinkTimeOut's is
    wait,     \* wait[e]: ticks since nothing was on its way to e
    stream,   \* stream[e]: what is on its way to e
    frames,   \* frames read from the tap devices so far
    missed,   \* history: missed[e]: a link state packet to e was not recognised
    stopped   \* history: ends that were told to stop or failed by themselves

clocks == <<age, due, check, wait>>
vars == <<up, lost, knows, clocks, stream, frames, missed, stopped>>

\* On the stream: a link state packet with a zero remote MAC or another one, a
\* data packet, and the end of a packet an earlier recv returned the start of.
IsLink(p) == p \in {"zero", "link"}

\* connecttohost sends whatever malloc left for the remote MAC; the other threads
\* of the two processes may be anywhere in their sleep.
Init ==
    /\ up = [e \in Ends |-> TRUE] /\ lost = FALSE
    /\ knows = [e \in Ends |-> FALSE] /\ age = [e \in Ends |-> 0]
    /\ due \in [Ends -> 1 .. LinkPeriod] /\ check \in [Ends -> 1 .. LinkTimeout]
    /\ wait = [e \in Ends |-> 0]
    /\ \E hello \in {"zero", "link"} :
           stream = [e \in Ends |-> IF e = "server" THEN <<hello>> ELSE <<>>]
    /\ frames = 0 /\ missed = [e \in Ends |-> "no"] /\ stopped = {}

\* A process that has ended has no clocks, and without a connection sendPackets has
\* no effect: its send fails quietly.
Ended(e) ==
    /\ up' = [up EXCEPT ![e] = FALSE]
    /\ stream' = [stream EXCEPT ![e] = <<>>]
    /\ age' = [age EXCEPT ![e] = 0] /\ check' = [check EXCEPT ![e] = 0]
    /\ wait' = [wait EXCEPT ![e] = 0]

Lost == lost' = TRUE /\ due' = [e \in Ends |-> LinkPeriod]

\* What send leaves on its way to the other end.
Sent(e, packets) ==
    IF lost THEN stream[Other(e)] ELSE stream[Other(e)] \o packets
-----------------------------------------------------------------------------
(***************************************************************************)
(* TCPHandle.                                                              *)
(***************************************************************************)
\* One recv returns the first k packets, the last of them perhaps in part.  A link
\* state packet that comes first is short enough to come whole.
Returned(e, k, cut) ==
    /\ up[e] /\ k \in 1 .. Len(stream[e])
    /\ cut => stream[e][k] # "rest" /\ (k = 1 => stream[e][k] = "frame")

Remaining(e, k, cut) ==
    (IF cut THEN <<"rest">> ELSE <<>>) \o SubSeq(stream[e], k + 1, Len(stream[e]))

\* What is left goes on waiting.
Waiting(e, left) == [wait EXCEPT ![e] = IF left = <<>> THEN 0 ELSE @]

\* Slip: a packet of a known source does not renew its ID.
RenewedNever(e) == IF knows[e] THEN age ELSE [age EXCEPT ![e] = 0]

Renewed(e) == [age EXCEPT ![e] = 0]

\* What e missed is made good when e recognises a packet, and the other end one of e's.
Recovered(e) ==
    [missed EXCEPT ![e] = IF @ = "yes" THEN "answering" ELSE @,
                   ![Other(e)] = IF @ = "answering" THEN "no" ELSE @]

\* The first packet is a link state packet: the source joins or is renewed, and a
\* join answers unless the address was zero.  TAPHandle may find the new route
\* before the answer is sent.
RecvLink(e) == \E k \in 1 .. Len(stream[e]), cut, early \in BOOLEAN :
    LET answer == IF ~knows[e] /\ Head(stream[e]) = "link" THEN <<"link">> ELSE <<>>
    IN  /\ Returned(e, k, cut) /\ IsLink(Head(stream[e]))
        /\ early => ~knows[e] /\ frames < MaxFrames
        /\ frames' = IF early THEN frames + 1 ELSE frames
        /\ knows' = [knows EXCEPT ![e] = TRUE]
        /\ age' = Renewed(e)
        /\ missed' = Recovered(e)
        /\ wait' = Waiting(e, Remaining(e, k, cut))
        /\ stream' = [stream EXCEPT
               ![e] = Remaining(e, k, cut),
               ![Other(e)] = Sent(e, (IF early THEN <<"frame">> ELSE <<>>) \o answer)]
        /\ UNCHANGED <<up, lost, due, check, stopped>>

\* It is a data packet, and all that recv returned goes to the tap device, or the
\* rest of one, whose first bytes are no type.
RecvOther(e) == \E k \in 1 .. Len(stream[e]), cut \in BOOLEAN :
    /\ Returned(e, k, cut) /\ ~IsLink(Head(stream[e]))
    /\ missed' = IF \E i \in 1 .. k : IsLink(stream[e][i])
                 THEN [missed EXCEPT ![e] = "yes"]
                 ELSE missed
    /\ wait' = Waiting(e, Remaining(e, k, cut))
    /\ stream' = [stream EXCEPT ![e] = Remaining(e, k, cut)]
    /\ UNCHANGED <<up, lost, knows, age, due, check, frames, stopped>>

\* The answer to a join is sent without MSG_NOSIGNAL: on a lost connection it may
\* end the process.
RecvLinkKilled(e) ==
    /\ up[e] /\ lost /\ ~knows[e]
    /\ stream[e] # <<>> /\ Head(stream[e]) = "link"
    /\ Ended(e)
    /\ UNCHANGED <<lost, knows, due, frames, missed, stopped>>
-----------------------------------------------------------------------------
(***************************************************************************)
(* TAPHandle.                                                              *)
(***************************************************************************)
TAPHandle(e) ==
    /\ up[e] /\ knows[e] /\ frames < MaxFrames
    /\ frames' = frames + 1
    /\ stream' = [stream EXCEPT ![Other(e)] = Sent(e, <<"frame">>)]
    /\ UNCHANGED <<up, lost, knows, clocks, missed, stopped>>

\* write has no MSG_NOSIGNAL: on a lost connection it may end the process.
TAPHandleKilled(e) ==
    /\ up[e] /\ knows[e] /\ lost /\ frames < MaxFrames
    /\ frames' = frames + 1
    /\ Ended(e)
    /\ UNCHANGED <<lost, knows, due, missed, stopped>>
-----------------------------------------------------------------------------
(***************************************************************************)
(* sendPackets and checkLinkTimeOut.                                       *)
(***************************************************************************)
\* With an empty list nothing is sent.
SendPackets(e) ==
    /\ up[e] /\ ~lost /\ due[e] <= 0
    /\ due' = [due EXCEPT ![e] = LinkPeriod]
    /\ stream' = [stream EXCEPT ![Other(e)] = Sent(e, IF knows[e] THEN <<"link">> ELSE <<>>)]
    /\ UNCHANGED <<up, lost, knows, age, check, wait, frames, missed, stopped>>

\* Slip: a neighbour expires when the time-out is reached.
ExpiredEarly(e) == knows[e] /\ age[e] >= LinkTimeout

Expired(e) == knows[e] /\ age[e] > LinkTimeout

\* Slip: the thread sleeps for the period of the other thread as well.
CheckPeriodLong(e) == LinkPeriod + LinkTimeout

CheckPeriod(e) == LinkTimeout

CheckLinkTimeOut(e) ==
    /\ up[e] /\ check[e] <= 0
    /\ check' = [check EXCEPT ![e] = CheckPeriod(e)]
    /\ knows' = [knows EXCEPT ![e] = knows[e] /\ ~Expired(e)]
    /\ age' = IF Expired(e) THEN [age EXCEPT ![e] = 0] ELSE age
    /\ UNCHANGED <<up, lost, due, wait, stream, frames, missed, stopped>>
-----------------------------------------------------------------------------
\* The process ends: it was killed, received PKT_QUIT or crashed.
Stop(e) ==
    /\ up[e]
    /\ Ended(e) /\ Lost /\ stopped' = stopped \cup {e}
    /\ UNCHANGED <<knows, frames, missed>>

LostConnection ==
    /\ ~lost /\ Lost
    /\ UNCHANGED <<up, knows, age, check, wait, stream, frames, missed, stopped>>

\* Time passes, unless that would keep a thread or a packet waiting for too long.
Patient(e) ==
    /\ lost \/ due[e] > -WakeDelay
    /\ check[e] > -WakeDelay
    /\ stream[e] = <<>> \/ wait[e] < ReadDelay

\* Ages stop counting where nothing depends on them any more.
Tick ==
    /\ \E e \in Ends : up[e]
    /\ \A e \in Ends : up[e] => Patient(e)
    /\ age' = [e \in Ends |-> IF up[e] /\ knows[e] /\ age[e] <= 2 * LinkTimeout + WakeDelay
                             THEN age[e] + 1 ELSE age[e]]
    /\ due' = [e \in Ends |-> IF up[e] /\ ~lost THEN due[e] - 1 ELSE due[e]]
    /\ check' = [e \in Ends |-> IF up[e] THEN check[e] - 1 ELSE check[e]]
    /\ wait' = [e \in Ends |-> IF up[e] /\ stream[e] # <<>> THEN wait[e] + 1 ELSE wait[e]]
    /\ UNCHANGED <<up, lost, knows, stream, frames, missed, stopped>>

Down == (\A e \in Ends : ~up[e]) /\ UNCHANGED vars

TCPHandle(e) == RecvLink(e) \/ RecvOther(e)
Threads(e) == TCPHandle(e) \/ SendPackets(e) \/ CheckLinkTimeOut(e)

Next ==
    \/ \E e \in Ends : Threads(e) \/ TAPHandle(e) \/ Stop(e)
                      \/ TAPHandleKilled(e) \/ RecvLinkKilled(e)
    \/ LostConnection \/ Tick \/ Down

Spec == Init /\ [][Next]_vars

\* Threads are scheduled, what was sent arrives, and time passes.
FairSpec == Spec /\ WF_vars(Tick) /\ \A e \in Ends : WF_vars(Threads(e))
-----------------------------------------------------------------------------
\* A neighbour is known for no longer than two time-outs after its last packet, and
\* as long again as a search may be late: the search comes once in a time-out, and
\* may just miss it the first time.
ForgottenInTime == \A e \in Ends : knows[e] => age[e] <= 2 * LinkTimeout + WakeDelay

\* What ExpiredForCause supposes of the configuration: the time-out has room for
\* everything between two renewals.  The longest way is that of a proxy whose
\* neighbour does not know it: its flood is late, waits to be read, and so does the
\* answer.
Punctual == LinkPeriod + WakeDelay + 2 * ReadDelay <= LinkTimeout

\* With such a time-out a neighbour is forgotten only if the connection is lost, or
\* if a packet between the two was taken for something else.
ExpiredForCause ==
    [][ \A e \in Ends : knows[e] /\ ~knows'[e] =>
            lost \/ \E d \in Ends : missed[d] # "no" ]_vars

\* Both have forgotten the other and nothing is on its way: neither floods.
Isolated == \A e \in Ends : ~knows[e] /\ stream[e] = <<>>

\* With such a time-out, two proxies that stay connected come to know each other for
\* good, whatever is lost among the frames, unless both forget the other at the
\* same time.
Settles == <>[]((\A e \in Ends : knows[e]) \/ Isolated \/ lost)

\* "If they have timed out they will delete them from their lists": a proxy that has
\* not stopped itself deletes a neighbour that is gone, and goes on.
TimedOutDeleted ==
    \A e \in Ends : knows[e] /\ lost ~> e \in stopped \/ (up[e] /\ ~knows[e])
=============================================================================

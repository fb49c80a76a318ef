----------------------------- MODULE StreamProofs -----------------------------
(***************************************************************************)
(* For any period, time-out and delays: a neighbour that has fallen silent *)
(* is forgotten within two time-outs and the delay of a search.  If the    *)
(* time-out has room for the delays, one that has not is forgotten only    *)
(* after a packet was lost among others.                                   *)
(***************************************************************************)
EXTENDS Stream, TLAPS

ClocksOK ==
    /\ up \in [Ends -> BOOLEAN] /\ knows \in [Ends -> BOOLEAN]
    /\ age \in [Ends -> Nat] /\ wait \in [Ends -> 0 .. ReadDelay]
    /\ due \in [Ends -> -WakeDelay .. LinkPeriod]
    /\ check \in [Ends -> -WakeDelay .. LinkTimeout]

\* The older the last packet, the sooner comes the search that forgets its sender;
\* a process that has ended stands still.
SearchInTime ==
    \A e \in Ends : knows[e] =>
        /\ age[e] <= 2 * LinkTimeout + WakeDelay
        /\ up[e] => age[e] + check[e] <= 2 * LinkTimeout

AgeInv == ClocksOK /\ SearchInTime
-----------------------------------------------------------------------------
LEMMA InitAge == Init => AgeInv
BY StreamAssumption DEF Init, AgeInv, ClocksOK, SearchInTime

\* Packets and frames: an age is left alone, or begins anew.
LEMMA PacketAge ==
    ASSUME AgeInv, NEW e \in Ends,
           TCPHandle(e) \/ TAPHandle(e) \/ SendPackets(e) \/ LostConnection
    PROVE  AgeInv'
<1>1. /\ UNCHANGED <<up, check>>
      /\ \/ UNCHANGED <<age, knows>>
         \/ age' = [age EXCEPT ![e] = 0] /\ knows' = [knows EXCEPT ![e] = TRUE]
  BY DEF TCPHandle, RecvLink, Renewed, RecvOther, TAPHandle, SendPackets, LostConnection,
     Lost, clocks
<1>2. /\ due' \in [Ends -> -WakeDelay .. LinkPeriod]
      /\ wait' \in [Ends -> 0 .. ReadDelay]
  <2>1. UNCHANGED due \/ due' = [due EXCEPT ![e] = LinkPeriod]
        \/ due' = [f \in Ends |-> LinkPeriod]
    BY DEF TCPHandle, RecvLink, RecvOther, TAPHandle, SendPackets, LostConnection, Lost, clocks
  <2>2. UNCHANGED wait \/ wait' = [wait EXCEPT ![e] = 0]
    <3>1. ASSUME NEW left PROVE Waiting(e, left) = wait \/ Waiting(e, left) = [wait EXCEPT ![e] = 0]
      BY DEF Waiting, AgeInv, ClocksOK
    <3>2. CASE TCPHandle(e)
      BY <3>1, <3>2 DEF TCPHandle, RecvLink, RecvOther
    <3>3. CASE TAPHandle(e) \/ SendPackets(e) \/ LostConnection
      BY <3>3 DEF TAPHandle, SendPackets, LostConnection, clocks
    <3> QED
      BY <3>2, <3>3
  <2> QED
    BY <2>1, <2>2, StreamAssumption DEF AgeInv, ClocksOK
<1>3. CASE UNCHANGED <<age, knows>>
  BY <1>1, <1>2, <1>3 DEF AgeInv, ClocksOK, SearchInTime
<1>4. CASE age' = [age EXCEPT ![e] = 0] /\ knows' = [knows EXCEPT ![e] = TRUE]
  BY <1>1, <1>2, <1>4, StreamAssumption DEF AgeInv, ClocksOK, SearchInTime
<1> QED
  BY <1>1, <1>3, <1>4

\* A process that ends: its clocks stand still.
LEMMA EndedAge ==
    ASSUME AgeInv, NEW e \in Ends,
           Stop(e) \/ TAPHandleKilled(e) \/ RecvLinkKilled(e)
    PROVE  AgeInv'
<1>1. Ended(e) /\ UNCHANGED knows /\ (UNCHANGED due \/ due' = [f \in Ends |-> LinkPeriod])
  BY DEF Stop, TAPHandleKilled, RecvLinkKilled, Lost
<1>2. ClocksOK'
  <2>1. up' \in [Ends -> BOOLEAN] /\ knows' \in [Ends -> BOOLEAN]
    BY <1>1 DEF Ended, AgeInv, ClocksOK
  <2>2. age' \in [Ends -> Nat] /\ wait' \in [Ends -> 0 .. ReadDelay]
    BY <1>1, StreamAssumption DEF Ended, AgeInv, ClocksOK
  <2>3. due' \in [Ends -> -WakeDelay .. LinkPeriod]
    BY <1>1, StreamAssumption DEF AgeInv, ClocksOK
  <2>4. check' \in [Ends -> -WakeDelay .. LinkTimeout]
    BY <1>1, StreamAssumption DEF Ended, AgeInv, ClocksOK
  <2> QED
    BY <2>1, <2>2, <2>3, <2>4 DEF ClocksOK
<1>3. SearchInTime'
  BY <1>1, StreamAssumption DEF Ended, AgeInv, ClocksOK, SearchInTime
<1> QED
  BY <1>2, <1>3 DEF AgeInv

\* The search: who it leaves on the list has been silent for a time-out at most, and
\* the next search comes in one.
LEMMA CheckAge ==
    ASSUME AgeInv, NEW e \in Ends, CheckLinkTimeOut(e)
    PROVE  AgeInv'
<1>1. /\ check' = [check EXCEPT ![e] = LinkTimeout]
      /\ knows' = [knows EXCEPT ![e] = knows[e] /\ ~Expired(e)]
      /\ age' = IF Expired(e) THEN [age EXCEPT ![e] = 0] ELSE age
      /\ UNCHANGED <<up, due, wait>>
  BY DEF CheckLinkTimeOut, CheckPeriod
<1>2. ClocksOK'
  BY <1>1, StreamAssumption DEF AgeInv, ClocksOK, Expired
<1>3. ASSUME NEW d \in Ends, knows'[d]
      PROVE  /\ age'[d] <= 2 * LinkTimeout + WakeDelay
             /\ up'[d] => age'[d] + check'[d] <= 2 * LinkTimeout
  <2>1. CASE d = e
    <3>1. knows[e] /\ ~Expired(e)
      BY <1>1, <1>3, <2>1 DEF AgeInv, ClocksOK
    <3>2. age[e] <= LinkTimeout
      BY <3>1, StreamAssumption DEF Expired, AgeInv, ClocksOK
    <3> QED
      BY <1>1, <2>1, <3>1, <3>2, StreamAssumption DEF AgeInv, ClocksOK
  <2>2. CASE d # e
    BY <1>1, <1>3, <2>2 DEF AgeInv, ClocksOK, SearchInTime
  <2> QED
    BY <2>1, <2>2
<1> QED
  BY <1>2, <1>3 DEF AgeInv, SearchInTime

\* A tick: the age grows by as much as the wait gets shorter.
LEMMA TickAge ==
    ASSUME AgeInv, Tick
    PROVE  AgeInv'
<1>1. \A e \in Ends : up[e] => /\ check[e] > -WakeDelay
                               /\ ~lost => due[e] > -WakeDelay
                               /\ stream[e] # <<>> => wait[e] < ReadDelay
  BY DEF Tick, Patient
<1>2. /\ UNCHANGED <<up, knows>>
      /\ age' = [e \in Ends |->
            IF up[e] /\ knows[e] /\ age[e] <= 2 * LinkTimeout + WakeDelay
            THEN age[e] + 1 ELSE age[e]]
      /\ due' = [e \in Ends |-> IF up[e] /\ ~lost THEN due[e] - 1 ELSE due[e]]
      /\ check' = [e \in Ends |-> IF up[e] THEN check[e] - 1 ELSE check[e]]
      /\ wait' = [e \in Ends |-> IF up[e] /\ stream[e] # <<>> THEN wait[e] + 1 ELSE wait[e]]
  BY DEF Tick
<1>3. ClocksOK'
  <2>1. up' \in [Ends -> BOOLEAN] /\ knows' \in [Ends -> BOOLEAN] /\ age' \in [Ends -> Nat]
    BY <1>2 DEF AgeInv, ClocksOK
  <2>2. wait' \in [Ends -> 0 .. ReadDelay]
    BY <1>1, <1>2, StreamAssumption DEF AgeInv, ClocksOK
  <2>3. due' \in [Ends -> -WakeDelay .. LinkPeriod]
    BY <1>1, <1>2, StreamAssumption DEF AgeInv, ClocksOK
  <2>4. check' \in [Ends -> -WakeDelay .. LinkTimeout]
    BY <1>1, <1>2, StreamAssumption DEF AgeInv, ClocksOK
  <2> QED
    BY <2>1, <2>2, <2>3, <2>4 DEF ClocksOK
<1>4. SearchInTime'
  BY <1>1, <1>2, StreamAssumption DEF AgeInv, ClocksOK, SearchInTime
<1> QED
  BY <1>3, <1>4 DEF AgeInv

LEMMA NextAge == AgeInv /\ [Next]_vars => AgeInv'
<1> SUFFICES ASSUME AgeInv, [Next]_vars PROVE AgeInv'
  OBVIOUS
<1>1. ASSUME NEW e \in Ends,
             Threads(e) \/ TAPHandle(e) \/ Stop(e) \/ TAPHandleKilled(e) \/ RecvLinkKilled(e)
      PROVE  AgeInv'
  BY <1>1, PacketAge, EndedAge, CheckAge DEF Threads
<1>2. CASE LostConnection
  <2>1. "client" \in Ends
    BY DEF Ends
  <2> QED
    BY <1>2, <2>1, PacketAge
<1>3. CASE Tick
  BY <1>3, TickAge
<1>4. CASE UNCHANGED vars
  BY <1>4 DEF AgeInv, ClocksOK, SearchInTime, vars, clocks
<1> QED
  BY <1>1, <1>2, <1>3, <1>4 DEF Next, Down

\* Whatever the period, the time-out, the delays and the phase of either thread, and
\* whatever is lost: nobody stays known for more than two time-outs after its last
\* packet, and the time by which a search is late.
THEOREM ForgottenInTimeCorrect == Spec => []ForgottenInTime
<1>1. Spec => []AgeInv
  BY InitAge, NextAge, PTL DEF Spec
<1>2. AgeInv => ForgottenInTime
  BY DEF AgeInv, SearchInTime, ForgottenInTime
<1> QED
  BY <1>1, <1>2, PTL
-----------------------------------------------------------------------------
(***************************************************************************)
(* What keeps a proxy known.  While neither end has missed a packet, one   *)
(* that knows the other either hears from it soon, or is itself about to   *)
(* flood and be answered.                                                  *)
(***************************************************************************)
Packets == {"zero", "link", "frame", "rest"}

StreamOK ==
    /\ stream \in [Ends -> Seq(Packets)]
    /\ missed \in [Ends -> {"no", "yes", "answering"}]

Has(s, p) == \E i \in 1 .. Len(s) : s[i] = p

\* A link state packet that will renew e, or be missed, is on its way to it.
Comes(e) == Has(stream[e], "link")

\* Only the packet that opens the connection has a zero address.
ZeroFirst ==
    \/ \A e \in Ends : ~Has(stream[e], "zero")
    \/ /\ stream = [e \in Ends |-> IF e = "server" THEN <<"zero">> ELSE <<>>]
       /\ \A e \in Ends : ~knows[e]

\* Ends that know each other: the other floods within a period of its last packet.
Mutual(e) ==
    knows[e] /\ knows[Other(e)] => Comes(e) \/ age[e] + due[Other(e)] <= LinkPeriod

\* The other end may also have forgotten e: then e floods within a period of the last
\* packet, the flood waits to be read, and so does its answer.
Prompt(e) ==
    knows[e] =>
        \/ Comes(e) /\ age[e] <= LinkPeriod + WakeDelay + ReadDelay + wait[e]
        \/ knows[Other(e)] /\ age[e] + due[Other(e)] <= LinkPeriod
        \/ /\ ~knows[Other(e)] /\ Comes(Other(e))
           /\ age[e] <= LinkPeriod + WakeDelay + wait[Other(e)]
        \/ ~knows[Other(e)] /\ age[e] + due[e] <= LinkPeriod

\* The first holds of an end that has made good what it missed, the second if the
\* other end has, too.
Renewal(e) ==
    missed[e] # "yes" => Mutual(e) /\ (missed[Other(e)] = "no" => Prompt(e))

PromptInv ==
    /\ AgeInv /\ StreamOK
    /\ ~lost => ZeroFirst /\ \A e \in Ends : up[e] /\ Renewal(e)
-----------------------------------------------------------------------------
\* There are two ends.
LEMMA TwoEnds ==
    ASSUME NEW e \in Ends
    PROVE  /\ Other(e) \in Ends /\ Other(e) # e /\ Other(Other(e)) = e
           /\ Ends = {e, Other(e)}
BY DEF Ends, Other

\* Streams of one packet and of none.
LEMMA Short ==
    /\ <<>> \in Seq(Packets) /\ \A p : ~Has(<<>>, p)
    /\ \A q \in Packets : <<q>> \in Seq(Packets)
    /\ \A p, q : Has(<<q>>, p) <=> p = q
BY DEF Has

\* What is appended to a stream is on it, behind what was there.
LEMMA Appended ==
    ASSUME NEW s \in Seq(Packets), NEW t \in Seq(Packets), NEW p
    PROVE  s \o t \in Seq(Packets) /\ (Has(s \o t, p) <=> Has(s, p) \/ Has(t, p))
<1>1. s \o t \in Seq(Packets) /\ Len(s \o t) = Len(s) + Len(t)
  OBVIOUS
<1>2. ASSUME NEW i \in 1 .. Len(s \o t), (s \o t)[i] = p PROVE Has(s, p) \/ Has(t, p)
  <2>1. CASE i <= Len(s)
    BY <1>1, <1>2, <2>1 DEF Has
  <2>2. CASE i > Len(s)
    <3>1. i - Len(s) \in 1 .. Len(t) /\ t[i - Len(s)] = p
      BY <1>1, <1>2, <2>2
    <3> QED
      BY <3>1 DEF Has
  <2> QED
    BY <1>1, <2>1, <2>2
<1>3. ASSUME NEW i \in 1 .. Len(s), s[i] = p PROVE Has(s \o t, p)
  <2>1. i \in 1 .. Len(s \o t) /\ (s \o t)[i] = p
    BY <1>1, <1>3
  <2> QED
    BY <2>1 DEF Has
<1>4. ASSUME NEW i \in 1 .. Len(t), t[i] = p PROVE Has(s \o t, p)
  <2>1. i + Len(s) \in 1 .. Len(s \o t) /\ (s \o t)[i + Len(s)] = p
    BY <1>1, <1>4
  <2> QED
    BY <2>1 DEF Has
<1> QED
  BY <1>1, <1>2, <1>3, <1>4 DEF Has

\* What one recv leaves of a stream.
LEMMA Left ==
    ASSUME StreamOK, NEW e \in Ends, NEW k \in 1 .. Len(stream[e]), NEW cut \in BOOLEAN,
           NEW p \in {"zero", "link"}
    PROVE  LET left == Remaining(e, k, cut)
           IN  /\ left \in Seq(Packets)
               /\ Has(left, p) => Has(stream[e], p)
               /\ Has(stream[e], p) /\ (\A i \in 1 .. k : stream[e][i] # p) => Has(left, p)
<1> DEFINE s == stream[e]
           front == IF cut THEN <<"rest">> ELSE <<>>
           back == SubSeq(s, k + 1, Len(s))
<1>1. s \in Seq(Packets) /\ Len(s) \in Nat
  BY DEF StreamOK
<1>2. front \in Seq(Packets) /\ ~Has(front, p)
  <2>1. CASE cut
    <3>1. ~Has(<<"rest">>, p) /\ <<"rest">> \in Seq(Packets)
      BY Short DEF Packets
    <3> QED
      BY <2>1, <3>1
  <2>2. CASE ~cut
    BY <2>2, Short
  <2> QED
    BY <2>1, <2>2
<1>3. /\ back \in Seq(Packets) /\ Len(back) = Len(s) - k
      /\ \A i \in 1 .. Len(back) : back[i] = s[i + k]
  BY <1>1
<1>4. Has(back, p) => Has(s, p)
  <2>1. SUFFICES ASSUME NEW i \in 1 .. Len(back), back[i] = p PROVE Has(s, p)
    BY DEF Has
  <2>2. i + k \in 1 .. Len(s) /\ s[i + k] = p
    BY <1>1, <1>3, <2>1
  <2> QED
    BY <2>2 DEF Has
<1>5. ASSUME Has(s, p), \A i \in 1 .. k : s[i] # p PROVE Has(back, p)
  <2>1. PICK i \in 1 .. Len(s) : s[i] = p
    BY <1>5 DEF Has
  <2>2. i > k
    BY <1>5, <2>1
  <2>3. i - k \in 1 .. Len(back) /\ back[i - k] = p
    BY <1>1, <1>3, <2>1, <2>2
  <2> QED
    BY <2>3 DEF Has
<1>6. Remaining(e, k, cut) = front \o back
  BY DEF Remaining
<1> HIDE DEF front, back
<1> QED
  BY <1>2, <1>3, <1>4, <1>5, <1>6, Appended

\* A packet that stays on the stream goes on waiting.
LEMMA Waits ==
    ASSUME ClocksOK, NEW e \in Ends, NEW left \in Seq(Packets), NEW p, Has(left, p)
    PROVE  Waiting(e, left) = wait
<1>1. left # <<>>
  BY Short
<1> QED
  BY <1>1 DEF Waiting, ClocksOK
-----------------------------------------------------------------------------
LEMMA InitPrompt == Init => PromptInv
<1> SUFFICES ASSUME Init PROVE PromptInv
  OBVIOUS
<1>1. AgeInv
  BY InitAge
<1>2. PICK hello \in {"zero", "link"} :
          stream = [e \in Ends |-> IF e = "server" THEN <<hello>> ELSE <<>>]
  BY DEF Init
<1>3. StreamOK
  <2>1. <<hello>> \in Seq(Packets) /\ <<>> \in Seq(Packets)
    BY Short DEF Packets
  <2>2. missed = [e \in Ends |-> "no"]
    BY DEF Init
  <2> QED
    BY <1>2, <2>1, <2>2 DEF StreamOK
<1>4. ZeroFirst
  BY <1>2 DEF Init, ZeroFirst, Has
<1>5. \A e \in Ends : up[e] /\ ~knows[e]
  BY StreamAssumption DEF Init
<1> QED
  BY <1>1, <1>3, <1>4, <1>5 DEF PromptInv, Renewal, Mutual, Prompt

\* The parts of the invariant about one end and the other.
LEMMA PromptParts ==
    ASSUME PromptInv, ~lost, NEW e \in Ends
    PROVE  LET d == Other(e)
           IN  /\ d \in Ends /\ d # e /\ Other(d) = e /\ Ends = {e, d}
               /\ ClocksOK /\ StreamOK /\ ZeroFirst
               /\ stream[e] \in Seq(Packets) /\ stream[d] \in Seq(Packets)
               /\ up[e] /\ Renewal(e) /\ up[d] /\ Renewal(d)
               /\ age[e] \in Nat /\ due[e] \in -WakeDelay .. LinkPeriod
               /\ age[d] \in Nat /\ due[d] \in -WakeDelay .. LinkPeriod
               /\ wait[e] \in 0 .. ReadDelay /\ wait[d] \in 0 .. ReadDelay
BY TwoEnds DEF PromptInv, AgeInv, ClocksOK, StreamOK

\* A link state packet comes first: e is renewed, and the other end is answered.
LEMMA RecvLinkPrompt ==
    ASSUME PromptInv, AgeInv', StreamOK', ~lost, NEW e \in Ends, RecvLink(e)
    PROVE  PromptInv'
<1> DEFINE d == Other(e)
<1>1. PICK k \in 1 .. Len(stream[e]), cut \in BOOLEAN, early \in BOOLEAN :
          LET answer == IF ~knows[e] /\ Head(stream[e]) = "link" THEN <<"link">> ELSE <<>>
          IN  /\ Returned(e, k, cut) /\ IsLink(Head(stream[e]))
              /\ wait' = Waiting(e, Remaining(e, k, cut))
              /\ stream' = [stream EXCEPT
                     ![e] = Remaining(e, k, cut),
                     ![d] = Sent(e, (IF early THEN <<"frame">> ELSE <<>>) \o answer)]
  BY ZenonT(60) DEF RecvLink
<1>2. /\ knows' = [knows EXCEPT ![e] = TRUE] /\ age' = [age EXCEPT ![e] = 0]
      /\ missed' = [missed EXCEPT ![e] = IF @ = "yes" THEN "answering" ELSE @,
                                  ![d] = IF @ = "answering" THEN "no" ELSE @]
      /\ UNCHANGED <<up, lost, due>>
  BY DEF RecvLink, Renewed, Recovered
<1>3. /\ d \in Ends /\ d # e /\ Other(d) = e /\ Ends = {e, d}
      /\ ClocksOK /\ StreamOK /\ ZeroFirst
      /\ stream[e] \in Seq(Packets) /\ stream[d] \in Seq(Packets)
      /\ up[e] /\ up[d] /\ Renewal(d)
      /\ age[e] \in Nat /\ due[e] \in -WakeDelay .. LinkPeriod
      /\ age[d] \in Nat /\ due[d] \in -WakeDelay .. LinkPeriod
      /\ wait[e] \in 0 .. ReadDelay /\ wait[d] \in 0 .. ReadDelay
  BY PromptParts
<1> DEFINE first  == Head(stream[e])
           answer == IF ~knows[e] /\ first = "link" THEN <<"link">> ELSE <<>>
           frame  == IF early THEN <<"frame">> ELSE <<>>
           back   == frame \o answer
<1>4. /\ back \in Seq(Packets) /\ ~Has(back, "zero")
      /\ ~knows[e] /\ first = "link" => Has(back, "link")
  <2>1. frame \in Seq(Packets) /\ answer \in Seq(Packets)
    BY Short DEF Packets
  <2>2. ~Has(frame, "zero") /\ ~Has(answer, "zero")
    BY Short
  <2>3. ~knows[e] /\ first = "link" => Has(answer, "link")
    BY Short
  <2> HIDE DEF frame, answer
  <2> QED
    BY <2>1, <2>2, <2>3, Appended
<1> HIDE DEF back
<1>5. /\ stream'[e] = Remaining(e, k, cut) /\ stream'[d] = stream[d] \o back
      /\ stream' = [stream EXCEPT ![e] = Remaining(e, k, cut), ![d] = stream[d] \o back]
  BY <1>1, <1>3 DEF Sent, StreamOK, back
<1>6. /\ Remaining(e, k, cut) \in Seq(Packets)
      /\ Has(Remaining(e, k, cut), "zero") => Has(stream[e], "zero")
  BY <1>3, Left
<1>7. /\ stream[d] \o back \in Seq(Packets)
      /\ Has(stream[d] \o back, "zero") => Has(stream[d], "zero")
      /\ Has(stream[d], "link") \/ Has(back, "link") => Has(stream[d] \o back, "link")
  BY <1>3, <1>4, Appended
<1>9. first = "zero" => Has(stream[e], "zero")
  BY <1>3 DEF Has
<1>10. first \in {"zero", "link"}
  BY <1>1 DEF IsLink
<1>11. ZeroFirst' /\ (first = "zero" => ~knows[d])
  <2>1. CASE \A f \in Ends : ~Has(stream[f], "zero")
    BY <1>3, <1>5, <1>6, <1>7, <1>9, <2>1 DEF ZeroFirst
  <2>2. CASE /\ stream = [f \in Ends |-> IF f = "server" THEN <<"zero">> ELSE <<>>]
             /\ \A f \in Ends : ~knows[f]
    <3>1. stream[e] = <<"zero">> /\ stream[d] = <<>>
      BY <1>3, <2>2 DEF Ends
    <3>2. k = 1 /\ ~cut
      BY <1>1, <3>1 DEF Returned
    <3>3. Remaining(e, k, cut) = <<>>
      BY <3>1, <3>2 DEF Remaining
    <3>4. ~Has(stream'[e], "zero") /\ ~Has(stream'[d], "zero")
      BY <1>5, <1>7, <3>1, <3>3 DEF Has
    <3> QED
      BY <1>3, <2>2, <3>4 DEF ZeroFirst
  <2> QED
    BY <1>3, <2>1, <2>2 DEF ZeroFirst
<1>12. /\ knows'[e] /\ age'[e] = 0 /\ knows'[d] = knows[d] /\ age'[d] = age[d]
       /\ missed'[d] = "yes" <=> missed[d] = "yes"
       /\ missed'[e] = "no" <=> missed[e] = "no"
  BY <1>2, <1>3 DEF ClocksOK, StreamOK
<1>13. Comes(d) => Comes(d)'
  BY <1>5, <1>7 DEF Comes
<1>14. knows[d] /\ ~knows[e] => Comes(d)'
  BY <1>4, <1>5, <1>7, <1>10, <1>11 DEF Comes
<1>15. wait'[d] = wait[d]
  BY <1>1, <1>3 DEF Waiting, ClocksOK
<1>16. Renewal(e)'
  <2>1. age'[e] + due'[d] <= LinkPeriod /\ age'[e] + due'[e] <= LinkPeriod
    BY <1>2, <1>3, <1>12, StreamAssumption
  <2> QED
    BY <2>1 DEF Renewal, Mutual, Prompt
<1>17. Mutual(d) => Mutual(d)'
  BY <1>2, <1>3, <1>12, <1>13, <1>14 DEF Mutual
<1>18. ASSUME Prompt(d), knows[d] PROVE Prompt(d)'
  <2>1. \/ Comes(d) /\ age[d] <= LinkPeriod + WakeDelay + ReadDelay + wait[d]
        \/ knows[e] /\ age[d] + due[e] <= LinkPeriod
        \/ ~knows[e] /\ age[d] <= LinkPeriod + WakeDelay + wait[e]
        \/ ~knows[e] /\ age[d] + due[d] <= LinkPeriod
    BY <1>3, <1>18 DEF Prompt
  <2>2. \/ Comes(d) /\ age[d] <= LinkPeriod + WakeDelay + ReadDelay + wait[d]
        \/ knows[e] /\ age[d] + due[e] <= LinkPeriod
        \/ ~knows[e] /\ age[d] <= LinkPeriod + WakeDelay + ReadDelay + wait[d]
    <3>1. /\ age[d] \in Nat /\ due[d] >= -WakeDelay /\ due[d] \in Int
          /\ wait[e] <= ReadDelay /\ wait[e] \in Nat /\ wait[d] \in Nat
      BY <1>3, StreamAssumption
    <3>2. ~knows[e] /\ age[d] <= LinkPeriod + WakeDelay + wait[e]
            => age[d] <= LinkPeriod + WakeDelay + ReadDelay + wait[d]
      BY <3>1, StreamAssumption
    <3>3. ~knows[e] /\ age[d] + due[d] <= LinkPeriod
            => age[d] <= LinkPeriod + WakeDelay + ReadDelay + wait[d]
      BY <3>1, StreamAssumption
    <3> QED
      BY <2>1, <3>2, <3>3
  <2>3. \/ Comes(d)' /\ age'[d] <= LinkPeriod + WakeDelay + ReadDelay + wait'[d]
        \/ knows'[e] /\ age'[d] + due'[e] <= LinkPeriod
    BY <1>2, <1>12, <1>13, <1>14, <1>15, <1>18, <2>2
  <2> QED
    BY <1>3, <2>3 DEF Prompt
<1>19. Renewal(d)'
  BY <1>3, <1>12, <1>17, <1>18 DEF Renewal, Prompt
<1> QED
  BY <1>2, <1>3, <1>11, <1>16, <1>19 DEF PromptInv

\* Something else comes first: what is lost with it has been missed.
LEMMA RecvOtherPrompt ==
    ASSUME PromptInv, AgeInv', StreamOK', ~lost, NEW e \in Ends, RecvOther(e)
    PROVE  PromptInv'
<1> DEFINE d == Other(e)
<1>1. PICK k \in 1 .. Len(stream[e]), cut \in BOOLEAN :
          /\ ~IsLink(Head(stream[e]))
          /\ missed' = IF \E i \in 1 .. k : IsLink(stream[e][i])
                       THEN [missed EXCEPT ![e] = "yes"]
                       ELSE missed
          /\ wait' = Waiting(e, Remaining(e, k, cut))
          /\ stream' = [stream EXCEPT ![e] = Remaining(e, k, cut)]
  BY DEF RecvOther, Returned
<1>2. UNCHANGED <<up, lost, knows, age, due>>
  BY DEF RecvOther, clocks
<1>3. /\ d \in Ends /\ d # e /\ Other(d) = e /\ Ends = {e, d}
      /\ ClocksOK /\ StreamOK /\ ZeroFirst /\ stream[e] \in Seq(Packets)
      /\ up[e] /\ Renewal(e) /\ up[d] /\ Renewal(d)
  BY PromptParts
<1>4. stream'[e] = Remaining(e, k, cut) /\ stream'[d] = stream[d]
  BY <1>1, <1>3 DEF StreamOK
<1>5. /\ Remaining(e, k, cut) \in Seq(Packets)
      /\ Has(Remaining(e, k, cut), "zero") => Has(stream[e], "zero")
      /\ Has(stream[e], "link") /\ (\A i \in 1 .. k : stream[e][i] # "link")
            => Has(Remaining(e, k, cut), "link")
  BY <1>3, Left
<1>7. ZeroFirst'
  <2>1. CASE \A f \in Ends : ~Has(stream[f], "zero")
    BY <1>3, <1>4, <1>5, <2>1 DEF ZeroFirst
  <2>2. CASE stream = [f \in Ends |-> IF f = "server" THEN <<"zero">> ELSE <<>>]
    BY <1>1, <1>3, <2>2 DEF IsLink
  <2> QED
    BY <1>3, <2>1, <2>2 DEF ZeroFirst
<1>8. Comes(d)' = Comes(d) /\ wait'[d] = wait[d]
  BY <1>1, <1>3, <1>4 DEF Comes, Waiting, ClocksOK
<1>9. CASE \E i \in 1 .. k : IsLink(stream[e][i])
  <2>1. missed'[e] = "yes" /\ missed'[d] = missed[d]
    BY <1>1, <1>3, <1>9 DEF StreamOK
  <2>2. Renewal(e)' /\ Renewal(d)'
    BY <1>2, <1>3, <1>8, <2>1 DEF Renewal, Mutual
  <2> QED
    BY <1>2, <1>3, <1>7, <2>2 DEF PromptInv
<1>10. CASE ~ \E i \in 1 .. k : IsLink(stream[e][i])
  <2>1. missed' = missed
    BY <1>1, <1>10
  <2>2. Comes(e) => Comes(e)' /\ wait' = wait
    <3>1. Comes(e) => Has(Remaining(e, k, cut), "link")
      BY <1>5, <1>10 DEF Comes, IsLink
    <3> QED
      BY <1>1, <1>3, <1>4, <1>5, <3>1, Waits DEF Comes
  <2>3. Renewal(e)' /\ Renewal(d)'
    BY <1>2, <1>3, <1>8, <2>1, <2>2 DEF Renewal, Mutual, Prompt
  <2> QED
    BY <1>2, <1>3, <1>7, <2>3 DEF PromptInv
<1> QED
  BY <1>9, <1>10

\* e sends: frames come behind what is on its way, and a flood renews the other end.
LEMMA SendPrompt ==
    ASSUME PromptInv, AgeInv', StreamOK', ~lost, NEW e \in Ends, SendPackets(e) \/ TAPHandle(e)
    PROVE  PromptInv'
<1> DEFINE d == Other(e)
<1>1. PICK packets \in {<<>>, <<"link">>, <<"frame">>} :
          /\ stream' = [stream EXCEPT ![d] = stream[d] \o packets]
          /\ packets # <<>> => knows[e]
          /\ \/ due' = due
             \/ /\ due' = [due EXCEPT ![e] = LinkPeriod]
                /\ knows[e] => packets = <<"link">>
  BY DEF SendPackets, TAPHandle, Sent, clocks
<1>2. UNCHANGED <<up, lost, knows, age, wait, missed>>
  BY DEF SendPackets, TAPHandle, clocks
<1>3. /\ d \in Ends /\ d # e /\ Other(d) = e /\ Ends = {e, d}
      /\ ClocksOK /\ StreamOK /\ ZeroFirst /\ stream[d] \in Seq(Packets)
      /\ up[e] /\ Renewal(e) /\ up[d] /\ Renewal(d)
      /\ age[e] \in Nat /\ due[e] \in -WakeDelay .. LinkPeriod
      /\ age[d] \in Nat /\ due[d] \in -WakeDelay .. LinkPeriod
      /\ wait[e] \in 0 .. ReadDelay /\ wait[d] \in 0 .. ReadDelay
  BY PromptParts
<1>4. stream'[d] = stream[d] \o packets /\ stream'[e] = stream[e]
  BY <1>1, <1>3 DEF StreamOK
<1>5. /\ packets \in Seq(Packets) /\ ~Has(packets, "zero")
      /\ packets = <<"link">> => Has(packets, "link")
  <2>1. \A q \in {"link", "frame"} : <<q>> \in Seq(Packets) /\ ~Has(<<q>>, "zero")
    BY Short DEF Packets
  <2>2. Has(<<"link">>, "link") /\ <<>> \in Seq(Packets) /\ ~Has(<<>>, "zero")
    BY Short
  <2> QED
    BY <2>1, <2>2
<1>6. /\ stream[d] \o packets \in Seq(Packets)
      /\ Has(stream[d] \o packets, "zero") => Has(stream[d], "zero")
      /\ Has(stream[d], "link") \/ Has(packets, "link") => Has(stream[d] \o packets, "link")
  BY <1>3, <1>5, Appended
<1>8. ZeroFirst'
  <2>1. CASE \A f \in Ends : ~Has(stream[f], "zero")
    BY <1>3, <1>4, <1>6, <2>1 DEF ZeroFirst
  <2>2. CASE /\ stream = [f \in Ends |-> IF f = "server" THEN <<"zero">> ELSE <<>>]
             /\ \A f \in Ends : ~knows[f]
    <3>1. packets = <<>>
      BY <1>1, <2>2
    <3>2. stream[d] \o packets = stream[d]
      BY <1>3, <3>1
    <3>3. stream' = stream
      BY <1>1, <1>3, <3>2 DEF StreamOK
    <3> QED
      BY <1>2, <2>2, <3>3 DEF ZeroFirst
  <2> QED
    BY <1>3, <2>1, <2>2 DEF ZeroFirst
<1>9. (Comes(d) => Comes(d)') /\ Comes(e)' = Comes(e)
  BY <1>4, <1>6 DEF Comes
<1>10. packets = <<"link">> => Comes(d)'
  BY <1>4, <1>5, <1>6 DEF Comes
<1>11. due'[d] = due[d]
  BY <1>1, <1>3 DEF ClocksOK
<1>12. \/ due'[e] = due[e]
       \/ knows[e] => Comes(d)'
  BY <1>1, <1>10
<1>13. knows[e] => (Mutual(e) => Mutual(e)') /\ (Mutual(d) => Mutual(d)')
  BY <1>2, <1>3, <1>9, <1>11, <1>12 DEF Mutual
<1>15. ASSUME Prompt(e), knows[e] PROVE Prompt(e)'
  <2>1. \/ Comes(e) /\ age[e] <= LinkPeriod + WakeDelay + ReadDelay + wait[e]
        \/ knows[d] /\ age[e] + due[d] <= LinkPeriod
        \/ ~knows[d] /\ Comes(d) /\ age[e] <= LinkPeriod + WakeDelay + wait[d]
        \/ ~knows[d] /\ age[e] + due[e] <= LinkPeriod
    BY <1>15 DEF Prompt
  <2>2. ~knows[d] /\ age[e] + due[e] <= LinkPeriod =>
            \/ age[e] + due'[e] <= LinkPeriod
            \/ Comes(d)' /\ age[e] <= LinkPeriod + WakeDelay + wait[d]
    BY <1>3, <1>12, <1>15, StreamAssumption
  <2> QED
    BY <1>2, <1>9, <1>11, <2>1, <2>2 DEF Prompt
<1>16. ASSUME Prompt(d), knows[d] PROVE Prompt(d)'
  <2>1. \/ Comes(d) /\ age[d] <= LinkPeriod + WakeDelay + ReadDelay + wait[d]
        \/ knows[e] /\ age[d] + due[e] <= LinkPeriod
        \/ ~knows[e] /\ Comes(e) /\ age[d] <= LinkPeriod + WakeDelay + wait[e]
        \/ ~knows[e] /\ age[d] + due[d] <= LinkPeriod
    BY <1>3, <1>16 DEF Prompt
  <2>2. knows[e] /\ age[d] + due[e] <= LinkPeriod =>
            \/ age[d] + due'[e] <= LinkPeriod
            \/ Comes(d)' /\ age[d] <= LinkPeriod + WakeDelay + ReadDelay + wait[d]
    BY <1>3, <1>12, StreamAssumption
  <2> QED
    BY <1>2, <1>3, <1>9, <1>11, <2>1, <2>2 DEF Prompt
<1>17. knows[e] \/ (Mutual(e)' /\ Mutual(d)')
  BY <1>2, <1>3 DEF Mutual
<1>18. Renewal(e)' /\ Renewal(d)'
  BY <1>2, <1>3, <1>13, <1>15, <1>16, <1>17 DEF Renewal, Prompt
<1> QED
  BY <1>2, <1>3, <1>8, <1>18 DEF PromptInv

\* The search of e: if it forgets the other end, a packet has been missed, or one
\* that will be answered is on its way to e.
LEMMA CheckPrompt ==
    ASSUME Punctual, PromptInv, AgeInv', StreamOK', ~lost, NEW e \in Ends, CheckLinkTimeOut(e)
    PROVE  PromptInv'
<1> DEFINE d == Other(e)
<1>1. /\ knows' = [knows EXCEPT ![e] = knows[e] /\ ~Expired(e)]
      /\ age' = IF Expired(e) THEN [age EXCEPT ![e] = 0] ELSE age
      /\ UNCHANGED <<up, lost, due, wait, stream, missed>>
  BY DEF CheckLinkTimeOut
<1>2. /\ d \in Ends /\ d # e /\ Other(d) = e /\ Ends = {e, d}
      /\ ClocksOK /\ StreamOK /\ ZeroFirst
      /\ up[e] /\ Renewal(e) /\ up[d] /\ Renewal(d)
      /\ age[e] \in Nat /\ due[e] \in -WakeDelay .. LinkPeriod
      /\ age[d] \in Nat /\ due[d] \in -WakeDelay .. LinkPeriod
      /\ wait[e] \in 0 .. ReadDelay /\ wait[d] \in 0 .. ReadDelay
  BY PromptParts
<1>3. Comes(e)' = Comes(e) /\ Comes(d)' = Comes(d)
  BY <1>1, <1>2 DEF Comes
<1>4. ZeroFirst'
  BY <1>1, <1>2 DEF ZeroFirst, ClocksOK
<1>5. CASE ~Expired(e)
  <2>1. knows' = knows /\ age' = age
    BY <1>1, <1>2, <1>5 DEF ClocksOK
  <2>2. Renewal(e)' /\ Renewal(d)'
    BY <1>1, <1>2, <1>3, <2>1 DEF Renewal, Mutual, Prompt
  <2> QED
    BY <1>1, <1>2, <1>3, <1>4, <2>2 DEF PromptInv
<1>6. CASE Expired(e)
  <2>1. knows[e] /\ ~knows'[e] /\ knows'[d] = knows[d] /\ age'[d] = age[d]
    <3>1. knows' = [knows EXCEPT ![e] = FALSE] /\ age' = [age EXCEPT ![e] = 0]
      BY <1>1, <1>6
    <3> QED
      BY <1>2, <1>6, <3>1 DEF ClocksOK, Expired
  <2>2. age[e] > LinkPeriod + WakeDelay
    BY <1>2, <1>6, StreamAssumption DEF Expired, Punctual
  <2>3. Renewal(e)' /\ Mutual(d)'
    BY <1>2, <2>1 DEF Renewal, Mutual, Prompt
  <2>4. missed[e] = "no" /\ knows[d] => Comes(e)
    <3>1. ~(age[e] + due[d] <= LinkPeriod)
      BY <1>2, <2>2, StreamAssumption
    <3> QED
      BY <1>2, <2>1, <3>1 DEF Renewal, Mutual
  <2>5. ASSUME Prompt(d), knows[d], missed[e] = "no" PROVE Prompt(d)'
    <3>1. \/ Comes(d) /\ age[d] <= LinkPeriod + WakeDelay + ReadDelay + wait[d]
          \/ age[d] + due[e] <= LinkPeriod
      BY <1>2, <2>1, <2>5 DEF Prompt
    <3>2. \/ Comes(d) /\ age[d] <= LinkPeriod + WakeDelay + ReadDelay + wait[d]
          \/ age[d] <= LinkPeriod + WakeDelay + wait[e]
      BY <1>2, <3>1, StreamAssumption
    <3> QED
      BY <1>1, <1>2, <1>3, <2>1, <2>4, <2>5, <3>2 DEF Prompt
  <2>6. Renewal(d)'
    BY <1>1, <1>2, <2>1, <2>3, <2>5 DEF Renewal, Prompt
  <2> QED
    BY <1>1, <1>2, <1>3, <1>4, <2>3, <2>6 DEF PromptInv
<1> QED
  BY <1>5, <1>6

\* A tick: the age grows by as much as the wait for the flood gets shorter, or the
\* packet has waited longer.
LEMMA TickPrompt ==
    ASSUME PromptInv, AgeInv', StreamOK', ~lost, Tick
    PROVE  PromptInv'
<1>1. \A e \in Ends : up[e] /\ Renewal(e)
  BY DEF PromptInv
<1>2. /\ UNCHANGED <<up, lost, knows, stream, missed>>
      /\ age' = [e \in Ends |->
            IF up[e] /\ knows[e] /\ age[e] <= 2 * LinkTimeout + WakeDelay
            THEN age[e] + 1 ELSE age[e]]
      /\ due' = [e \in Ends |-> IF up[e] /\ ~lost THEN due[e] - 1 ELSE due[e]]
      /\ wait' = [e \in Ends |-> IF up[e] /\ stream[e] # <<>> THEN wait[e] + 1 ELSE wait[e]]
  BY DEF Tick
<1>3. ClocksOK /\ StreamOK /\ ZeroFirst
  BY DEF PromptInv, AgeInv
<1>4. ZeroFirst'
  BY <1>2, <1>3 DEF ZeroFirst
<1>5. ASSUME NEW e \in Ends PROVE Renewal(e)'
  <2> DEFINE d == Other(e)
  <2>1. d \in Ends
    BY TwoEnds
  <2>2. /\ age[e] \in Nat /\ due[e] \in Int /\ due[d] \in Int
        /\ wait[e] \in Nat /\ wait[d] \in Nat
        /\ age'[e] \in Nat /\ age'[e] <= age[e] + 1
        /\ due'[e] = due[e] - 1 /\ due'[d] = due[d] - 1
        /\ Comes(e) => wait'[e] = wait[e] + 1
        /\ Comes(d) => wait'[d] = wait[d] + 1
    <3>1. \A f \in Ends : Comes(f) => stream[f] # <<>>
      BY Short DEF Comes
    <3>2. /\ age[e] \in Nat /\ due[e] \in Int /\ due[d] \in Int
          /\ wait[e] \in Nat /\ wait[d] \in Nat /\ up[e] /\ up[d]
      BY <1>1, <1>3, <2>1, StreamAssumption DEF ClocksOK
    <3>3. age'[e] \in Nat /\ age'[e] <= age[e] + 1
      BY <1>2, <3>2
    <3>4. /\ due'[e] = due[e] - 1 /\ due'[d] = due[d] - 1
          /\ Comes(e) => wait'[e] = wait[e] + 1
          /\ Comes(d) => wait'[d] = wait[d] + 1
      BY <1>2, <2>1, <3>1, <3>2
    <3> QED
      BY <3>2, <3>3, <3>4
  <2>3. Comes(e)' = Comes(e) /\ Comes(d)' = Comes(d)
    BY <1>2 DEF Comes
  <2> HIDE DEF d
  <2>4. /\ age[e] + due[d] <= LinkPeriod => age'[e] + due'[d] <= LinkPeriod
        /\ age[e] + due[e] <= LinkPeriod => age'[e] + due'[e] <= LinkPeriod
        /\ Comes(e) /\ age[e] <= LinkPeriod + WakeDelay + ReadDelay + wait[e]
              => age'[e] <= LinkPeriod + WakeDelay + ReadDelay + wait'[e]
        /\ Comes(d) /\ age[e] <= LinkPeriod + WakeDelay + wait[d]
              => age'[e] <= LinkPeriod + WakeDelay + wait'[d]
    BY <2>2, StreamAssumption
  <2>5. (Mutual(e) => Mutual(e)') /\ (Prompt(e) => Prompt(e)')
    BY <1>2, <2>3, <2>4 DEF Mutual, Prompt, d
  <2> QED
    BY <1>1, <1>2, <2>5 DEF Renewal
<1> QED
  BY <1>1, <1>2, <1>4, <1>5 DEF PromptInv

\* The types of what is on its way.
LEMMA StreamType == StreamOK /\ [Next]_vars => StreamOK'
<1> SUFFICES ASSUME StreamOK, [Next]_vars PROVE StreamOK'
  OBVIOUS
<1>1. ASSUME NEW e \in Ends, NEW packets \in Seq(Packets)
      PROVE  Sent(e, packets) \in Seq(Packets)
  <2>1. stream[Other(e)] \in Seq(Packets)
    BY TwoEnds DEF StreamOK
  <2> QED
    BY <2>1, Appended DEF Sent
<1>2. ASSUME NEW e \in Ends, SendPackets(e) \/ TAPHandle(e) PROVE StreamOK'
  <2>1. PICK packets \in {<<>>, <<"link">>, <<"frame">>} :
            stream' = [stream EXCEPT ![Other(e)] = Sent(e, packets)]
    BY <1>2 DEF SendPackets, TAPHandle
  <2>2. packets \in Seq(Packets) /\ UNCHANGED missed
    BY <1>2, Short DEF SendPackets, TAPHandle, Packets
  <2> QED
    BY <1>1, <2>1, <2>2 DEF StreamOK
<1>3. ASSUME NEW e \in Ends, RecvOther(e) PROVE StreamOK'
  <2>1. PICK k \in 1 .. Len(stream[e]), cut \in BOOLEAN :
            stream' = [stream EXCEPT ![e] = Remaining(e, k, cut)]
    BY <1>3 DEF RecvOther, Returned
  <2>2. Remaining(e, k, cut) \in Seq(Packets)
    BY Left
  <2>3. missed' = [missed EXCEPT ![e] = "yes"] \/ UNCHANGED missed
    BY <1>3 DEF RecvOther
  <2> QED
    BY <2>1, <2>2, <2>3 DEF StreamOK
<1>4. ASSUME NEW e \in Ends, RecvLink(e) PROVE StreamOK'
  <2>1. PICK k \in 1 .. Len(stream[e]), cut \in BOOLEAN, early \in BOOLEAN :
            stream' = [stream EXCEPT
                ![e] = Remaining(e, k, cut),
                ![Other(e)] = Sent(e, (IF early THEN <<"frame">> ELSE <<>>) \o
                                      (IF ~knows[e] /\ Head(stream[e]) = "link"
                                       THEN <<"link">> ELSE <<>>))]
    BY <1>4, Zenon DEF RecvLink
  <2> DEFINE frame == IF early THEN <<"frame">> ELSE <<>>
             answer == IF ~knows[e] /\ Head(stream[e]) = "link" THEN <<"link">> ELSE <<>>
  <2>2. frame \in Seq(Packets) /\ answer \in Seq(Packets)
    BY Short DEF Packets
  <2> HIDE DEF frame, answer
  <2>3. Sent(e, frame \o answer) \in Seq(Packets)
    BY <1>1, <2>2, Appended
  <2>4. Remaining(e, k, cut) \in Seq(Packets)
    BY Left
  <2>5. missed' = Recovered(e)
    BY <1>4 DEF RecvLink
  <2>6. missed' \in [Ends -> {"no", "yes", "answering"}]
    BY <2>5 DEF StreamOK, Recovered
  <2> QED
    BY <2>1, <2>3, <2>4, <2>6 DEF StreamOK, frame, answer
<1>5. ASSUME NEW e \in Ends, Stop(e) \/ TAPHandleKilled(e) \/ RecvLinkKilled(e)
      PROVE  StreamOK'
  BY <1>5, Short DEF Stop, TAPHandleKilled, RecvLinkKilled, Ended, StreamOK
<1>6. ASSUME NEW e \in Ends, CheckLinkTimeOut(e) PROVE StreamOK'
  BY <1>6 DEF CheckLinkTimeOut, StreamOK
<1>7. CASE LostConnection \/ Tick \/ UNCHANGED vars
  BY <1>7 DEF LostConnection, Tick, vars, StreamOK
<1> QED
  BY <1>2, <1>3, <1>4, <1>5, <1>6, <1>7 DEF Next, Threads, TCPHandle, Down

\* Every step.
LEMMA NextPrompt ==
    ASSUME Punctual
    PROVE  PromptInv /\ [Next]_vars => PromptInv'
<1> SUFFICES ASSUME PromptInv, [Next]_vars PROVE PromptInv'
  OBVIOUS
<1>1. AgeInv' /\ StreamOK'
  BY NextAge, StreamType DEF PromptInv
<1>2. CASE lost'
  BY <1>1, <1>2 DEF PromptInv
<1>3. CASE ~lost'
  <2>1. ~lost
    BY <1>3 DEF Next, Threads, TCPHandle, RecvLink, RecvOther, SendPackets,
       CheckLinkTimeOut, TAPHandle, TAPHandleKilled, RecvLinkKilled, Stop, LostConnection,
       Lost, Tick, Down, vars
  <2>2. ASSUME NEW e \in Ends, Threads(e) \/ TAPHandle(e) PROVE PromptInv'
    BY <1>1, <2>1, <2>2, RecvLinkPrompt, RecvOtherPrompt, SendPrompt, CheckPrompt
       DEF Threads, TCPHandle
  <2>3. CASE Tick
    BY <1>1, <2>1, <2>3, TickPrompt
  <2>4. \A e \in Ends : ~TAPHandleKilled(e) /\ ~RecvLinkKilled(e) /\ ~Stop(e)
    BY <1>3, <2>1 DEF TAPHandleKilled, RecvLinkKilled, Stop, Lost
  <2>5. ~LostConnection
    BY <1>3 DEF LostConnection, Lost
  <2>6. CASE UNCHANGED vars
    BY <2>6 DEF PromptInv, AgeInv, ClocksOK, SearchInTime, StreamOK, ZeroFirst, Renewal,
       Mutual, Prompt, Comes, vars, clocks
  <2> QED
    BY <2>2, <2>3, <2>4, <2>5, <2>6 DEF Next, Down
<1> QED
  BY <1>2, <1>3

\* Whatever recv takes for one packet, and whatever the phases and delays of the four
\* threads: if the time-out has room for the delays, a proxy forgets a neighbour that
\* is still connected only if a link state packet between the two was not recognised
\* and its loss not made good yet.
THEOREM ExpiredForCauseCorrect ==
    ASSUME Punctual
    PROVE  Spec => ExpiredForCause
<1>1. PromptInv /\ [Next]_vars =>
          \A e \in Ends : knows[e] /\ ~knows'[e] =>
              lost \/ \E d \in Ends : missed[d] # "no"
  <2> SUFFICES ASSUME PromptInv, [Next]_vars, NEW e \in Ends, knows[e], ~knows'[e], ~lost
               PROVE  \E d \in Ends : missed[d] # "no"
    OBVIOUS
  <2>1. Expired(e)
    <3>1. knows \in [Ends -> BOOLEAN]
      BY DEF PromptInv, AgeInv, ClocksOK
    <3>2. ASSUME NEW f \in Ends, CheckLinkTimeOut(f) PROVE Expired(e)
      BY <3>1, <3>2 DEF CheckLinkTimeOut
    <3>3. ASSUME NEW f \in Ends, TCPHandle(f) \/ SendPackets(f) \/ TAPHandle(f)
                                 \/ TAPHandleKilled(f) \/ RecvLinkKilled(f) \/ Stop(f)
          PROVE  FALSE
      BY <3>1, <3>3 DEF TCPHandle, RecvLink, RecvOther, SendPackets, TAPHandle,
         TAPHandleKilled, RecvLinkKilled, Stop
    <3>4. CASE LostConnection \/ Tick \/ UNCHANGED vars
      BY <3>4 DEF LostConnection, Tick, vars
    <3> QED
      BY <3>2, <3>3, <3>4 DEF Next, Threads, Down
  <2> DEFINE d == Other(e)
  <2>2. /\ Renewal(e) /\ d \in Ends /\ age[e] \in Nat
        /\ due[e] \in -WakeDelay .. LinkPeriod /\ due[d] \in -WakeDelay .. LinkPeriod
        /\ wait[e] \in 0 .. ReadDelay /\ wait[d] \in 0 .. ReadDelay
    BY PromptParts
  <2>3. ASSUME Prompt(e) PROVE age[e] <= LinkPeriod + WakeDelay + 2 * ReadDelay
    <3>1. \/ age[e] <= LinkPeriod + WakeDelay + ReadDelay + wait[e]
          \/ age[e] + due[d] <= LinkPeriod
          \/ age[e] <= LinkPeriod + WakeDelay + wait[d]
          \/ age[e] + due[e] <= LinkPeriod
      BY <2>3 DEF Prompt
    <3> QED
      BY <2>2, <3>1, StreamAssumption
  <2>4. ~Prompt(e)
    BY <2>1, <2>2, <2>3, StreamAssumption DEF Expired, Punctual
  <2> QED
    BY <2>2, <2>4 DEF Renewal
<1>2. PromptInv /\ [Next]_vars => PromptInv'
  BY NextPrompt
<1>3. Spec => []PromptInv
  BY InitPrompt, <1>2, PTL DEF Spec
<1> QED
  BY <1>1, <1>3, PTL DEF Spec, ExpiredForCause
=============================================================================

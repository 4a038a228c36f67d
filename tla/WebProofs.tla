------------------------------ MODULE WebProofs ------------------------------
(***************************************************************************)
(* The pages of the web app that live with late answers: the strip of the  *)
(* editor follows its jobs, the ranking builder forgets no edit, its       *)
(* flush() is a barrier and its refresh takes back nothing without a       *)
(* reason; and the pages side by side keep what each of them promises.     *)
(***************************************************************************)
EXTENDS MCWeb, AutosaveProofs

-----------------------------------------------------------------------------
(* JobStream.                                                              *)

LastInWire(j, i) ==
    i \in DOMAIN wire /\ wire[i][1] = j /\ \A k \in DOMAIN wire : k > i => wire[k][1] # j

\* Only a connection that is open has anything on the way, and it knows the
\* jobs of what it sent.
WireInv ==
    /\ conn # "open" => wire = << >> /\ looking = {} /\ known = {}
    /\ \A i \in DOMAIN wire : wire[i][1] \in known

\* As long as a job has no reason to lag behind, its only lookup is of its last
\* event, which finds the job unknown, and so is what was sent of it last.
WireInOrder(j) ==
    /\ \A m \in looking : m[1] = j => m[2] = last[j] /\ j \notin known
    /\ \A i \in DOMAIN wire : LastInWire(j, i) => wire[i][2] = last[j]

StripInv ==
    /\ StreamTypeOK
    /\ WireInv
    /\ \A m \in timers : Concluding(m[2])
    /\ \A j \in StreamJobs \ lagging : WireInOrder(j)
    /\ StripFollowsJob

Follows(j) ==
    \/ strip[j] = last[j]
    \/ strip[j] = NoNews /\ Concluding(last[j])
    \/ OnTheWay(j) \/ j \in lagging

LEMMA WayByPosition ==
    ASSUME NEW j
    PROVE  OnTheWay(j) <=> \/ \E m \in looking : m[1] = j
                           \/ \E i \in DOMAIN wire : wire[i][1] = j
  BY DEF OnTheWay, Range

\* Parts of StripInv, with the types they are used with.
LEMMA StripParts ==
    ASSUME StripInv
    PROVE  /\ StreamTypeOK /\ WireInv
           /\ DOMAIN wire = 1..Len(wire) /\ Len(wire) \in Nat
           /\ \A i \in DOMAIN wire : wire[i] \in StreamJobs \X Event
           /\ \A j \in StreamJobs : Follows(j) /\ (j \notin lagging => WireInOrder(j))
<1>1. wire \in Seq(StreamJobs \X Event)
  BY DEF StripInv, StreamTypeOK
<1>2. DOMAIN wire = 1..Len(wire) /\ Len(wire) \in Nat
  BY <1>1
<1>3. \A i \in DOMAIN wire : wire[i] \in StreamJobs \X Event
  BY <1>1
<1> QED
  BY <1>2, <1>3 DEF StripInv, StripFollowsJob, Follows

LEMMA EventRecords ==
    /\ NoNews.n = 0 /\ NoNews.status = "none" /\ ~ Concluding(NoNews)
    /\ NoNews \notin Event /\ Queued \notin Event /\ Queued # NoNews
    /\ \A j \in StreamJobs : StreamTypeOK => last[j].n \in 0..MaxPublished
  BY StreamAssumption DEF NoNews, Queued, Event, Concluding, StreamTypeOK

\* A message is appended to what was sent.
LEMMA Appended ==
    ASSUME StripInv, NEW m \in StreamJobs \X Event, wire' = Append(wire, m)
    PROVE  /\ wire' \in Seq(StreamJobs \X Event)
           /\ DOMAIN wire' = 1..Len(wire) + 1
           /\ wire'[Len(wire) + 1] = m
           /\ \A i \in DOMAIN wire : wire'[i] = wire[i]
<1>1. wire \in Seq(StreamJobs \X Event)
  BY DEF StripInv, StreamTypeOK
<1> QED
  BY <1>1

\* Once nothing of a job is on the way it is in order, whatever happened.
LEMMA SilenceIsOrder ==
    ASSUME NEW j, ~ OnTheWay(j)
    PROVE  WireInOrder(j)
  BY WayByPosition DEF WireInOrder, LastInWire

LEMMA StreamFrame ==
    ASSUME UNCHANGED <<last, known, looking, wire>>, NEW j
    PROVE  /\ OnTheWay(j)' = OnTheWay(j)
           /\ WireInOrder(j)' = WireInOrder(j)
  BY DEF OnTheWay, WireInOrder, LastInWire

LEMMA PublishKeepsStrip ==
    ASSUME StripInv, NEW j \in StreamJobs, NEW said \in Statuses, Publish(j, said)
    PROVE  StripInv'
<1> DEFINE e == [n |-> last[j].n + 1, status |-> said]
<1>p. /\ StreamTypeOK /\ WireInv
      /\ DOMAIN wire = 1..Len(wire) /\ Len(wire) \in Nat
      /\ \A i \in DOMAIN wire : wire[i] \in StreamJobs \X Event
      /\ \A q \in StreamJobs : Follows(q) /\ (q \notin lagging => WireInOrder(q))
  BY StripParts
<1>1. e \in Event
  BY <1>p, EventRecords, StreamAssumption DEF Publish, Event
<1>2. /\ last' = [last EXCEPT ![j] = e]
      /\ UNCHANGED <<conn, known, strip, timers>>
      /\ \/ conn = "open" /\ Forward(j, e) /\ UNCHANGED losses
         \/ /\ IF conn = "open" THEN Loses ELSE UNCHANGED losses
            /\ MayLag({j})
            /\ UNCHANGED <<looking, wire>>
  BY DEF Publish
<1> HIDE DEF e
<1>3. /\ last' \in [StreamJobs -> Event \union {NoNews}] /\ last'[j] = e
      /\ \A q \in StreamJobs \ {j} : last'[q] = last[q]
  BY <1>1, <1>2, <1>p DEF StreamTypeOK
<1>4. losses' \in 0..MaxLosses
  BY <1>2, <1>p, StreamAssumption DEF StreamTypeOK, Loses
<1>5. CASE conn = "open" /\ Forward(j, e) /\ j \in known
  <2>1. wire' = Append(wire, <<j, e>>) /\ UNCHANGED <<looking, lagging>>
    BY <1>5 DEF Forward
  <2>2. /\ wire' \in Seq(StreamJobs \X Event)
        /\ DOMAIN wire' = 1..Len(wire) + 1 /\ wire'[Len(wire) + 1] = <<j, e>>
        /\ \A i \in DOMAIN wire : wire'[i] = wire[i]
    BY <1>1, <2>1, Appended
  <2>3. StreamTypeOK' /\ WireInv' /\ \A m \in timers' : Concluding(m[2])
    <3>1. StreamTypeOK'
      BY <1>2, <1>3, <1>4, <1>p, <2>1, <2>2 DEF StreamTypeOK
    <3>2. WireInv'
      BY <1>2, <1>5, <1>p, <2>2 DEF WireInv
    <3> QED
      BY <1>2, <3>1, <3>2 DEF StripInv
  <2>4. WireInOrder(j)' \/ j \in lagging
    <3>1. j \notin lagging => \A m \in looking : m[1] # j
      BY <1>5, <1>p DEF WireInOrder
    <3>2. \A i \in DOMAIN wire' : LastInWire(j, i)' => wire'[i][2] = e
      BY <1>p, <2>2 DEF LastInWire
    <3> QED
      BY <1>2, <1>3, <2>1, <3>1, <3>2 DEF WireInOrder
  <2>5. \A q \in StreamJobs \ {j} : WireInOrder(q) => WireInOrder(q)'
    <3>1. ASSUME NEW q \in StreamJobs \ {j}, NEW i \in DOMAIN wire', LastInWire(q, i)'
          PROVE  i \in DOMAIN wire /\ wire'[i] = wire[i] /\ LastInWire(q, i)
      BY <1>p, <2>2, <3>1 DEF LastInWire
    <3> QED
      BY <1>2, <1>3, <2>1, <3>1 DEF WireInOrder
  <2>6. \A q \in StreamJobs : OnTheWay(q) \/ q = j => OnTheWay(q)'
    BY <1>p, <2>1, <2>2, WayByPosition DEF OnTheWay, Range
  <2> QED
    BY <1>2, <1>3, <1>p, <2>1, <2>3, <2>4, <2>5, <2>6 DEF StripInv, StripFollowsJob, Follows
<1>6. CASE conn = "open" /\ Forward(j, e) /\ j \notin known
  <2>1. /\ looking' = looking \union {<<j, e>>} /\ wire' = wire
        /\ lagging' = lagging \union (IF \E m \in looking : m[1] = j THEN {j} ELSE {})
    BY <1>6 DEF Forward, MayLag
  <2>2. StreamTypeOK' /\ WireInv' /\ \A m \in timers' : Concluding(m[2])
    BY <1>1, <1>2, <1>3, <1>4, <1>6, <1>p, <2>1 DEF StripInv, StreamTypeOK, WireInv
  <2>3. WireInOrder(j)' \/ j \in lagging'
    <3>1. CASE \E m \in looking : m[1] = j
      BY <2>1, <3>1
    <3>2. CASE ~ \E m \in looking : m[1] = j
      BY <1>2, <1>3, <1>6, <1>p, <2>1, <3>2 DEF WireInOrder, LastInWire, WireInv
    <3> QED
      BY <3>1, <3>2
  <2>4. \A q \in StreamJobs \ {j} : WireInOrder(q) => WireInOrder(q)'
    BY <1>2, <1>3, <2>1 DEF WireInOrder, LastInWire
  <2>5. \A q \in StreamJobs : OnTheWay(q) \/ q = j => OnTheWay(q)'
    <3>1. \A q : (\E m \in looking \union Range(wire) : m[1] = q) \/ q = j
               => \E m \in looking' \union Range(wire) : m[1] = q
      <4>1. <<j, e>> \in looking' \union Range(wire) /\ <<j, e>>[1] = j
        BY <2>1
      <4> QED
        BY <2>1, <4>1
    <3> QED
      BY <2>1, <3>1 DEF OnTheWay
  <2> QED
    BY <1>2, <1>3, <1>p, <2>1, <2>2, <2>3, <2>4, <2>5 DEF StripInv, StripFollowsJob, Follows
<1>7. CASE MayLag({j}) /\ UNCHANGED <<looking, wire>>
  <2>1. StreamTypeOK' /\ WireInv' /\ \A m \in timers' : Concluding(m[2])
    BY <1>2, <1>3, <1>4, <1>7, <1>p DEF StripInv, StreamTypeOK, WireInv, MayLag
  <2>2. \A q \in StreamJobs \ {j} : (WireInOrder(q) => WireInOrder(q)') /\ (OnTheWay(q) => OnTheWay(q)')
    BY <1>2, <1>3, <1>7 DEF WireInOrder, LastInWire, OnTheWay
  <2> QED
    BY <1>2, <1>3, <1>7, <1>p, <2>1, <2>2 DEF StripInv, StripFollowsJob, Follows, MayLag
<1> QED
  BY <1>2, <1>5, <1>6, <1>7

LEMMA LookedUpKeepsStrip ==
    ASSUME StripInv, NEW j, NEW e, LookedUp(j, e)
    PROVE  StripInv'
<1>p. /\ StreamTypeOK /\ WireInv
      /\ DOMAIN wire = 1..Len(wire) /\ Len(wire) \in Nat
      /\ \A i \in DOMAIN wire : wire[i] \in StreamJobs \X Event
      /\ \A q \in StreamJobs : Follows(q) /\ (q \notin lagging => WireInOrder(q))
  BY StripParts
<1>1. /\ <<j, e>> \in looking
      /\ looking' = looking \ {<<j, e>>} /\ known' = known \union {j}
      /\ wire' = Append(wire, <<j, e>>)
      /\ UNCHANGED <<last, conn, strip, timers, losses, lagging>>
  BY DEF LookedUp
<1>2. <<j, e>> \in StreamJobs \X Event /\ j \in StreamJobs
  BY <1>1, <1>p DEF StreamTypeOK
<1>3. /\ wire' \in Seq(StreamJobs \X Event)
      /\ DOMAIN wire' = 1..Len(wire) + 1 /\ wire'[Len(wire) + 1] = <<j, e>>
      /\ \A i \in DOMAIN wire : wire'[i] = wire[i]
  BY <1>1, <1>2, Appended
<1>4. StreamTypeOK'
  BY <1>1, <1>2, <1>3, <1>p DEF StreamTypeOK
<1>5. WireInv' /\ \A m \in timers' : Concluding(m[2])
  BY <1>1, <1>3, <1>p DEF StripInv, WireInv
<1>6. WireInOrder(j)' \/ j \in lagging
  <2>1. SUFFICES ASSUME j \notin lagging PROVE WireInOrder(j)'
    OBVIOUS
  <2>2. WireInOrder(j)
    BY <1>2, <1>p, <2>1
  <2>3. e = last[j] /\ \A m \in looking' : m[1] # j
    <3>1. e = last[j]
      BY <1>1, <2>2 DEF WireInOrder
    <3>2. \A m \in looking : m[1] = j => m = <<j, e>>
      BY <1>p, <2>2, <3>1 DEF WireInOrder, StreamTypeOK
    <3> QED
      BY <1>1, <3>1, <3>2
  <2>4. \A i \in DOMAIN wire' : LastInWire(j, i)' => wire'[i][2] = e
    BY <1>p, <1>3 DEF LastInWire
  <2> QED
    BY <1>1, <2>3, <2>4 DEF WireInOrder
<1>7. \A q \in StreamJobs \ {j} : WireInOrder(q) => WireInOrder(q)'
  <2>1. ASSUME NEW q \in StreamJobs \ {j}, NEW i \in DOMAIN wire', LastInWire(q, i)'
        PROVE  i \in DOMAIN wire /\ wire'[i] = wire[i] /\ LastInWire(q, i)
    BY <1>p, <1>3, <2>1 DEF LastInWire
  <2> QED
    BY <1>1, <2>1 DEF WireInOrder
<1>8. \A q \in StreamJobs : OnTheWay(q) => OnTheWay(q)'
  <2>1. OnTheWay(j)'
    BY <1>3, <1>p DEF OnTheWay, Range
  <2>2. \A q \in StreamJobs \ {j} : OnTheWay(q) => OnTheWay(q)'
    <3>1. Range(wire) \subseteq Range(wire')
      BY <1>3, <1>p DEF Range
    <3> QED
      BY <1>1, <3>1 DEF OnTheWay
  <2> QED
    BY <2>1, <2>2
<1> QED
  BY <1>1, <1>4, <1>5, <1>6, <1>7, <1>8, <1>p DEF StripInv, StripFollowsJob, Follows

\* The first message is taken from what was sent; the others move up by one.
LEMMA ReceiveKeepsStrip ==
    ASSUME StripInv, NEW j, NEW e, Receive(j, e)
    PROVE  StripInv'
<1>p. /\ StreamTypeOK /\ WireInv
      /\ DOMAIN wire = 1..Len(wire) /\ Len(wire) \in Nat
      /\ \A i \in DOMAIN wire : wire[i] \in StreamJobs \X Event
      /\ \A q \in StreamJobs : Follows(q) /\ (q \notin lagging => WireInOrder(q))
  BY StripParts
<1>1. /\ conn = "open" /\ wire # << >> /\ Head(wire) = <<j, e>>
      /\ wire' = Tail(wire) /\ Shows(j, e) /\ timers' = Starts(j, e)
      /\ UNCHANGED <<last, conn, known, looking, losses>>
  BY DEF Receive
<1>2. /\ wire' \in Seq(StreamJobs \X Event)
      /\ 1 \in DOMAIN wire /\ wire[1] = <<j, e>>
      /\ DOMAIN wire' = 1..Len(wire) - 1
      /\ \A i \in DOMAIN wire' : i + 1 \in DOMAIN wire /\ wire'[i] = wire[i + 1]
      /\ \A i \in DOMAIN wire : i # 1 => i - 1 \in DOMAIN wire' /\ wire'[i - 1] = wire[i]
  <2>1. wire \in Seq(StreamJobs \X Event)
    BY <1>p DEF StreamTypeOK
  <2>2. Tail(wire) \in Seq(StreamJobs \X Event) /\ Len(Tail(wire)) = Len(wire) - 1
        /\ Len(wire) >= 1 /\ Head(wire) = wire[1]
        /\ \A i \in 1..Len(wire) - 1 : Tail(wire)[i] = wire[i + 1]
    BY <1>1, <2>1
  <2>3. DOMAIN Tail(wire) = 1..Len(wire) - 1
    BY <2>2
  <2> QED
    BY <1>1, <1>p, <2>2, <2>3
<1>3. j \in StreamJobs /\ e \in Event
  BY <1>2, <1>p
<1>4. strip' = [strip EXCEPT ![j] = e] /\ (lagging' = lagging \/ lagging' = lagging \ {j})
  BY <1>1 DEF Shows
<1>5. StreamTypeOK'
  BY <1>1, <1>2, <1>3, <1>4, <1>p DEF StreamTypeOK, Starts, TimerOf
<1>6. WireInv' /\ \A m \in timers' : Concluding(m[2])
  <2>1. WireInv'
    BY <1>1, <1>2, <1>p DEF WireInv
  <2>2. \A m \in timers : Concluding(m[2])
    BY DEF StripInv
  <2> QED
    BY <1>1, <2>1, <2>2 DEF Starts, TimerOf
<1>7. \A q \in StreamJobs : WireInOrder(q) => WireInOrder(q)'
  <2>1. ASSUME NEW q \in StreamJobs, NEW i \in DOMAIN wire', LastInWire(q, i)'
        PROVE  i + 1 \in DOMAIN wire /\ wire'[i] = wire[i + 1] /\ LastInWire(q, i + 1)
    <3>1. i \in Nat /\ i + 1 \in DOMAIN wire /\ wire'[i] = wire[i + 1] /\ wire[i + 1][1] = q
      BY <1>2, <1>p, <2>1 DEF LastInWire
    <3>2. ASSUME NEW k \in DOMAIN wire, k > i + 1 PROVE wire[k][1] # q
      <4>1. k # 1 /\ k - 1 \in DOMAIN wire' /\ wire'[k - 1] = wire[k] /\ k - 1 > i
        BY <1>2, <1>p, <3>1, <3>2
      <4> QED
        BY <2>1, <4>1 DEF LastInWire
    <3> QED
      BY <3>1, <3>2 DEF LastInWire
  <2> QED
    BY <1>1, <2>1 DEF WireInOrder
<1>8. \A q \in StreamJobs \ {j} : OnTheWay(q) => OnTheWay(q)'
  <2>1. ASSUME NEW q \in StreamJobs \ {j}, NEW i \in DOMAIN wire, wire[i][1] = q
        PROVE  \E m \in Range(wire') : m[1] = q
    BY <1>2, <2>1 DEF Range
  <2> QED
    BY <1>1, <2>1 DEF OnTheWay, Range
\* An older event is followed by the last one, or the job has a reason to lag.
<1>9. Follows(j)'
  <2>1. CASE e = last[j]
    BY <1>1, <1>3, <1>4, <1>p, <2>1 DEF Follows, StreamTypeOK
  <2>2. CASE e # last[j] /\ j \in lagging
    <3>1. lagging' = lagging
      BY <1>1, <2>2 DEF Shows
    <3> QED
      BY <2>2, <3>1 DEF Follows
  <2>3. CASE e # last[j] /\ j \notin lagging
    <3>1. ~ LastInWire(j, 1)
      BY <1>2, <1>3, <1>p, <2>3 DEF WireInOrder
    <3>2. PICK k \in DOMAIN wire : k > 1 /\ wire[k][1] = j
      BY <1>2, <3>1 DEF LastInWire
    <3>3. OnTheWay(j)'
      BY <1>2, <1>p, <3>2 DEF OnTheWay, Range
    <3> QED
      BY <3>3 DEF Follows
  <2> QED
    BY <2>1, <2>2, <2>3
<1>10. ASSUME j \in lagging, j \notin lagging' PROVE WireInOrder(j)'
  <2>1. ~ \E m \in looking \union Range(Tail(wire)) : m[1] = j
    BY <1>1, <1>10 DEF Shows
  <2>2. ~ OnTheWay(j)'
    BY <1>1, <2>1 DEF OnTheWay
  <2>3. (\A m \in looking' : m[1] # j) /\ (\A i \in DOMAIN wire' : wire'[i][1] # j)
    BY <2>2 DEF OnTheWay, Range
  <2> QED
    BY <2>3 DEF WireInOrder, LastInWire
<1>11. \A q \in StreamJobs \ {j} : Follows(q)'
  BY <1>1, <1>4, <1>8, <1>p DEF Follows, StreamTypeOK
<1> QED
  BY <1>4, <1>5, <1>6, <1>7, <1>9, <1>10, <1>11, <1>p DEF StripInv, StripFollowsJob, Follows

\* Whatever was on its way gave its jobs a reason to lag behind.
LEMMA DroppingKeepsStrip ==
    ASSUME StripInv, Dropped, conn' \in {"open", "broken", "left"}, losses' \in 0..MaxLosses,
           timers' \subseteq timers, UNCHANGED <<last, strip>>
    PROVE  StripInv'
<1>p. StreamTypeOK /\ \A q \in StreamJobs : Follows(q)
  BY StripParts
<1>1. /\ looking' = {} /\ wire' = << >> /\ known' = {}
      /\ lagging' = lagging \union {j \in StreamJobs : OnTheWay(j)}
  BY DEF Dropped, MayLag
<1>2. DOMAIN wire' = {} /\ wire' \in Seq(StreamJobs \X Event)
  BY <1>1
<1>3. StreamTypeOK'
  BY <1>1, <1>2, <1>p DEF StreamTypeOK
<1>4. WireInv' /\ (\A m \in timers' : Concluding(m[2])) /\ \A j \in StreamJobs : WireInOrder(j)'
  BY <1>1, <1>2 DEF WireInv, WireInOrder, LastInWire, StripInv
<1>5. \A j \in StreamJobs : Follows(j)'
  BY <1>1, <1>p DEF Follows
<1> QED
  BY <1>3, <1>4, <1>5 DEF StripInv, StripFollowsJob, Follows

\* Nothing that is sent or looked up changes.
LEMMA ShowingKeepsStrip ==
    ASSUME StripInv, StreamTypeOK', UNCHANGED <<last, looking, wire>>,
           conn' = "open" \/ (wire = << >> /\ looking = {} /\ known' = {}),
           known' = known \/ (wire = << >> /\ looking = {}),
           \A m \in timers' : Concluding(m[2]),
           \A j \in StreamJobs \ lagging' : j \notin lagging /\ Follows(j)'
    PROVE  StripInv'
<1>p. WireInv /\ \A q \in StreamJobs : q \notin lagging => WireInOrder(q)
  BY StripParts
<1>1. WireInv'
  BY <1>p DEF WireInv
<1>2. \A j \in StreamJobs \ lagging' : WireInOrder(j)'
  BY <1>p DEF WireInOrder, LastInWire
<1> QED
  BY <1>1, <1>2 DEF StripInv, StripFollowsJob, Follows

LEMMA StepsKeepStrip == StripInv /\ [StreamNext]_streamVars => StripInv'
<1> SUFFICES ASSUME StripInv, [StreamNext]_streamVars PROVE StripInv'
  OBVIOUS
<1>p. /\ StreamTypeOK /\ WireInv /\ \A m \in timers : Concluding(m[2])
      /\ \A q \in StreamJobs : Follows(q)
  BY StripParts DEF StripInv
<1>f. ASSUME UNCHANGED <<looking, wire>> PROVE \A q : OnTheWay(q) => OnTheWay(q)'
  BY <1>f DEF OnTheWay
<1>l. ASSUME Loses PROVE losses' \in 0..MaxLosses
  BY <1>l, <1>p, StreamAssumption DEF StreamTypeOK, Loses
<1>1. ASSUME NEW j \in StreamJobs, Requested(j) PROVE StripInv'
  <2>1. /\ strip' = [strip EXCEPT ![j] = Queued] /\ lagging' = lagging \union {j} /\ Loses
        /\ UNCHANGED <<last, conn, known, looking, wire, timers>>
    BY <1>1 DEF Requested, MayLag
  <2>2. StreamTypeOK'
    BY <1>1, <1>l, <1>p, <2>1 DEF StreamTypeOK
  <2>3. \A q \in StreamJobs \ lagging' : q \notin lagging /\ Follows(q)'
    BY <1>f, <1>p, <2>1 DEF Follows, StreamTypeOK
  <2>4. conn' = "open" \/ (wire = << >> /\ looking = {} /\ known' = {})
    BY <1>p, <2>1 DEF WireInv
  <2> QED
    BY <1>p, <2>1, <2>2, <2>3, <2>4, ShowingKeepsStrip
<1>2. ASSUME NEW m \in timers, TimerFires(m[1], m[2]) PROVE StripInv'
  <2> DEFINE j == m[1]
             e == m[2]
  <2>1. /\ strip' = [strip EXCEPT ![j] = NoNews] /\ timers' \subseteq timers
        /\ lagging' = lagging \union (IF strip[j] = e THEN {} ELSE {j})
        /\ UNCHANGED <<last, conn, known, looking, wire, losses>>
    BY <1>2 DEF TimerFires, MayLag
  <2>2. j \in StreamJobs /\ e \in Event /\ Concluding(e)
    BY <1>p DEF StreamTypeOK
  <2> HIDE DEF j, e
  <2>3. StreamTypeOK'
    BY <1>p, <2>1, <2>2 DEF StreamTypeOK
  <2>4. Follows(j)'
    <3>1. CASE strip[j] # e
      BY <2>1, <3>1 DEF Follows
    <3>2. CASE strip[j] = e
      <4>1. e # NoNews
        BY <2>2, EventRecords
      <4>2. strip'[j] = NoNews
        BY <1>p, <2>1, <2>2 DEF StreamTypeOK
      <4> QED
        BY <1>f, <1>p, <2>1, <2>2, <3>2, <4>1, <4>2 DEF Follows
    <3> QED
      BY <3>1, <3>2
  <2>5. \A q \in StreamJobs \ {j} : Follows(q)'
    BY <1>f, <1>p, <2>1 DEF Follows, StreamTypeOK
  <2>6. conn' = "open" \/ (wire = << >> /\ looking = {} /\ known' = {})
    BY <1>p, <2>1 DEF WireInv
  <2>7. \A q \in StreamJobs \ lagging' : q \notin lagging /\ Follows(q)'
    BY <2>1, <2>4, <2>5
  <2> QED
    BY <1>p, <2>1, <2>3, <2>6, <2>7, ShowingKeepsStrip
<1>3. CASE Connect
  <2>1. /\ conn = "broken" /\ conn' = "open" /\ known' \subseteq StreamJobs
        /\ UNCHANGED <<last, looking, wire, strip, timers, losses, lagging>>
    BY <1>3 DEF Connect
  <2>2. wire = << >> /\ looking = {}
    BY <1>p, <2>1 DEF WireInv
  <2>3. StreamTypeOK'
    BY <1>p, <2>1 DEF StreamTypeOK
  <2>4. \A q \in StreamJobs \ lagging' : q \notin lagging /\ Follows(q)'
    BY <1>f, <1>p, <2>1 DEF Follows
  <2> QED
    BY <1>p, <2>1, <2>2, <2>3, <2>4, ShowingKeepsStrip
<1>4. CASE Disconnect
  BY <1>4, <1>l, DroppingKeepsStrip DEF Disconnect
<1>5. CASE LeavePage
  BY <1>5, <1>l, DroppingKeepsStrip DEF LeavePage
<1>6. CASE OpenPage
  <2>1. /\ conn = "left" /\ conn' = "broken"
        /\ UNCHANGED <<last, known, looking, wire, strip, timers, losses, lagging>>
    BY <1>6 DEF OpenPage
  <2>2. StreamTypeOK' /\ wire = << >> /\ looking = {} /\ known' = {}
    BY <1>p, <2>1 DEF StreamTypeOK, WireInv
  <2>3. \A q \in StreamJobs \ lagging' : q \notin lagging /\ Follows(q)'
    BY <1>f, <1>p, <2>1 DEF Follows
  <2> QED
    BY <1>p, <2>1, <2>2, <2>3, ShowingKeepsStrip
<1>7. CASE UNCHANGED streamVars
  <2>1. UNCHANGED <<last, conn, known, looking, wire, strip, timers, losses, lagging>>
    BY <1>7 DEF streamVars
  <2>2. StreamTypeOK' /\ (\A m \in timers' : Concluding(m[2]))
    BY <1>p, <2>1 DEF StreamTypeOK
  <2>3. \A q \in StreamJobs \ lagging' : q \notin lagging /\ Follows(q)'
    BY <1>f, <1>p, <2>1 DEF Follows
  <2>4. conn' = "open" \/ (wire = << >> /\ looking = {} /\ known' = {})
    BY <1>p, <2>1 DEF WireInv
  <2> QED
    BY <2>1, <2>2, <2>3, <2>4, ShowingKeepsStrip
<1> QED
  BY <1>1, <1>2, <1>3, <1>4, <1>5, <1>6, <1>7, PublishKeepsStrip, LookedUpKeepsStrip,
     ReceiveKeepsStrip DEF StreamNext

LEMMA InitStrip == StreamInit => StripInv
<1> SUFFICES ASSUME StreamInit PROVE StripInv
  OBVIOUS
<1>1. wire = << >> /\ DOMAIN wire = {} /\ wire \in Seq(StreamJobs \X Event)
  BY DEF StreamInit
<1>2. StreamTypeOK
  BY <1>1, StreamAssumption DEF StreamInit, StreamTypeOK
<1> QED
  BY <1>1, <1>2 DEF StreamInit, StripInv, WireInv, WireInOrder, StripFollowsJob

\* The events, lookups and timers of the stream are of the project's jobs.
THEOREM StreamTypeCorrect == StreamSpec => []StreamTypeOK
<1>1. StripInv => StreamTypeOK
  BY DEF StripInv
<1> QED
  BY <1>1, InitStrip, StepsKeepStrip, PTL DEF StreamSpec

\* The strip shows the last thing a job's worker said, or nothing once that was
\* an outcome, unless an event is on its way or the job has one of the four
\* reasons to lag behind (job-stream.ts, ws.routes.ts).
THEOREM StripIsTrue == StreamSpec => []StripFollowsJob
<1>1. StripInv => StripFollowsJob
  BY DEF StripInv
<1> QED
  BY <1>1, InitStrip, StepsKeepStrip, PTL DEF StreamSpec

-----------------------------------------------------------------------------
(* RankingBuilder.                                                         *)

\* Edits are numbered, so nothing has a greater value than the last one's number.
EditsNumbered ==
    /\ \A c \in Cells : /\ server[c] <= changes /\ ui[c] <= changes /\ pending[c] <= changes
                        /\ chain.snap.val[c] <= changes
    /\ \A o \in ops : o.val <= changes /\ o.order <= changes
    /\ barrier <= changes

Saves(c) == {o \in ops : o.kind = "save" /\ o.cell = c}

\* What the page shows of a cell is stored, pending or being sent.
Remembered(c) ==
    \/ server[c] = ui[c]
    \/ pending[c] # Unsent /\ pending[c] = ui[c]
    \/ \E o \in Saves(c) : o.at = "sent" /\ o.val = ui[c]

\* Nothing about a cell is newer than what the page shows.
Latest(c) ==
    /\ server[c] <= ui[c] /\ pending[c] <= ui[c]
    /\ \A o \in Saves(c) : o.val <= ui[c]
    /\ chain.pc = "set" => chain.snap.val[c] <= ui[c]

\* flush() sent all there was, and an open page tracks all it sends.
FlushSent ==
    /\ pending["order"] = Unsent
    /\ pageOpen => \A o \in ops : o.tracked
    /\ pageOpen /\ flush # "idle" => \A c \in Cells : pending[c] = Unsent \/ pending[c] > barrier

\* What is not a save is about a candidate.
OfCandidates == \A o \in ops : o.kind # "save" => o.cell \in Cands

BuilderInv ==
    /\ BuilderTypeOK /\ OfCandidates
    /\ EditsNumbered
    /\ \A c \in Cells \ excused : Remembered(c) /\ Latest(c)
    /\ FlushSent

LEMMA BuilderParts ==
    ASSUME BuilderInv
    PROVE  /\ BuilderTypeOK /\ OfCandidates /\ EditsNumbered /\ FlushSent
           /\ \A c \in Cells \ excused : Remembered(c) /\ Latest(c)
           /\ "meta" \in Cells /\ "order" \in Cells /\ Cands \subseteq Cells
           /\ changes \in Nat /\ barrier \in Nat /\ changes <= MaxChanges /\ MaxChanges \in Nat
           /\ \A c \in Cells : /\ ui[c] \in Nat /\ server[c] \in Nat /\ pending[c] \in Nat
                               /\ chain.snap.val[c] \in Nat
           /\ \A o \in ops : /\ o \in Op /\ o.cell \in Cells /\ o.val \in Nat /\ o.order \in Nat
                             /\ o.val \in Values /\ o.order \in Values
           /\ chain \in Chain /\ chain.snap.val \in [Cells -> Values]
           /\ \A v \in Nat : v <= changes => v \in Values
<1>1. BuilderTypeOK /\ OfCandidates /\ EditsNumbered /\ FlushSent /\ \A c \in Cells \ excused : Remembered(c) /\ Latest(c)
  BY DEF BuilderInv
<1>2. "meta" \in Cells /\ "order" \in Cells /\ Cands \subseteq Cells
  BY DEF Cells
<1>3. MaxChanges \in Nat /\ Values = 0..MaxChanges
  BY EditsAssumption DEF Values
<1>4. changes \in Nat /\ barrier \in Nat /\ changes <= MaxChanges
  BY <1>1, <1>3 DEF BuilderTypeOK
<1>5. chain \in Chain /\ chain.snap \in Snapshot /\ chain.snap.val \in [Cells -> Values]
  BY <1>1 DEF BuilderTypeOK, Chain, Snapshot
<1>6. \A c \in Cells : /\ ui[c] \in Nat /\ server[c] \in Nat /\ pending[c] \in Nat
                       /\ chain.snap.val[c] \in Nat
  BY <1>1, <1>3, <1>5 DEF BuilderTypeOK
<1>7. \A o \in ops : o \in Op /\ o.cell \in Cells /\ o.val \in Values /\ o.order \in Values
  BY <1>1 DEF BuilderTypeOK, Op
<1> QED
  BY <1>1, <1>2, <1>3, <1>4, <1>5, <1>6, <1>7

LEMMA SentRecords ==
    ASSUME NEW kind \in {"save", "add", "remove", "attach"}, NEW c \in Cells, NEW v \in Values,
           NEW tracked \in BOOLEAN
    PROVE  /\ Sent(kind, c, v, tracked) \in Op
           /\ Sent(kind, c, v, tracked).kind = kind /\ Sent(kind, c, v, tracked).cell = c
           /\ Sent(kind, c, v, tracked).val = v /\ Sent(kind, c, v, tracked).tracked = tracked
           /\ Sent(kind, c, v, tracked).at = "sent" /\ Sent(kind, c, v, tracked).order = 0
  BY EditsAssumption DEF Sent, Op, Values

\* What no action of the page changes but an edit, a refresh or an answer.
LEMMA NothingMoves ==
    ASSUME BuilderInv, BuilderTypeOK', FlushSent', barrier' <= changes',
           changes <= changes', changes' \in Nat,
           UNCHANGED <<ui, server, pending, excused, failed>>,
           \A o \in ops' : \/ o \in ops
                           \/ /\ o.kind # "save" /\ o.cell \in Cands
                              /\ o.val <= changes' /\ o.order <= changes',
           \A o \in ops : o.kind = "save" /\ o.at = "sent" => o \in ops',
           \A c \in Cells : chain'.snap.val[c] \in {0, chain.snap.val[c], server[c]},
           chain'.pc = "set" => \A c \in Cells : chain'.snap.val[c] = server[c] \/ chain' = chain
    PROVE  BuilderInv'
<1>p. /\ OfCandidates /\ EditsNumbered /\ \A c \in Cells \ excused : Remembered(c) /\ Latest(c)
      /\ changes \in Nat
      /\ \A c \in Cells : /\ ui[c] \in Nat /\ server[c] \in Nat /\ pending[c] \in Nat
                          /\ chain.snap.val[c] \in Nat
      /\ \A o \in ops : o.val \in Nat /\ o.order \in Nat
  BY BuilderParts
<1>1. EditsNumbered'
  <2>1. \A c \in Cells : /\ server'[c] <= changes' /\ ui'[c] <= changes' /\ pending'[c] <= changes'
                         /\ chain'.snap.val[c] <= changes'
    BY <1>p DEF EditsNumbered
  <2>2. \A o \in ops' : o.val <= changes' /\ o.order <= changes'
    BY <1>p DEF EditsNumbered
  <2> QED
    BY <2>1, <2>2 DEF EditsNumbered
<1>2. ASSUME NEW c \in Cells \ excused PROVE Remembered(c)' /\ Latest(c)'
  <2>1. Remembered(c)'
    BY <1>p DEF Remembered, Saves
  <2>2. Latest(c)'
    BY <1>p DEF Latest, Saves
  <2> QED
    BY <2>1, <2>2
<1>3. OfCandidates'
  BY <1>p DEF OfCandidates
<1> QED
  BY <1>1, <1>2, <1>3 DEF BuilderInv

\* An edit takes the next number; its patch is pending or sent.
LEMMA EditsKeepBuilder ==
    ASSUME BuilderInv, NEW c \in Cells, Edited(c),
           \/ c # "order" /\ pending' = [pending EXCEPT ![c] = changes + 1] /\ ops' = ops
           \/ pending' = pending /\ ops' = ops \union {Sent("save", c, changes + 1, TRUE)}
    PROVE  BuilderInv'
<1>p. /\ BuilderTypeOK /\ OfCandidates /\ EditsNumbered /\ FlushSent
      /\ \A q \in Cells \ excused : Remembered(q) /\ Latest(q)
      /\ changes \in Nat /\ barrier \in Nat /\ changes <= MaxChanges /\ MaxChanges \in Nat
      /\ \A q \in Cells : /\ ui[q] \in Nat /\ server[q] \in Nat /\ pending[q] \in Nat
                          /\ chain.snap.val[q] \in Nat
      /\ \A o \in ops : o \in Op /\ o.val \in Nat /\ o.order \in Nat
  BY BuilderParts
<1>1. /\ pageOpen /\ changes < MaxChanges /\ changes' = changes + 1
      /\ ui' = [ui EXCEPT ![c] = changes + 1] /\ excused' = excused \ {c} /\ failed' = failed \ {c}
      /\ UNCHANGED <<uiHas, server, serverHas, flush, flushOp, barrier, chain, working, pageOpen>>
  BY DEF Edited
<1>2. changes + 1 \in Values
  BY <1>1, <1>p DEF Values
<1> DEFINE o == Sent("save", c, changes + 1, TRUE)
<1>3. /\ o \in Op /\ o.kind = "save" /\ o.cell = c /\ o.val = changes + 1
      /\ o.tracked /\ o.at = "sent" /\ o.order = 0
  <2>1. o \in Op /\ o.kind = "save" /\ o.cell = c /\ o.val = changes + 1
    <3>1. 0 \in Values
      BY <1>p DEF Values
    <3> QED
      BY <1>2, <3>1 DEF Sent, Op
  <2>2. o.tracked /\ o.at = "sent" /\ o.order = 0
    BY DEF Sent
  <2> QED
    BY <2>1, <2>2
<1>4. /\ ops \subseteq ops' /\ \A x \in ops' : x \in ops \/ x = o
      /\ \A q \in Cells \ {c} : pending'[q] = pending[q]
      /\ \/ pending'[c] = changes + 1 /\ c # "order"
         \/ pending'[c] = pending[c] /\ o \in ops'
      /\ pending' \in [Cells -> Values]
  BY <1>2, <1>p DEF BuilderTypeOK
<1> HIDE DEF o
<1>5. ui'[c] = changes + 1 /\ \A q \in Cells \ {c} : ui'[q] = ui[q]
  BY <1>1, <1>p DEF BuilderTypeOK
<1>6. BuilderTypeOK'
  BY <1>1, <1>2, <1>3, <1>4, <1>p DEF BuilderTypeOK
<1>7. EditsNumbered'
  <2>1. \A q \in Cells : server'[q] <= changes' /\ chain'.snap.val[q] <= changes'
    BY <1>1, <1>p DEF EditsNumbered
  <2>2. \A q \in Cells : ui'[q] <= changes' /\ pending'[q] <= changes'
    BY <1>1, <1>4, <1>5, <1>p DEF EditsNumbered
  <2>3. \A x \in ops' : x.val <= changes' /\ x.order <= changes'
    BY <1>1, <1>3, <1>4, <1>p DEF EditsNumbered
  <2> QED
    BY <1>1, <1>p, <2>1, <2>2, <2>3 DEF EditsNumbered
<1>8. FlushSent'
  <2>1. pending'["order"] = Unsent
    BY <1>4, <1>p DEF FlushSent, Cells
  <2>2. \A x \in ops' : x.tracked
    BY <1>1, <1>3, <1>4, <1>p DEF FlushSent
  <2>3. flush # "idle" => \A q \in Cells : pending'[q] = Unsent \/ pending'[q] > barrier
    BY <1>1, <1>4, <1>p DEF FlushSent, EditsNumbered
  <2> QED
    BY <1>1, <2>1, <2>2, <2>3 DEF FlushSent
<1>9. Remembered(c)'
  BY <1>1, <1>3, <1>4, <1>5, <1>p DEF Remembered, Saves, Unsent
<1>10. Latest(c)'
  <2>1. server'[c] <= ui'[c] /\ chain'.snap.val[c] <= ui'[c] /\ pending'[c] <= ui'[c]
    BY <1>1, <1>4, <1>5, <1>p DEF EditsNumbered
  <2>2. \A x \in ops' : x.val <= ui'[c]
    BY <1>3, <1>4, <1>5, <1>p DEF EditsNumbered
  <2> QED
    BY <2>1, <2>2 DEF Latest, Saves
<1>11. ASSUME NEW q \in Cells \ excused, q # c PROVE Remembered(q)' /\ Latest(q)'
  <2>1. Remembered(q)'
    BY <1>1, <1>4, <1>5, <1>11, <1>p DEF Remembered, Saves
  <2>2. Latest(q)'
    BY <1>1, <1>3, <1>4, <1>5, <1>11, <1>p DEF Latest, Saves
  <2> QED
    BY <2>1, <2>2
<1>12. OfCandidates'
  BY <1>3, <1>4, <1>p DEF OfCandidates
<1> QED
  BY <1>1, <1>6, <1>7, <1>8, <1>9, <1>10, <1>11, <1>12 DEF BuilderInv

\* Pending patches are sent: all of T that are pending, and they are no longer.
LEMMA SendingKeepsBuilder ==
    ASSUME BuilderInv, BuilderTypeOK', barrier' <= changes, FlushSent',
           NEW S \in SUBSET Cells, NEW T \in SUBSET Cells, NEW tracked \in BOOLEAN,
           \A c \in T : pending[c] # Unsent => c \in S,
           ops' = ops \union SavesOf(S, tracked), pending' = Cleared(T),
           UNCHANGED <<ui, server, chain, changes, excused, failed>>
    PROVE  BuilderInv'
<1>p. /\ BuilderTypeOK /\ OfCandidates /\ EditsNumbered
      /\ \A c \in Cells \ excused : Remembered(c) /\ Latest(c)
      /\ changes \in Nat
      /\ \A c \in Cells : ui[c] \in Nat /\ pending[c] \in Nat /\ pending[c] \in Values
      /\ \A o \in ops : o.val \in Nat
  BY BuilderParts DEF BuilderTypeOK
<1>1. \A c \in Cells : pending'[c] = IF c \in T THEN Unsent ELSE pending[c]
  BY DEF Cleared
<1>2. \A c \in S : LET o == Sent("save", c, pending[c], tracked)
                   IN o \in ops' /\ o.kind = "save" /\ o.cell = c /\ o.val = pending[c]
                      /\ o.at = "sent" /\ o.order = 0
  BY <1>p, SentRecords DEF SavesOf
<1>3. \A o \in ops' : o \in ops \/ \E c \in S : o.kind = "save" /\ o.cell = c /\ o.val = pending[c]
                                               /\ o.order = 0
  BY <1>p, SentRecords DEF SavesOf
<1>4. EditsNumbered'
  <2>1. \A o \in ops' : o.val <= changes' /\ o.order <= changes'
    BY <1>3, <1>p DEF EditsNumbered
  <2> QED
    BY <1>1, <1>p, <2>1 DEF EditsNumbered, Unsent
<1>5. ASSUME NEW c \in Cells \ excused PROVE Remembered(c)' /\ Latest(c)'
  <2>1. Remembered(c)'
    <3>1. CASE server[c] = ui[c]
      BY <3>1 DEF Remembered
    <3>2. CASE pending[c] # Unsent /\ pending[c] = ui[c] /\ c \in T
      BY <1>2, <3>2 DEF Remembered, Saves
    <3>3. CASE pending[c] # Unsent /\ pending[c] = ui[c] /\ c \notin T
      BY <1>1, <3>3 DEF Remembered
    <3>4. CASE \E o \in Saves(c) : o.at = "sent" /\ o.val = ui[c]
      BY <3>4 DEF Remembered, Saves
    <3> QED
      BY <1>p, <3>1, <3>2, <3>3, <3>4 DEF Remembered
  <2>2. Latest(c)'
    <3>1. Latest(c)
      BY <1>p
    <3>2. pending'[c] <= ui[c]
      BY <1>1, <1>p, <3>1 DEF Latest, Unsent
    <3>3. \A o \in Saves(c)' : o.val <= ui[c]
      BY <1>3, <1>p, <3>1 DEF Latest, Saves
    <3> QED
      BY <3>1, <3>2, <3>3 DEF Latest
  <2> QED
    BY <2>1, <2>2
<1>6. OfCandidates'
  BY <1>3, <1>p DEF OfCandidates
<1> QED
  BY <1>4, <1>5, <1>6 DEF BuilderInv

LEMMA EditActions ==
    ASSUME BuilderInv,
           \/ PatchMeta \/ ReorderTo
           \/ \E c \in Cands : PatchCandidateDebounced(c) \/ PatchCandidate(c) \/ MoveCandidate(c)
    PROVE  BuilderInv'
<1>1. "meta" \in Cells /\ "order" \in Cells /\ Cands \subseteq Cells /\ "order" \notin Cands
  BY CandsAssumption DEF Cells
<1>2. ASSUME NEW c \in Cells, c # "order", EditDebounced(c) PROVE BuilderInv'
  BY <1>2, EditsKeepBuilder DEF EditDebounced
<1>3. ASSUME NEW c \in Cells, EditDirect(c) PROVE BuilderInv'
  BY <1>3, EditsKeepBuilder DEF EditDirect
<1> QED
  BY <1>1, <1>2, <1>3
  DEF PatchMeta, ReorderTo, PatchCandidateDebounced, PatchCandidate, MoveCandidate

LEMMA TimersAndLeavingKeepBuilder ==
    ASSUME BuilderInv, MetaTimer \/ CandidateTimer \/ FlushStart \/ Unmount
    PROVE  BuilderInv'
<1>p. /\ BuilderTypeOK /\ EditsNumbered /\ FlushSent
      /\ "meta" \in Cells /\ "order" \in Cells /\ Cands \subseteq Cells
      /\ changes \in Nat /\ barrier \in Nat /\ barrier <= changes
      /\ \A c \in Cells : pending[c] \in Nat /\ pending[c] \in Values
  BY BuilderParts DEF BuilderTypeOK, EditsNumbered
<1>v. {0, changes} \subseteq Values /\ PendingCands \subseteq Cells
  BY <1>p, EditsAssumption DEF Values, PendingCands, BuilderTypeOK
<1>s. ASSUME NEW S \in SUBSET Cells, NEW tracked \in BOOLEAN
      PROVE  /\ SavesOf(S, tracked) \subseteq Op
             /\ tracked => \A o \in SavesOf(S, tracked) : o.tracked
  BY <1>p, SentRecords DEF SavesOf
<1>c. ASSUME NEW T \in SUBSET Cells
      PROVE  /\ Cleared(T) \in [Cells -> Values]
             /\ \A c \in Cells : Cleared(T)[c] = IF c \in T THEN Unsent ELSE pending[c]
  BY <1>p, <1>v DEF Cleared, Unsent
\* A timer of the open page.
<1>1. ASSUME NEW S \in SUBSET Cells, NEW T \in SUBSET Cells,
             \A c \in T : pending[c] # Unsent => c \in S, pageOpen,
             ops' = ops \union SavesOf(S, TRUE), pending' = Cleared(T),
             UNCHANGED <<working, ui, uiHas, server, serverHas, flush, flushOp, barrier, chain,
                         pageOpen, changes, excused, failed>>
      PROVE  BuilderInv'
  <2>1. BuilderTypeOK'
    BY <1>1, <1>p, <1>s, <1>c DEF BuilderTypeOK
  <2>2. FlushSent'
    <3>1. pending'["order"] = Unsent
      BY <1>1, <1>c, <1>p DEF FlushSent
    <3>2. \A o \in ops' : o.tracked
      BY <1>1, <1>s, <1>p DEF FlushSent
    <3>3. flush # "idle" => \A c \in Cells : pending'[c] = Unsent \/ pending'[c] > barrier
      BY <1>1, <1>c, <1>p DEF FlushSent
    <3> QED
      BY <1>1, <3>1, <3>2, <3>3 DEF FlushSent
  <2> QED
    BY <1>1, <1>p, <2>1, <2>2, SendingKeepsBuilder
<1>2. CASE MetaTimer
  <2>1. {"meta"} \in SUBSET Cells
    BY <1>p
  <2> QED
    BY <1>1, <1>2, <2>1 DEF MetaTimer
<1>3. CASE CandidateTimer
  <2>1. \A c \in Cands : pending[c] # Unsent => c \in PendingCands
    BY DEF PendingCands
  <2> QED
    BY <1>1, <1>3, <1>p, <1>v, <2>1 DEF CandidateTimer
<1>4. CASE FlushStart
  <2> DEFINE T == Cands \union {"meta"}
             S == {c \in T : pending[c] # Unsent}
  <2>1. S \in SUBSET Cells /\ T \in SUBSET Cells /\ \A c \in T : pending[c] # Unsent => c \in S
    BY <1>p
  <2>2. ops' = ops \union SavesOf(S, TRUE)
    <3>1. CASE pending["meta"] # Unsent
      <4>1. S = PendingCands \union {"meta"}
        BY <3>1 DEF PendingCands
      <4>2. SavesOf(S, TRUE) = SavesOf(PendingCands, TRUE) \union SavesOf({"meta"}, TRUE)
        BY <4>1 DEF SavesOf
      <4> QED
        BY <1>4, <3>1, <4>2 DEF FlushStart
    <3>2. CASE pending["meta"] = Unsent
      <4>1. S = PendingCands
        BY <3>2 DEF PendingCands
      <4> QED
        BY <1>4, <3>2, <4>1 DEF FlushStart
    <3> QED
      BY <3>1, <3>2
  <2>3. /\ pageOpen /\ flush' \in {"meta", "drain"} /\ flushOp' \in {pending["meta"], 0}
        /\ pending' = Cleared(T) /\ barrier' = changes
        /\ UNCHANGED <<working, ui, uiHas, server, serverHas, chain, pageOpen, changes, excused, failed>>
    BY <1>4 DEF FlushStart
  <2> HIDE DEF S, T
  <2>4. BuilderTypeOK'
    <3>1. ops' \subseteq Op
      BY <1>p, <1>s, <2>1, <2>2 DEF BuilderTypeOK
    <3>2. pending' \in [Cells -> Values] /\ {flushOp', barrier'} \subseteq Values
      BY <1>p, <1>c, <1>v, <2>1, <2>3
    <3> QED
      BY <1>p, <2>3, <3>1, <3>2 DEF BuilderTypeOK
  <2>5. FlushSent'
    <3>1. \A c \in Cells : pending'[c] = Unsent
      BY <1>c, <1>p, <2>1, <2>3 DEF FlushSent, Cells, T
    <3>2. \A o \in ops' : o.tracked
      BY <1>p, <1>s, <2>1, <2>2, <2>3 DEF FlushSent
    <3> QED
      BY <1>p, <3>1, <3>2 DEF FlushSent
  <2>6. barrier' <= changes
    BY <1>p, <2>3
  <2> QED
    BY <2>1, <2>2, <2>3, <2>4, <2>5, <2>6, SendingKeepsBuilder
<1>5. CASE Unmount
  <2> DEFINE S == {c \in Cells : pending[c] # Unsent}
  <2>1. /\ ops' = ops \union SavesOf(S, FALSE) /\ pending' = Cleared(Cells) /\ pageOpen' = FALSE
        /\ UNCHANGED <<working, ui, uiHas, server, serverHas, flush, flushOp, barrier, chain,
                       changes, excused, failed>>
    BY <1>5 DEF Unmount
  <2>2. S \in SUBSET Cells /\ \A c \in Cells : pending[c] # Unsent => c \in S
    OBVIOUS
  <2> HIDE DEF S
  <2>3. BuilderTypeOK'
    BY <1>p, <1>s, <1>c, <2>1, <2>2 DEF BuilderTypeOK
  <2>4. FlushSent'
    BY <1>c, <1>p, <2>1 DEF FlushSent
  <2> QED
    BY <1>p, <2>1, <2>2, <2>3, <2>4, SendingKeepsBuilder
<1> QED
  BY <1>2, <1>3, <1>4, <1>5

\* Structural changes and what attends them.
LEMMA StructureKeepsBuilder ==
    ASSUME BuilderInv,
           \/ \E c \in Cands : \/ RemoveCandidate(c) \/ AddCandidate(c)
                               \/ ImportFromUrl(c) \/ WorkFails(c) \/ Attach(c)
           \/ ChainDrained \/ RefreshReads \/ FlushReturns
    PROVE  BuilderInv'
<1>p. /\ BuilderTypeOK /\ EditsNumbered /\ FlushSent
      /\ Cands \subseteq Cells
      /\ changes \in Nat /\ barrier \in Nat /\ barrier <= changes /\ MaxChanges \in Nat
      /\ chain \in Chain
      /\ \A c \in Cells : pending[c] \in Nat /\ pending[c] \in Values
  BY BuilderParts DEF BuilderTypeOK, EditsNumbered
<1>s. 0 \in Values /\ NoChain \in Chain /\ \A c \in Cells : NoChain.snap.val[c] = 0
  <2>1. 0 \in Values
    BY <1>p DEF Values
  <2>2. NoSnap \in Snapshot /\ \A c \in Cells : NoSnap.val[c] = 0
    BY <2>1 DEF NoSnap, Snapshot
  <2> QED
    BY <2>1, <2>2 DEF NoChain, Chain
\* A request other than a save is made, with the next number.
<1>r. ASSUME NEW kind \in {"add", "remove", "attach"}, NEW c \in Cands, changes < MaxChanges
      PROVE  /\ Sent(kind, c, changes + 1, TRUE) \in Op
             /\ Sent(kind, c, changes + 1, TRUE).kind # "save"
             /\ Sent(kind, c, changes + 1, TRUE).cell = c
             /\ Sent(kind, c, changes + 1, TRUE).val = changes + 1
             /\ Sent(kind, c, changes + 1, TRUE).order = 0
             /\ Sent(kind, c, changes + 1, TRUE).tracked
  <2>1. changes + 1 \in Values
    BY <1>p, <1>r DEF Values
  <2>2. Sent(kind, c, changes + 1, TRUE) \in Op
    BY <1>p, <1>r, <1>s, <2>1 DEF Sent, Op
  <2>3. /\ Sent(kind, c, changes + 1, TRUE).kind = kind
        /\ Sent(kind, c, changes + 1, TRUE).cell = c
        /\ Sent(kind, c, changes + 1, TRUE).val = changes + 1
        /\ Sent(kind, c, changes + 1, TRUE).order = 0
        /\ Sent(kind, c, changes + 1, TRUE).tracked
    BY DEF Sent
  <2> QED
    BY <1>r, <2>2, <2>3
<1>1. ASSUME NEW c \in Cands, RemoveCandidate(c) PROVE BuilderInv'
  <2> DEFINE o == Sent("remove", c, changes + 1, TRUE)
  <2>1. /\ changes < MaxChanges /\ changes' = changes + 1 /\ uiHas' = uiHas \ {c}
        /\ ops' = ops \union {o}
        /\ UNCHANGED <<working, ui, server, serverHas, pending, flush, flushOp, barrier, chain,
                       pageOpen, excused, failed>>
    BY <1>1 DEF RemoveCandidate
  <2>2. o \in Op /\ o.kind # "save" /\ o.cell = c /\ o.val = changes + 1 /\ o.order = 0 /\ o.tracked
    BY <1>r, <2>1
  <2> HIDE DEF o
  <2>3. BuilderTypeOK' /\ changes' \in Nat /\ changes <= changes' /\ barrier' <= changes'
    BY <1>p, <2>1, <2>2 DEF BuilderTypeOK, Values
  <2>4. FlushSent'
    BY <1>p, <2>1, <2>2 DEF FlushSent
  <2>5. \A x \in ops' : \/ x \in ops
                         \/ /\ x.kind # "save" /\ x.cell \in Cands
                            /\ x.val <= changes' /\ x.order <= changes'
    BY <1>p, <2>1, <2>2
  <2> QED
    BY <2>1, <2>3, <2>4, <2>5, NothingMoves
<1>2. ASSUME NEW c \in Cands, NEW kind \in {"add", "attach"}, Chained(kind, c),
             working' \subseteq Cands
      PROVE  BuilderInv'
  <2> DEFINE o == Sent(kind, c, changes + 1, TRUE)
  <2>1. /\ changes < MaxChanges /\ changes' = changes + 1
        /\ ops' = ops \union {o}
        /\ chain' = [NoChain EXCEPT !.pc = "save", !.val = changes + 1]
        /\ UNCHANGED <<ui, uiHas, server, serverHas, pending, flush, flushOp, barrier,
                       pageOpen, excused, failed>>
    BY <1>2 DEF Chained
  <2>2. o \in Op /\ o.kind # "save" /\ o.cell = c /\ o.val = changes + 1 /\ o.order = 0 /\ o.tracked
    <3>1. kind \in {"add", "remove", "attach"}
      OBVIOUS
    <3> QED
      BY <1>r, <2>1, <3>1
  <2> HIDE DEF o
  <2>3. changes' \in Values /\ changes' \in Nat /\ changes <= changes' /\ barrier' <= changes'
    BY <1>p, <2>1 DEF Values
  <2>4. chain' \in Chain /\ chain'.pc = "save" /\ \A q \in Cells : chain'.snap.val[q] = 0
    BY <1>s, <2>1, <2>3 DEF Chain
  <2>5. BuilderTypeOK'
    BY <1>2, <1>p, <2>1, <2>2, <2>3, <2>4 DEF BuilderTypeOK
  <2>6. FlushSent'
    BY <1>p, <2>1, <2>2 DEF FlushSent
  <2>7. \A x \in ops' : \/ x \in ops
                         \/ /\ x.kind # "save" /\ x.cell \in Cands
                            /\ x.val <= changes' /\ x.order <= changes'
    BY <1>p, <2>1, <2>2
  <2> QED
    BY <2>1, <2>3, <2>4, <2>5, <2>6, <2>7, NothingMoves
\* The chain or the flush moves on, or a candidate starts or ends its work.
<1>3. ASSUME working' \subseteq Cands, chain' \in Chain, flush' \in {"idle", flush},
             flushOp' \in {0, flushOp}, barrier' \in {0, barrier},
             flush' # "idle" => barrier' = barrier,
             UNCHANGED <<ui, uiHas, server, serverHas, pending, ops, pageOpen, changes, excused, failed>>,
             \A c \in Cells : chain'.snap.val[c] \in {0, chain.snap.val[c], server[c]},
             chain'.pc = "set" => \A c \in Cells : chain'.snap.val[c] = server[c] \/ chain' = chain
      PROVE  BuilderInv'
  <2>1. BuilderTypeOK' /\ barrier' <= changes
    BY <1>3, <1>p, <1>s DEF BuilderTypeOK
  <2>2. FlushSent'
    BY <1>3, <1>p DEF FlushSent
  <2>3. \A o \in ops' : o \in ops
    BY <1>3
  <2> QED
    BY <1>3, <1>p, <2>1, <2>2, <2>3, NothingMoves
<1>4. ASSUME NEW c \in Cands, ImportFromUrl(c) \/ WorkFails(c) PROVE BuilderInv'
  BY <1>3, <1>4, <1>p DEF ImportFromUrl, WorkFails, BuilderTypeOK
<1>5. ASSUME NEW c \in Cands, AddCandidate(c) \/ Attach(c) PROVE BuilderInv'
  BY <1>2, <1>5, <1>p DEF AddCandidate, Attach, BuilderTypeOK
<1>6. CASE ChainDrained
  <2>1. chain' \in Chain /\ chain'.pc = "get" /\ chain'.snap = chain.snap
    BY <1>6, <1>p DEF ChainDrained, Chain
  <2> QED
    BY <1>3, <1>6, <1>p, <2>1 DEF ChainDrained, BuilderTypeOK
<1>7. CASE RefreshReads
  <2>1. CASE chain' = NoChain
    BY <1>3, <1>7, <1>p, <1>s, <2>1 DEF RefreshReads, BuilderTypeOK, NoChain
  <2>2. CASE chain' = [chain EXCEPT !.pc = "set", !.snap = [val |-> server, has |-> serverHas]]
    <3>1. [val |-> server, has |-> serverHas] \in Snapshot
      BY <1>p DEF BuilderTypeOK, Snapshot
    <3>2. chain' \in Chain /\ \A c \in Cells : chain'.snap.val[c] = server[c]
      BY <1>p, <2>2, <3>1 DEF Chain
    <3> QED
      BY <1>3, <1>7, <1>p, <3>2 DEF RefreshReads, BuilderTypeOK
  <2> QED
    BY <1>7, <2>1, <2>2 DEF RefreshReads
<1>8. CASE FlushReturns
  BY <1>3, <1>8, <1>p DEF FlushReturns, BuilderTypeOK
<1> QED
  BY <1>1, <1>4, <1>5, <1>6, <1>7, <1>8

\* A request moves on: what is written of it stays, and so do the others.
LEMMA RequestMoves ==
    ASSUME BuilderInv, NEW o \in ops, NEW where \in {"applied", "refused"}, NEW order \in Values,
           Has(o, where, order)
    PROVE  /\ ops' \subseteq Op
           /\ \A x \in ops : x # o => x \in ops'
           /\ \A x \in ops' : \/ x \in ops
                              \/ /\ x.kind = o.kind /\ x.cell = o.cell /\ x.val = o.val
                                 /\ x.tracked = o.tracked /\ x.order = order
<1> DEFINE n == [o EXCEPT !.at = where, !.order = order]
<1>1. o \in Op /\ ops \subseteq Op
  BY DEF BuilderInv, BuilderTypeOK
<1>2. /\ n \in Op /\ n.kind = o.kind /\ n.cell = o.cell /\ n.val = o.val
      /\ n.tracked = o.tracked /\ n.order = order
  BY <1>1 DEF Op
<1>3. ops' = (ops \ {o}) \union {n}
  BY DEF Has
<1> QED
  BY <1>1, <1>2, <1>3

\* The API applies a request or refuses it: a save that undoes a later one, or
\* is refused, is what excuses its cell.
LEMMA ServerKeepsBuilder ==
    ASSUME BuilderInv, NEW o \in ops, ServerApplies(o) \/ ServerRefuses(o)
    PROVE  BuilderInv'
<1>p. /\ BuilderTypeOK /\ OfCandidates /\ EditsNumbered /\ FlushSent
      /\ \A c \in Cells \ excused : Remembered(c) /\ Latest(c)
      /\ "order" \in Cells /\ changes \in Nat
      /\ \A c \in Cells : /\ ui[c] \in Nat /\ server[c] \in Nat /\ pending[c] \in Nat
                          /\ chain.snap.val[c] \in Nat /\ server[c] \in Values
      /\ o \in Op /\ o.cell \in Cells /\ o.val \in Values
      /\ \A x \in ops : x.val \in Nat /\ x.order \in Nat
  BY BuilderParts DEF BuilderTypeOK
<1>v. 0 \in Values
  BY EditsAssumption DEF Values
<1>1. CASE ServerApplies(o)
  <2>1. /\ o.at = "sent" /\ Has(o, "applied", server["order"])
        /\ server' = IF o.kind = "save" THEN [server EXCEPT ![o.cell] = o.val] ELSE server
        /\ excused' = IF o.kind = "save" /\ o.val < server[o.cell]
                      THEN excused \union {o.cell} ELSE excused
        /\ failed' \in {failed, failed \union {o.cell}}
        /\ UNCHANGED <<working, ui, uiHas, pending, flush, flushOp, barrier, chain, pageOpen, changes>>
    BY <1>1 DEF ServerApplies, Lacking
  <2>2. serverHas' \in {serverHas \union {o.cell}, serverHas \ {o.cell}, serverHas}
        /\ (o.kind = "add" => serverHas' = serverHas \union {o.cell})
        /\ (o.kind # "add" => serverHas' \subseteq serverHas)
    BY <1>1 DEF ServerApplies
  <2>3. /\ ops' \subseteq Op
        /\ \A x \in ops : x # o => x \in ops'
        /\ \A x \in ops' : \/ x \in ops
                           \/ /\ x.kind = o.kind /\ x.cell = o.cell /\ x.val = o.val
                              /\ x.tracked = o.tracked /\ x.order = server["order"]
    BY <1>p, <2>1, RequestMoves
  <2>4. /\ server' \in [Cells -> Values]
        /\ \A c \in Cells : server'[c] = server[c] \/ (o.kind = "save" /\ c = o.cell /\ server'[c] = o.val)
    BY <1>p, <2>1 DEF BuilderTypeOK
  <2>5. BuilderTypeOK'
    BY <1>p, <2>1, <2>2, <2>3, <2>4 DEF BuilderTypeOK, OfCandidates
  <2>6. EditsNumbered'
    <3>1. \A x \in ops' : x.val <= changes /\ x.order <= changes
      BY <1>p, <2>3 DEF EditsNumbered
    <3>2. \A c \in Cells : server'[c] <= changes
      BY <1>p, <2>4 DEF EditsNumbered
    <3> QED
      BY <1>p, <2>1, <3>1, <3>2 DEF EditsNumbered
  <2>7. FlushSent'
    BY <1>p, <2>1, <2>3 DEF FlushSent
  <2>8. ASSUME NEW c \in Cells \ excused' PROVE Remembered(c)' /\ Latest(c)'
    <3>1. Remembered(c) /\ Latest(c)
      BY <1>p, <2>1, <2>8
    <3>2. \A x \in Saves(c)' : x \in Saves(c) \/ (x.val = o.val /\ o \in Saves(c))
      BY <2>3 DEF Saves
    <3>3. Latest(c)'
      <4>1. server'[c] <= ui[c]
        BY <1>p, <2>4, <3>1 DEF Latest, Saves
      <4>2. \A x \in Saves(c)' : x.val <= ui[c]
        BY <3>1, <3>2 DEF Latest
      <4> QED
        BY <2>1, <3>1, <4>1, <4>2 DEF Latest
    <3>4. ASSUME server'[c] = server[c] PROVE Remembered(c)'
      <4>1. CASE server[c] = ui[c]
        BY <2>1, <3>4, <4>1 DEF Remembered
      <4>2. CASE pending[c] # Unsent /\ pending[c] = ui[c]
        BY <2>1, <4>2 DEF Remembered
      <4>3. CASE \E x \in Saves(c) : x.at = "sent" /\ x.val = ui[c]
        <5>1. PICK x \in Saves(c) : x.at = "sent" /\ x.val = ui[c]
          BY <4>3
        <5>2. CASE x # o
          BY <2>1, <2>3, <5>1, <5>2 DEF Remembered, Saves
        <5>3. CASE x = o
          <6>1. server'[c] = ui[c]
            BY <1>p, <2>1, <5>1, <5>3 DEF Saves, BuilderTypeOK
          <6> QED
            BY <2>1, <6>1 DEF Remembered
        <5> QED
          BY <5>2, <5>3
      <4> QED
        BY <3>1, <4>1, <4>2, <4>3 DEF Remembered
    <3>5. ASSUME o.kind = "save", c = o.cell, server'[c] = o.val PROVE Remembered(c)'
      <4>1. o.val <= ui[c] /\ ~ (o.val < server[c])
        BY <2>1, <2>8, <3>1, <3>5 DEF Latest, Saves
      <4>2. CASE server[c] = ui[c]
        <5>1. server'[c] = ui[c]
          BY <1>p, <3>5, <4>1, <4>2
        <5> QED
          BY <2>1, <5>1 DEF Remembered
      <4>3. CASE pending[c] # Unsent /\ pending[c] = ui[c]
        BY <2>1, <4>3 DEF Remembered
      <4>4. CASE \E x \in Saves(c) : x.at = "sent" /\ x.val = ui[c]
        BY <2>1, <2>3, <3>5, <4>4 DEF Remembered, Saves
      <4> QED
        BY <3>1, <4>2, <4>3, <4>4 DEF Remembered
    <3> QED
      BY <2>4, <3>3, <3>4, <3>5
  <2> QED
    BY <1>p, <2>3, <2>5, <2>6, <2>7, <2>8 DEF BuilderInv, OfCandidates
<1>2. CASE ServerRefuses(o)
  <2>1. /\ o.at = "sent" /\ Has(o, "refused", 0)
        /\ excused' = IF o.kind = "save" THEN excused \union {o.cell} ELSE excused
        /\ failed' \in {failed, failed \union {o.cell}}
        /\ UNCHANGED <<working, ui, uiHas, server, serverHas, pending, flush, flushOp, barrier,
                       chain, pageOpen, changes>>
    BY <1>2 DEF ServerRefuses, Lacking
  <2>2. /\ ops' \subseteq Op
        /\ \A x \in ops : x # o => x \in ops'
        /\ \A x \in ops' : \/ x \in ops
                           \/ /\ x.kind = o.kind /\ x.cell = o.cell /\ x.val = o.val
                              /\ x.tracked = o.tracked /\ x.order = 0
    BY <1>v, <2>1, RequestMoves
  <2>3. BuilderTypeOK'
    BY <1>p, <2>1, <2>2 DEF BuilderTypeOK
  <2>4. EditsNumbered'
    BY <1>p, <2>1, <2>2 DEF EditsNumbered
  <2>5. FlushSent'
    BY <1>p, <2>1, <2>2 DEF FlushSent
  <2>6. ASSUME NEW c \in Cells \ excused' PROVE Remembered(c)' /\ Latest(c)'
    <3>1. Remembered(c) /\ Latest(c) /\ o \notin Saves(c)
      BY <1>p, <2>1, <2>6 DEF Saves
    <3>2. Saves(c)' = Saves(c)
      BY <2>2, <3>1 DEF Saves
    <3> QED
      BY <2>1, <3>1, <3>2 DEF Remembered, Latest
  <2> QED
    BY <1>p, <2>2, <2>3, <2>4, <2>5, <2>6 DEF BuilderInv, OfCandidates
<1> QED
  BY <1>1, <1>2

\* An answer comes or is lost for good; only the adopted order changes the page.
LEMMA AnswersKeepBuilder ==
    ASSUME BuilderInv, NEW o \in ops, Replied(o) \/ Failed(o)
    PROVE  BuilderInv'
<1>p. /\ BuilderTypeOK /\ OfCandidates /\ EditsNumbered /\ FlushSent
      /\ \A c \in Cells \ excused : Remembered(c) /\ Latest(c)
      /\ "order" \in Cells /\ changes \in Nat
      /\ chain \in Chain
      /\ o.order \in Values /\ o.order <= changes
  BY BuilderParts DEF EditsNumbered
<1>1. /\ o.at # "sent" /\ ops' = ops \ {o}
      /\ UNCHANGED <<working, uiHas, server, serverHas, pending, flushOp, barrier, pageOpen, changes,
                     failed>>
  BY DEF Replied, Failed
<1>2. \/ UNCHANGED <<ui, excused, failed>>
      \/ ui' = [ui EXCEPT !["order"] = o.order] /\ excused' = excused \union {"order"}
  BY DEF Replied, Failed
<1>3. Awaited(o, TRUE) \/ Awaited(o, FALSE)
  BY DEF Replied, Failed
<1>4. flush' \in {"idle", "drain", flush} /\ (flush = "idle" => flush' = "idle")
  BY <1>3 DEF Awaited
<1>5. /\ chain' \in Chain
      /\ \A c \in Cells : chain'.snap.val[c] \in {0, chain.snap.val[c]}
      /\ chain'.pc = "set" => chain' = chain
  <2>1. NoChain \in Chain /\ NoChain.pc = "idle" /\ \A c \in Cells : NoChain.snap.val[c] = 0
    <3>1. 0 \in Values
      BY EditsAssumption DEF Values
    <3>2. NoSnap \in Snapshot /\ \A c \in Cells : NoSnap.val[c] = 0
      BY <3>1 DEF NoSnap, Snapshot
    <3> QED
      BY <3>1, <3>2 DEF NoChain, Chain
  <2>2. LET d == [chain EXCEPT !.pc = "drain"]
        IN d \in Chain /\ d.pc = "drain" /\ d.snap = chain.snap
    BY <1>p DEF Chain
  <2>3. chain' \in {chain, NoChain, [chain EXCEPT !.pc = "drain"]}
    BY <1>3 DEF Awaited
  <2> QED
    BY <1>p, <2>1, <2>2, <2>3
<1>6. /\ ui' \in [Cells -> Values] /\ \A c \in Cells : c \notin excused' => ui'[c] = ui[c]
      /\ \A c \in Cells : ui'[c] = ui[c] \/ ui'[c] = o.order
      /\ excused' \subseteq Cells /\ excused \subseteq excused'
  BY <1>2, <1>p DEF BuilderTypeOK
<1>7. BuilderTypeOK'
  BY <1>1, <1>4, <1>5, <1>6, <1>p DEF BuilderTypeOK
<1>8. EditsNumbered'
  <2>1. \A c \in Cells : chain'.snap.val[c] <= changes /\ ui'[c] <= changes
    BY <1>5, <1>6, <1>p DEF EditsNumbered
  <2> QED
    BY <1>1, <1>p, <2>1 DEF EditsNumbered
<1>9. FlushSent' /\ OfCandidates'
  BY <1>1, <1>4, <1>p DEF FlushSent, OfCandidates
<1>10. ASSUME NEW c \in Cells \ excused' PROVE Remembered(c)' /\ Latest(c)'
  <2>1. Remembered(c) /\ Latest(c) /\ ui'[c] = ui[c]
    BY <1>6, <1>p, <1>10
  <2>2. Remembered(c)'
    BY <1>1, <2>1 DEF Remembered, Saves
  <2>3. Latest(c)'
    BY <1>1, <1>5, <2>1 DEF Latest, Saves
  <2> QED
    BY <2>2, <2>3
<1> QED
  BY <1>7, <1>8, <1>9, <1>10 DEF BuilderInv

\* What a refresh sets back is excused; the rest it finds as the page has it.
LEMMA RefreshKeepsBuilder ==
    ASSUME BuilderInv, RefreshSets
    PROVE  BuilderInv'
<1>p. /\ BuilderTypeOK /\ OfCandidates /\ EditsNumbered /\ FlushSent
      /\ \A c \in Cells \ excused : Remembered(c) /\ Latest(c)
      /\ "meta" \in Cells /\ changes \in Nat
      /\ chain \in Chain /\ chain.snap.val \in [Cells -> Values]
      /\ \A c \in Cells : /\ ui[c] \in Nat /\ pending[c] \in Nat /\ pending[c] \in Values
                          /\ chain.snap.val[c] \in Nat
  BY BuilderParts DEF BuilderTypeOK
<1>1. /\ chain.pc = "set" /\ chain' = NoChain
      /\ UNCHANGED <<working, server, serverHas, pending, ops, flush, flushOp, barrier, pageOpen,
                     changes, failed>>
  BY DEF RefreshSets
<1>2. NoChain \in Chain /\ NoChain.pc = "idle" /\ \A c \in Cells : NoChain.snap.val[c] = 0
  <2>1. 0 \in Values
    BY EditsAssumption DEF Values
  <2>2. NoSnap \in Snapshot /\ \A c \in Cells : NoSnap.val[c] = 0
    BY <2>1 DEF NoSnap, Snapshot
  <2> QED
    BY <2>1, <2>2 DEF NoChain, Chain
<1>3. /\ Patched(chain.snap.val) \in [Cells -> Values]
      /\ \A c \in Cells : \/ Patched(chain.snap.val)[c] = chain.snap.val[c]
                          \/ c = "meta" /\ Patched(chain.snap.val)[c] = pending[c]
  BY <1>p DEF Patched
<1>4. /\ ui' \in [Cells -> Values] /\ uiHas' \subseteq Cands /\ excused' \subseteq Cells
      /\ \A c \in Cells : c \notin excused' => c \notin excused /\ ~ (ui'[c] < ui[c])
      /\ \A c \in Cells : ui'[c] \in {ui[c], chain.snap.val[c], pending[c]}
  <2>1. CASE pageOpen
    <3>1. /\ ui' = Patched(chain.snap.val) /\ uiHas' = chain.snap.has
          /\ excused' = excused \union {c \in Cells : ui'[c] < ui[c]}
      BY <2>1 DEF RefreshSets
    <3>2. chain.snap.has \subseteq Cands
      BY <1>p DEF Chain, Snapshot
    <3>3. excused \subseteq Cells
      BY <1>p DEF BuilderTypeOK
    <3> QED
      BY <1>3, <3>1, <3>2, <3>3
  <2>2. CASE ~ pageOpen
    BY <1>p, <2>2 DEF RefreshSets, BuilderTypeOK
  <2> QED
    BY <2>1, <2>2
<1>5. BuilderTypeOK'
  BY <1>1, <1>2, <1>4, <1>p DEF BuilderTypeOK
<1>6. EditsNumbered'
  <2>1. \A c \in Cells : chain'.snap.val[c] <= changes /\ ui'[c] <= changes
    BY <1>1, <1>2, <1>4, <1>p DEF EditsNumbered
  <2> QED
    BY <1>1, <1>p, <2>1 DEF EditsNumbered
<1>7. FlushSent' /\ OfCandidates'
  BY <1>1, <1>p DEF FlushSent, OfCandidates
<1>8. ASSUME NEW c \in Cells \ excused' PROVE Remembered(c)' /\ Latest(c)'
  <2>1. Remembered(c) /\ Latest(c) /\ ~ (ui'[c] < ui[c])
    BY <1>4, <1>p, <1>8
  <2>2. ui'[c] \in Nat /\ ui'[c] <= ui[c]
    BY <1>1, <1>4, <1>p, <2>1 DEF Latest
  <2>3. ui'[c] = ui[c]
    BY <1>p, <2>1, <2>2
  <2> QED
    BY <1>1, <1>2, <2>1, <2>3 DEF Remembered, Latest, Saves
<1> QED
  BY <1>5, <1>6, <1>7, <1>8 DEF BuilderInv

LEMMA StepsKeepBuilder == BuilderInv /\ [BuilderNext]_webVars => BuilderInv'
<1> SUFFICES ASSUME BuilderInv, [BuilderNext]_webVars PROVE BuilderInv'
  OBVIOUS
<1>1. CASE UNCHANGED webVars
  <2>1. UNCHANGED <<ui, uiHas, server, serverHas, pending, ops, flush, flushOp, barrier, chain,
                    working, pageOpen, changes, excused, failed>>
    BY <1>1 DEF webVars
  <2>2. BuilderTypeOK'
    BY <2>1 DEF BuilderInv, BuilderTypeOK
  <2> QED
    BY <2>1, <2>2 DEF BuilderInv, OfCandidates, EditsNumbered, FlushSent, Remembered, Latest, Saves
<1> QED
  BY <1>1, EditActions, TimersAndLeavingKeepBuilder, StructureKeepsBuilder, ServerKeepsBuilder,
     AnswersKeepBuilder, RefreshKeepsBuilder DEF BuilderNext

LEMMA InitBuilder == BuilderInit => BuilderInv
<1> SUFFICES ASSUME BuilderInit PROVE BuilderInv
  OBVIOUS
<1>1. 0 \in Values /\ "order" \in Cells
  BY EditsAssumption DEF Values, Cells
<1>2. NoSnap \in Snapshot /\ \A c \in Cells : NoSnap.val[c] = 0
  BY <1>1 DEF NoSnap, Snapshot
<1>3. chain = NoChain /\ NoChain \in Chain /\ NoChain.pc = "idle" /\ NoChain.snap = NoSnap
  BY <1>1, <1>2 DEF BuilderInit, NoChain, Chain
<1>4. BuilderTypeOK
  BY <1>1, <1>3, CandsAssumption DEF BuilderInit, BuilderTypeOK, Unsent
<1>5. EditsNumbered /\ \A c \in Cells : Remembered(c) /\ Latest(c)
  BY <1>1, <1>2, <1>3 DEF BuilderInit, EditsNumbered, Remembered, Latest, Saves, Unsent
<1>6. FlushSent /\ OfCandidates
  BY <1>1 DEF BuilderInit, FlushSent, OfCandidates
<1> QED
  BY <1>4, <1>5, <1>6 DEF BuilderInv
-----------------------------------------------------------------------------
THEOREM BuilderTypeCorrect == BuilderSpec => []BuilderTypeOK
<1>1. BuilderInv => BuilderTypeOK
  BY DEF BuilderInv
<1> QED
  BY <1>1, InitBuilder, StepsKeepBuilder, PTL DEF BuilderSpec

\* What the page shows and the server lacks is pending or being sent, or a save
\* of the cell failed or was overtaken, or a refresh set the cell back
\* (useRankingBuilder.ts: the debounced patches and the saves in flight).
THEOREM NoEditForgotten == BuilderSpec => []NothingForgotten
<1>1. BuilderInv => NothingForgotten
  <2> SUFFICES ASSUME BuilderInv, NEW c \in Shown, c \notin excused
               PROVE  Stored(c) \/ pending[c] # Unsent \/ OnItsWay(c)
    BY DEF NothingForgotten
  <2>1. c \in Cells
    BY BuilderParts DEF Shown, BuilderTypeOK
  <2>2. Remembered(c)
    BY <2>1, BuilderParts
  <2> QED
    BY <2>2 DEF Remembered, Saves, Stored, OnItsWay
<1> QED
  BY <1>1, InitBuilder, StepsKeepBuilder, PTL DEF BuilderSpec

\* Nothing else ends a flush that drains, or a refresh that has its answer.
LEMMA WhoEndsThem ==
    ASSUME [BuilderNext]_webVars
    PROVE  /\ flush = "drain" /\ flush' = "idle" => FlushReturns
           /\ chain.pc = "set" /\ chain'.pc = "idle" => RefreshSets
<1> DEFINE Both == /\ flush = "drain" => flush' = "drain" 
                   /\ chain.pc = "set" => chain' = chain
<1>1. ASSUME NEW o \in ops, Replied(o) \/ Failed(o) PROVE Both
  BY <1>1 DEF Replied, Failed, Awaited
<1>2. ASSUME NEW c, Edited(c) PROVE Both
  BY <1>2 DEF Edited
<1>3. ASSUME NEW kind, NEW c, Chained(kind, c) PROVE Both
  BY <1>3 DEF Chained
<1>4. ASSUME NEW o \in ops, ServerApplies(o) \/ ServerRefuses(o) PROVE Both
  BY <1>4 DEF ServerApplies, ServerRefuses
<1>5. ASSUME UNCHANGED webVars PROVE Both
  BY <1>5 DEF webVars
<1>6. ASSUME NEW c \in Cands,
             \/ RemoveCandidate(c) \/ AddCandidate(c) \/ ImportFromUrl(c)
             \/ WorkFails(c) \/ Attach(c)
      PROVE  Both
  BY <1>3, <1>6 DEF RemoveCandidate, AddCandidate, ImportFromUrl, WorkFails, Attach
<1>7. ASSUME \/ MetaTimer \/ CandidateTimer \/ FlushStart \/ ChainDrained \/ RefreshReads
             \/ Unmount
      PROVE  Both
  BY <1>7 DEF MetaTimer, CandidateTimer, FlushStart, ChainDrained, RefreshReads, Unmount
<1>8. ASSUME \/ PatchMeta \/ ReorderTo
             \/ \E c \in Cands : \/ PatchCandidateDebounced(c) \/ PatchCandidate(c)
                                 \/ MoveCandidate(c)
      PROVE  Both
  BY <1>2, <1>8 DEF PatchMeta, ReorderTo, PatchCandidateDebounced, PatchCandidate,
     MoveCandidate, EditDebounced, EditDirect
<1>9. FlushReturns => UNCHANGED chain
  BY DEF FlushReturns
<1>10. RefreshSets => UNCHANGED flush
  BY DEF RefreshSets
<1>11. Both \/ FlushReturns \/ RefreshSets
  BY <1>1, <1>4, <1>5, <1>6, <1>7, <1>8 DEF BuilderNext
<1> QED
  BY <1>9, <1>10, <1>11

\* When flush() returns on the open page, the server has every edit made before
\* the call that did not fail and was not overtaken (useRankingBuilder.ts: the
\* write barrier that Generate waits for).
THEOREM FlushReturnsAsBarrier == BuilderSpec => FlushIsBarrier
<1>1. ASSUME BuilderInv, pageOpen, flush = "drain", FlushReturns, NEW c \in Shown
      PROVE  Stored(c) \/ pending[c] > barrier \/ c \in excused
  <2>1. c \in Cells
    BY <1>1, BuilderParts DEF Shown, BuilderTypeOK
  <2>2. ops = {}
    BY <1>1, BuilderParts DEF FlushReturns, InFlight, FlushSent
  <2>3. pending[c] = Unsent \/ pending[c] > barrier
    BY <1>1, <2>1, BuilderParts DEF FlushSent
  <2>4. c \in excused \/ Remembered(c)
    BY <1>1, <2>1, BuilderParts
  <2> QED
    BY <2>2, <2>3, <2>4 DEF Remembered, Saves, Stored
<1>2. BuilderInv /\ [BuilderNext]_webVars =>
         ((pageOpen /\ flush = "drain" /\ flush' = "idle") =>
             \A c \in Shown : Stored(c) \/ pending[c] > barrier \/ c \in excused)
  BY <1>1, WhoEndsThem
<1> QED
  BY <1>2, InitBuilder, StepsKeepBuilder, PTL DEF BuilderSpec, FlushIsBarrier

\* v is the newest value of a cell: nothing about the cell is newer, and it is
\* stored, pending or being sent.
Newest(c, v) ==
    /\ server[c] <= v /\ ui[c] <= v /\ pending[c] <= v /\ chain.snap.val[c] <= v
    /\ \A o \in Saves(c) : o.val <= v
    /\ c = "order" => \A o \in ops : o.order <= v
    /\ \/ server[c] = v \/ pending[c] = v
       \/ \E o \in Saves(c) : o.at = "sent" /\ o.val = v

\* As long as none of its saves is refused or overtaken a cell has one, also when
\* a refresh or an answer gave the page an older value.
NewestInv == \A c \in Cells \ failed : \E v \in Values : Newest(c, v)

\* A step that brings the cell nothing newer and keeps v where it is.
LEMMA NewestFrame ==
    ASSUME BuilderInv, NEW c \in Cells, NEW v \in Values, Newest(c, v),
           server'[c] \in {server[c], v}, ui'[c] \in {ui[c], v} \/ ui'[c] <= v,
           pending'[c] <= v, chain'.snap.val[c] <= v,
           \A o \in ops' : \/ o \in ops
                           \/ /\ o.kind = "save" /\ o.cell = c => o.val <= v
                              /\ c = "order" => o.order <= v,
           \/ server'[c] = v \/ pending'[c] = v
           \/ \E o \in ops' : o.kind = "save" /\ o.cell = c /\ o.at = "sent" /\ o.val = v
    PROVE  Newest(c, v)'
<1>1. v \in Nat
  BY EditsAssumption DEF Values
<1>2. server'[c] <= v /\ ui'[c] <= v
  BY <1>1 DEF Newest
<1>3. \A o \in Saves(c)' : o.val <= v
  BY DEF Newest, Saves
<1>4. c = "order" => \A o \in ops' : o.order <= v
  BY DEF Newest
<1> QED
  BY <1>2, <1>3, <1>4 DEF Newest, Saves

LEMMA EditsKeepNewest ==
    ASSUME BuilderInv, NewestInv, NEW c \in Cells, Edited(c),
           \/ pending' = [pending EXCEPT ![c] = changes + 1] /\ ops' = ops
           \/ pending' = pending /\ ops' = ops \union {Sent("save", c, changes + 1, TRUE)}
    PROVE  NewestInv'
<1>p. /\ EditsNumbered /\ changes \in Nat /\ MaxChanges \in Nat
      /\ \A q \in Cells : /\ ui[q] \in Nat /\ server[q] \in Nat /\ pending[q] \in Nat
                          /\ chain.snap.val[q] \in Nat
      /\ ui \in [Cells -> Values] /\ pending \in [Cells -> Values]
      /\ \A o \in ops : o.val \in Nat /\ o.order \in Nat
  BY BuilderParts DEF BuilderTypeOK
<1>1. /\ changes < MaxChanges /\ failed' = failed \ {c}
      /\ ui' = [ui EXCEPT ![c] = changes + 1]
      /\ UNCHANGED <<server, chain>>
  BY DEF Edited
<1>2. changes + 1 \in Values /\ changes + 1 \in Nat
  BY <1>1, <1>p DEF Values
<1> DEFINE o == Sent("save", c, changes + 1, TRUE)
<1>3. /\ o.kind = "save" /\ o.cell = c /\ o.val = changes + 1 /\ o.at = "sent" /\ o.order = 0
  BY DEF Sent
<1>4. /\ ops \subseteq ops' /\ \A x \in ops' : x \in ops \/ x = o
      /\ \A q \in Cells \ {c} : pending'[q] = pending[q]
      /\ \/ pending'[c] = changes + 1
         \/ pending'[c] = pending[c] /\ o \in ops'
  BY <1>p
<1> HIDE DEF o
<1>5. \E v \in Values : Newest(c, v)'
  <2> PICK v \in Values : v = changes + 1
    BY <1>2
  <2>1. server'[c] <= v /\ chain'.snap.val[c] <= v /\ ui'[c] <= v
    BY <1>1, <1>p, <1>2 DEF EditsNumbered
  <2>2. pending'[c] <= v
    BY <1>4, <1>p, <1>2 DEF EditsNumbered
  <2>3. \A x \in ops' : x.val <= v /\ x.order <= v
    BY <1>3, <1>4, <1>p, <1>2 DEF EditsNumbered
  <2>4. \/ pending'[c] = v
        \/ \E x \in Saves(c)' : x.at = "sent" /\ x.val = v
    BY <1>3, <1>4 DEF Saves
  <2> QED
    BY <2>1, <2>2, <2>3, <2>4 DEF Newest, Saves
<1>6. ASSUME NEW q \in Cells \ failed', q # c PROVE \E v \in Values : Newest(q, v)'
  <2>1. PICK v \in Values : Newest(q, v)
    BY <1>1, <1>6 DEF NewestInv
  <2>2. v \in Nat
    BY EditsAssumption DEF Values
  <2>3. ui'[q] = ui[q] /\ pending'[q] = pending[q]
    BY <1>1, <1>4, <1>6, <1>p
  <2>4. pending'[q] <= v /\ chain'.snap.val[q] <= v
    BY <1>1, <2>1, <2>3 DEF Newest
  <2>5. \A x \in ops' : \/ x \in ops
                        \/ /\ x.kind = "save" /\ x.cell = q => x.val <= v
                           /\ q = "order" => x.order <= v
    BY <1>3, <1>4, <1>6, <2>2
  <2>6. \/ server'[q] = v \/ pending'[q] = v
        \/ \E x \in ops' : x.kind = "save" /\ x.cell = q /\ x.at = "sent" /\ x.val = v
    BY <1>1, <1>4, <2>1, <2>3 DEF Newest, Saves
  <2> QED
    BY <1>1, <2>1, <2>3, <2>4, <2>5, <2>6, NewestFrame
<1> QED
  BY <1>5, <1>6 DEF NewestInv

LEMMA SendingKeepsNewest ==
    ASSUME BuilderInv, NewestInv,
           NEW S \in SUBSET Cells, NEW T \in SUBSET Cells, NEW tracked \in BOOLEAN,
           \A c \in T : pending[c] # Unsent => c \in S,
           ops' = ops \union SavesOf(S, tracked), pending' = Cleared(T),
           UNCHANGED <<ui, server, chain, failed>>
    PROVE  NewestInv'
<1>p. \A c \in Cells : pending[c] \in Nat /\ server[c] \in Nat
  BY BuilderParts
<1>1. SUFFICES ASSUME NEW c \in Cells \ failed PROVE \E v \in Values : Newest(c, v)'
  BY DEF NewestInv
<1>2. PICK v \in Values : Newest(c, v)
  BY DEF NewestInv
<1>3. v \in Nat
  BY EditsAssumption DEF Values
<1>4. pending'[c] = IF c \in T THEN Unsent ELSE pending[c]
  BY DEF Cleared
<1>5. pending'[c] <= v /\ chain'.snap.val[c] <= v
  BY <1>2, <1>3, <1>4 DEF Newest, Unsent
<1>6. \A o \in ops' : o \in ops \/ \E q \in S : o = Sent("save", q, pending[q], tracked)
  BY DEF SavesOf
<1>7. \A o \in ops' : \/ o \in ops
                      \/ /\ o.kind = "save" /\ o.cell = c => o.val <= v
                         /\ c = "order" => o.order <= v
  BY <1>2, <1>3, <1>6 DEF Newest, Sent
<1>8. \/ server'[c] = v \/ pending'[c] = v
      \/ \E o \in ops' : o.kind = "save" /\ o.cell = c /\ o.at = "sent" /\ o.val = v
  <2>1. CASE server[c] = v
    BY <2>1
  <2>2. CASE pending[c] = v /\ c \notin T
    BY <1>4, <2>2
  <2>3. CASE pending[c] = v /\ c \in T /\ pending[c] # Unsent
    <3>1. Sent("save", c, v, tracked) \in ops'
      BY <2>3 DEF SavesOf
    <3> QED
      BY <3>1 DEF Sent
  <2>4. CASE pending[c] = v /\ pending[c] = Unsent
    BY <1>2, <1>3, <1>p, <2>4 DEF Newest, Unsent
  <2>5. CASE \E o \in Saves(c) : o.at = "sent" /\ o.val = v
    BY <2>5 DEF Saves
  <2> QED
    BY <1>2, <2>1, <2>2, <2>3, <2>4, <2>5 DEF Newest
<1> QED
  BY <1>2, <1>5, <1>7, <1>8, NewestFrame

\* What sends no save, stores nothing and shows nothing new.
LEMMA StayingKeepsNewest ==
    ASSUME BuilderInv, NewestInv,
           UNCHANGED <<ui, server, pending, failed>>,
           \A o \in ops' : o \in ops \/ (o.kind # "save" /\ o.order = 0),
           \A o \in ops : o.kind = "save" /\ o.at = "sent" => o \in ops',
           \A c \in Cells : chain'.snap.val[c] \in {0, chain.snap.val[c], server[c]}
    PROVE  NewestInv'
<1>1. SUFFICES ASSUME NEW c \in Cells \ failed PROVE \E v \in Values : Newest(c, v)'
  BY DEF NewestInv
<1>2. PICK v \in Values : Newest(c, v)
  BY DEF NewestInv
<1>3. v \in Nat
  BY EditsAssumption DEF Values
<1>4. pending'[c] <= v /\ chain'.snap.val[c] <= v
  BY <1>2, <1>3 DEF Newest
<1>5. \A o \in ops' : \/ o \in ops
                      \/ /\ o.kind = "save" /\ o.cell = c => o.val <= v
                         /\ c = "order" => o.order <= v
  BY <1>3
<1>6. \/ server'[c] = v \/ pending'[c] = v
      \/ \E o \in ops' : o.kind = "save" /\ o.cell = c /\ o.at = "sent" /\ o.val = v
  BY <1>2 DEF Newest, Saves
<1> QED
  BY <1>2, <1>4, <1>5, <1>6, NewestFrame

LEMMA ServerKeepsNewest ==
    ASSUME BuilderInv, NewestInv, NEW o \in ops, ServerApplies(o) \/ ServerRefuses(o)
    PROVE  NewestInv'
<1>p. /\ \A c \in Cells : pending[c] \in Nat /\ server[c] \in Nat
      /\ server \in [Cells -> Values] /\ o \in Op /\ o.val \in Nat
      /\ "order" \in Cells /\ server["order"] \in Values /\ 0 \in Values
  BY BuilderParts, EditsAssumption DEF BuilderTypeOK, Values
<1> DEFINE order == IF ServerApplies(o) THEN server["order"] ELSE 0
           saved == o.kind = "save" /\ ServerApplies(o)
<1>1. /\ o.at = "sent" /\ \E where \in {"applied", "refused"} : Has(o, where, order)
      /\ UNCHANGED <<ui, pending, chain>>
      /\ server' = IF saved THEN [server EXCEPT ![o.cell] = o.val] ELSE server
      /\ saved /\ o.val < server[o.cell] => o.cell \in failed'
      /\ o.kind = "save" /\ ~ saved => o.cell \in failed'
      /\ failed \subseteq failed'
  <2>1. CASE ServerApplies(o)
    BY <2>1 DEF ServerApplies, Lacking
  <2>2. CASE ~ServerApplies(o)
    BY <2>2 DEF ServerRefuses, Lacking
  <2> QED
    BY <2>1, <2>2
<1>2. order \in Values /\ (order = server["order"] \/ order = 0)
  BY <1>p
<1> HIDE DEF order, saved
<1>3. /\ \A x \in ops : x # o => x \in ops'
      /\ \A x \in ops' : \/ x \in ops
                         \/ /\ x.kind = o.kind /\ x.cell = o.cell /\ x.val = o.val
                            /\ x.order = order
  BY <1>1, <1>2, RequestMoves
<1>4. SUFFICES ASSUME NEW c \in Cells \ failed' PROVE \E v \in Values : Newest(c, v)'
  BY DEF NewestInv
<1>5. PICK v \in Values : Newest(c, v)
  BY <1>1 DEF NewestInv
<1>6. v \in Nat
  BY EditsAssumption DEF Values
<1>7. pending'[c] <= v /\ chain'.snap.val[c] <= v
  BY <1>1, <1>5 DEF Newest
<1>8. \A x \in ops' : \/ x \in ops
                      \/ /\ x.kind = "save" /\ x.cell = c => x.val <= v
                         /\ c = "order" => x.order <= v
  BY <1>2, <1>3, <1>5, <1>6 DEF Newest, Saves
<1>9. CASE ~ (o.kind = "save" /\ o.cell = c)
  <2>1. server'[c] = server[c]
    BY <1>1, <1>9, <1>p DEF saved
  <2>2. \/ server'[c] = v \/ pending'[c] = v
        \/ \E x \in ops' : x.kind = "save" /\ x.cell = c /\ x.at = "sent" /\ x.val = v
    BY <1>1, <1>3, <1>5, <1>9, <2>1 DEF Newest, Saves
  <2> QED
    BY <1>1, <1>5, <1>7, <1>8, <2>1, <2>2, NewestFrame
<1>10. CASE o.kind = "save" /\ o.cell = c
  <2>1. saved /\ ~ (o.val < server[c]) /\ server'[c] = o.val /\ o.val <= v
    BY <1>1, <1>4, <1>5, <1>10, <1>p DEF Newest, Saves
  <2>2. CASE o.val = v
    BY <1>1, <1>5, <1>7, <1>8, <2>1, <2>2, NewestFrame
  <2>3. CASE o.val # v
    <3>1. server[c] # v
      BY <1>6, <1>p, <2>1, <2>3
    <3>2. pending'[c] = v \/ \E x \in Saves(c)' : x.at = "sent" /\ x.val = v
      BY <1>1, <1>3, <1>5, <2>3, <3>1 DEF Newest, Saves
    <3> QED
      BY <1>1, <1>5, <1>7, <1>8, <2>1, <3>2 DEF Newest, Saves
  <2> QED
    BY <2>2, <2>3
<1> QED
  BY <1>9, <1>10

LEMMA AnswersKeepNewest ==
    ASSUME BuilderInv, NewestInv, NEW o \in ops, Replied(o) \/ Failed(o)
    PROVE  NewestInv'
<1>p. /\ chain \in Chain /\ ui \in [Cells -> Values] /\ "order" \in Cells
      /\ \A c \in Cells : ui[c] \in Nat
  BY BuilderParts DEF BuilderTypeOK
<1>1. /\ o.at # "sent" /\ ops' = ops \ {o}
      /\ UNCHANGED <<server, pending, failed>>
      /\ ui' = ui \/ ui' = [ui EXCEPT !["order"] = o.order]
  BY DEF Replied, Failed
<1>2. \A c \in Cells : chain'.snap.val[c] \in {0, chain.snap.val[c]}
  <2>1. chain' \in {chain, NoChain, [chain EXCEPT !.pc = "drain"]}
    BY DEF Replied, Failed, Awaited
  <2>2. [chain EXCEPT !.pc = "drain"].snap = chain.snap
    BY <1>p DEF Chain
  <2>3. \A c \in Cells : NoChain.snap.val[c] = 0
    BY DEF NoChain, NoSnap
  <2> QED
    BY <2>1, <2>2, <2>3
<1>3. SUFFICES ASSUME NEW c \in Cells \ failed PROVE \E v \in Values : Newest(c, v)'
  BY <1>1 DEF NewestInv
<1>4. PICK v \in Values : Newest(c, v)
  BY DEF NewestInv
<1>5. v \in Nat
  BY EditsAssumption DEF Values
<1>6. pending'[c] <= v /\ chain'.snap.val[c] <= v
  BY <1>1, <1>2, <1>4, <1>5 DEF Newest
<1>7. ui'[c] <= v
  BY <1>1, <1>4, <1>p DEF Newest
<1>8. \/ server'[c] = v \/ pending'[c] = v
      \/ \E x \in ops' : x.kind = "save" /\ x.cell = c /\ x.at = "sent" /\ x.val = v
  BY <1>1, <1>4 DEF Newest, Saves
<1> QED
  BY <1>1, <1>4, <1>6, <1>7, <1>8, NewestFrame

LEMMA RefreshKeepsNewest ==
    ASSUME BuilderInv, NewestInv, RefreshSets
    PROVE  NewestInv'
<1>p. /\ chain.snap.val \in [Cells -> Values] /\ "meta" \in Cells
      /\ \A c \in Cells : pending[c] \in Nat /\ chain.snap.val[c] \in Nat
  BY BuilderParts
<1>1. chain' = NoChain /\ UNCHANGED <<server, pending, ops, failed>>
  BY DEF RefreshSets
<1>2. \A c \in Cells : ui'[c] \in {ui[c], chain.snap.val[c], pending[c]}
  BY <1>p DEF RefreshSets, Patched
<1>3. SUFFICES ASSUME NEW c \in Cells \ failed PROVE \E v \in Values : Newest(c, v)'
  BY <1>1 DEF NewestInv
<1>4. PICK v \in Values : Newest(c, v)
  BY DEF NewestInv
<1>5. v \in Nat
  BY EditsAssumption DEF Values
<1>6. ui'[c] <= v /\ pending'[c] <= v /\ chain'.snap.val[c] <= v
  BY <1>1, <1>2, <1>4, <1>5 DEF Newest, NoChain, NoSnap
<1>7. \/ server'[c] = v \/ pending'[c] = v
      \/ \E x \in ops' : x.kind = "save" /\ x.cell = c /\ x.at = "sent" /\ x.val = v
  BY <1>1, <1>4 DEF Newest, Saves
<1> QED
  BY <1>1, <1>4, <1>6, <1>7, NewestFrame

LEMMA StepsKeepNewest == BuilderInv /\ NewestInv /\ [BuilderNext]_webVars => NewestInv'
<1> SUFFICES ASSUME BuilderInv, NewestInv, [BuilderNext]_webVars PROVE NewestInv'
  OBVIOUS
<1>p. /\ "meta" \in Cells /\ "order" \in Cells /\ Cands \subseteq Cells /\ chain \in Chain
      /\ PendingCands \in SUBSET Cells
  BY BuilderParts DEF PendingCands
<1>n. \A c \in Cells : NoChain.snap.val[c] = 0
  BY DEF NoChain, NoSnap
<1>1. CASE UNCHANGED webVars
  BY <1>1, StayingKeepsNewest DEF webVars
<1>2. ASSUME NEW c \in Cells, EditDebounced(c) \/ EditDirect(c) PROVE NewestInv'
  BY <1>2, EditsKeepNewest DEF EditDebounced, EditDirect
<1>3. CASE \/ PatchMeta \/ ReorderTo
           \/ \E c \in Cands : PatchCandidateDebounced(c) \/ PatchCandidate(c) \/ MoveCandidate(c)
  BY <1>2, <1>3, <1>p
  DEF PatchMeta, ReorderTo, PatchCandidateDebounced, PatchCandidate, MoveCandidate
<1>4. CASE MetaTimer
  <2>1. {"meta"} \in SUBSET Cells
    BY <1>p
  <2> QED
    BY <1>4, <2>1, SendingKeepsNewest DEF MetaTimer
<1>5. CASE CandidateTimer
  <2>1. \A c \in Cands : pending[c] # Unsent => c \in PendingCands
    BY DEF PendingCands
  <2> QED
    BY <1>5, <1>p, <2>1, SendingKeepsNewest DEF CandidateTimer
<1>6. CASE FlushStart
  <2> DEFINE T == Cands \union {"meta"}
             S == {c \in T : pending[c] # Unsent}
  <2>1. S \in SUBSET Cells /\ T \in SUBSET Cells /\ \A c \in T : pending[c] # Unsent => c \in S
    BY <1>p
  <2>2. ops' = ops \union SavesOf(S, TRUE)
    <3>1. CASE pending["meta"] # Unsent
      <4>1. S = PendingCands \union {"meta"}
        BY <3>1 DEF PendingCands
      <4>2. SavesOf(S, TRUE) = SavesOf(PendingCands, TRUE) \union SavesOf({"meta"}, TRUE)
        BY <4>1 DEF SavesOf
      <4> QED
        BY <1>6, <3>1, <4>2 DEF FlushStart
    <3>2. CASE pending["meta"] = Unsent
      <4>1. S = PendingCands
        BY <3>2 DEF PendingCands
      <4> QED
        BY <1>6, <3>2, <4>1 DEF FlushStart
    <3> QED
      BY <3>1, <3>2
  <2>3. pending' = Cleared(T) /\ UNCHANGED <<ui, server, chain, failed>>
    BY <1>6 DEF FlushStart
  <2> HIDE DEF S, T
  <2> QED
    BY <2>1, <2>2, <2>3, SendingKeepsNewest
<1>7. CASE Unmount
  <2> DEFINE S == {c \in Cells : pending[c] # Unsent}
  <2>1. /\ ops' = ops \union SavesOf(S, FALSE) /\ pending' = Cleared(Cells)
        /\ UNCHANGED <<ui, server, chain, failed>>
    BY <1>7 DEF Unmount
  <2>2. S \in SUBSET Cells /\ \A c \in Cells : pending[c] # Unsent => c \in S
    OBVIOUS
  <2> HIDE DEF S
  <2> QED
    BY <2>1, <2>2, SendingKeepsNewest
<1>8. ASSUME NEW c \in Cands, NEW kind \in {"add", "attach"}, Chained(kind, c) PROVE NewestInv'
  <2>1. /\ \A q \in Cells : chain'.snap.val[q] = 0
        /\ UNCHANGED <<ui, server, pending, failed>>
        /\ ops' = ops \union {Sent(kind, c, changes + 1, TRUE)}
    BY <1>8, <1>n DEF Chained, NoChain
  <2>2. \A x \in ops' : x \in ops \/ (x.kind # "save" /\ x.order = 0)
    BY <2>1 DEF Sent
  <2> QED
    BY <2>1, <2>2, StayingKeepsNewest
<1>9. ASSUME NEW c \in Cands, RemoveCandidate(c) PROVE NewestInv'
  <2>1. /\ UNCHANGED <<ui, server, pending, chain, failed>>
        /\ ops' = ops \union {Sent("remove", c, changes + 1, TRUE)}
    BY <1>9 DEF RemoveCandidate
  <2>2. \A x \in ops' : x \in ops \/ (x.kind # "save" /\ x.order = 0)
    BY <2>1 DEF Sent
  <2> QED
    BY <2>1, <2>2, StayingKeepsNewest
<1>10. ASSUME NEW c \in Cands,
              AddCandidate(c) \/ Attach(c) \/ ImportFromUrl(c) \/ WorkFails(c)
       PROVE  NewestInv'
  <2>1. CASE AddCandidate(c) \/ Attach(c)
    BY <1>8, <2>1 DEF AddCandidate, Attach
  <2>2. CASE ImportFromUrl(c) \/ WorkFails(c)
    BY <2>2, StayingKeepsNewest DEF ImportFromUrl, WorkFails
  <2> QED
    BY <1>10, <2>1, <2>2
<1>11. CASE ChainDrained \/ RefreshReads \/ FlushReturns
  <2>1. UNCHANGED <<ui, server, pending, ops, failed>>
    BY <1>11 DEF ChainDrained, RefreshReads, FlushReturns
  <2>2. \A c \in Cells : chain'.snap.val[c] \in {0, chain.snap.val[c], server[c]}
    <3>1. chain' \in {chain, NoChain, [chain EXCEPT !.pc = "get"],
                      [chain EXCEPT !.pc = "set", !.snap = [val |-> server, has |-> serverHas]]}
      BY <1>11 DEF ChainDrained, RefreshReads, FlushReturns
    <3>2. /\ [chain EXCEPT !.pc = "get"].snap = chain.snap
          /\ [chain EXCEPT !.pc = "set", !.snap = [val |-> server, has |-> serverHas]].snap
               = [val |-> server, has |-> serverHas]
      BY <1>p DEF Chain
    <3>3. [val |-> server, has |-> serverHas].val = server
      OBVIOUS
    <3> HIDE DEF NoChain
    <3> QED
      BY <1>n, <3>1, <3>2, <3>3
  <2> QED
    BY <2>1, <2>2, StayingKeepsNewest
<1> QED
  BY <1>1, <1>3, <1>4, <1>5, <1>6, <1>7, <1>9, <1>10, <1>11, ServerKeepsNewest,
     AnswersKeepNewest, RefreshKeepsNewest DEF BuilderNext

LEMMA InitNewest == BuilderInit => NewestInv
<1> SUFFICES ASSUME BuilderInit, NEW c \in Cells PROVE Newest(c, 0) /\ 0 \in Values
  BY DEF NewestInv
<1> QED
  BY EditsAssumption DEF BuilderInit, Newest, Saves, NoChain, NoSnap, Unsent, Values

\* A refresh sets back only a candidate whose debounced patch is pending, a cell
\* of which a save is being sent or was stored since the refresh asked, and one
\* a save of which was refused or overtaken since its last edit: never a meta
\* edit that is pending (useRankingBuilder.ts: refresh and the patch it applies
\* again).
THEOREM RollbacksHaveCause == BuilderSpec => RollbackHasCause
<1>1. ASSUME BuilderInv, NewestInv, RefreshSets, NEW c \in Shown, ui'[c] < ui[c]
      PROVE  \/ c \in Cands /\ pending[c] # Unsent
             \/ OnItsWay(c)
             \/ server[c] >= ui[c]
             \/ c \in failed
  <2>1. c \in Cells
    BY <1>1, BuilderParts DEF Shown, BuilderTypeOK
  <2>2. /\ ui[c] \in Nat /\ server[c] \in Nat /\ pending[c] \in Nat
        /\ chain.snap.val \in [Cells -> Values]
        /\ pending["order"] = Unsent
    BY <1>1, <2>1, BuilderParts DEF FlushSent
  <2>3. SUFFICES ASSUME c \notin failed PROVE (c \in Cands /\ pending[c] # Unsent)
                                             \/ OnItsWay(c) \/ server[c] >= ui[c]
    OBVIOUS
  <2>4. PICK v \in Values : Newest(c, v)
    BY <1>1, <2>1, <2>3 DEF NewestInv
  <2>5. v \in Nat /\ ui[c] <= v
    BY <2>4, EditsAssumption DEF Newest, Values
  <2>6. CASE server[c] = v
    BY <2>2, <2>5, <2>6
  <2>7. CASE \E o \in Saves(c) : o.at = "sent" /\ o.val = v
    BY <2>7 DEF OnItsWay, Saves
  <2>8. CASE pending[c] = v
    <3>1. CASE v = 0
      BY <2>2, <2>5, <3>1
    <3>2. CASE v # 0
      <4>1. ui' = Patched(chain.snap.val)
        BY <1>1, <2>2 DEF RefreshSets
      <4>2. c # "meta"
        BY <1>1, <2>1, <2>2, <2>5, <2>8, <3>2, <4>1 DEF Patched, Unsent
      <4> QED
        BY <2>1, <2>2, <2>8, <3>2, <4>2 DEF Cells, Unsent
    <3> QED
      BY <3>1, <3>2
  <2> QED
    BY <2>4, <2>6, <2>7, <2>8 DEF Newest
<1>2. BuilderInv /\ NewestInv /\ [BuilderNext]_webVars =>
         (Refreshed => \A c \in Shown : ui'[c] < ui[c] =>
             \/ c \in Cands /\ pending[c] # Unsent
             \/ OnItsWay(c)
             \/ server[c] >= ui[c]
             \/ c \in failed)
  BY <1>1, WhoEndsThem DEF Refreshed
<1> QED
  BY <1>2, InitBuilder, InitNewest, StepsKeepBuilder, StepsKeepNewest, PTL
  DEF BuilderSpec, RollbackHasCause

-----------------------------------------------------------------------------
(* The pages side by side.                                                 *)

\* A step of the web app is a step of the page that is open, and leaves the
\* others where they are.
LEMMA StepsOfPages ==
    ASSUME [Next]_vars
    PROVE  [BuilderNext]_webVars /\ [AutosaveNext]_editorVars /\ [StreamNext]_streamVars
  BY DEF Next, vars

\* The web app implements the specification of every page in it: the initial
\* states are theirs, and a step of one is a stutter of the others (the builder's,
\* the editor's and the strip's hooks share no state).
THEOREM EveryPageKeepsItsSpec == Spec => BuilderSpec /\ AutosaveSpec /\ StreamSpec
<1>1. Init => BuilderInit /\ AutosaveInit /\ StreamInit
  BY DEF Init
<1>2. [Next]_vars => [BuilderNext]_webVars /\ [AutosaveNext]_editorVars /\ [StreamNext]_streamVars
  BY StepsOfPages
<1> QED
  BY <1>1, <1>2, PTL DEF Spec, BuilderSpec, AutosaveSpec, StreamSpec

\* Whichever page is open, what the pages and the server keep has its type, and
\* no clip of the server is on a track it does not have (useRankingBuilder.ts,
\* timeline-sync.ts, job-stream.ts).
THEOREM WebTypeCorrect == Spec => []WebTypeOK
<1>1. BuilderTypeOK /\ AutosaveTypeOK /\ StreamTypeOK => WebTypeOK
  BY DEF WebTypeOK
<1> QED
  BY <1>1, EveryPageKeepsItsSpec, BuilderTypeCorrect, AutosaveTypeCorrect, StreamTypeCorrect, PTL
=============================================================================

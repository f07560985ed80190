--------------------------- MODULE Cluster_proofs ---------------------------
(***************************************************************************)
(* Proofs about the notifications that cross instances, for any number of  *)
(* instances and of sockets per player.                                    *)
(***************************************************************************)
EXTENDS Cluster, SequenceTheorems, TLAPS

----------------------------------------------------------------------------
(* The inductive invariant.                                                *)

\* A message about e is under way to p by way of instance i.
Flying(i, p, e) == \E k \in DOMAIN channel[i] : channel[i][k] = [event |-> e, to |-> p]

\* p has received it or may still do so by pub/sub.
Out(p, e) == Has(p, e) \/ \E i \in Instances : Flying(i, p, e)

\* The owner's coroutine has still to do it.
Due(d, e, p) == \E k \in DOMAIN agenda : agenda[k] = [do |-> d, event |-> e, to |-> p]

\* Before the pair is popped nothing has happened, ...
NothingBefore ==
    owner = Nowhere =>
        /\ agenda = <<>>
        /\ game = "none"
        /\ \A p \in Players : inbox[p] = <<>>
        /\ \A i \in Instances : channel[i] = <<>>

\* ... and the owner never sends anything to itself.
OwnChannelEmpty == owner \in Instances => channel[owner] = <<>>

\* Of one player and event the send comes first, of two events the earlier.
Follows(a, b) ==
    /\ a.do = "create" => b.do # "create"
    /\ a.do # "create" /\ b.do # "create" /\ a.to = b.to =>
           \/ Rank[a.event] < Rank[b.event]
           \/ a.event = b.event /\ a.do = "send" /\ b.do = "publish"

AgendaInOrder == \A j, k \in DOMAIN agenda : j < k => Follows(agenda[j], agenda[k])

\* The start of a game is not announced before the game is stored.
AgendaIsTrue ==
    \A k \in DOMAIN agenda :
        /\ agenda[k].do = "create" => game = "none"
        /\ agenda[k].do # "create" /\ agenda[k].event = "game_over" => game = "over"
        /\ agenda[k].do # "create" /\ agenda[k].event = "game_started" /\ game = "none" =>
               \E j \in DOMAIN agenda : j < k /\ agenda[j].do = "create"

OutIsTrue ==
    \A p \in Players :
        /\ Out(p, "game_started") => game # "none"
        /\ Out(p, "game_over") => game = "over"

\* What is out precedes what is still sent, and what is still published for
\* those whom the send has missed.
OutPrecedesDue ==
    \A p \in Players : \A e, f \in Events :
        /\ Out(p, e) /\ Due("send", f, p) => Rank[e] < Rank[f]
        /\ Out(p, e) /\ Due("publish", f, p) /\ p \in missed => Rank[e] < Rank[f]

\* A channel keeps the order, and a socket has received less than what is
\* under way to it.
ChannelsInOrder ==
    \A i \in Instances : \A j, k \in DOMAIN channel[i] :
        j < k /\ channel[i][j].to = channel[i][k].to =>
            Rank[channel[i][j].event] < Rank[channel[i][k].event]

ReceivedPrecedesFlying ==
    \A p \in Players : \A e, f \in Events :
        home[p] \in Instances /\ Has(p, e) /\ Flying(home[p], p, f) => Rank[e] < Rank[f]

Inv ==
    /\ TypeOK
    /\ NothingBefore
    /\ OwnChannelEmpty
    /\ AgendaInOrder
    /\ AgendaIsTrue
    /\ OutIsTrue
    /\ OutPrecedesDue
    /\ ChannelsInOrder
    /\ ReceivedPrecedesFlying
    /\ NewsInOrder

----------------------------------------------------------------------------
(* Sequences.                                                              *)

LEMMA AppendFacts ==
    ASSUME NEW S, NEW s \in Seq(S), NEW e \in S
    PROVE  /\ Append(s, e) \in Seq(S)
           /\ Len(s) \in Nat /\ DOMAIN s = 1..Len(s)
           /\ DOMAIN Append(s, e) = 1..(Len(s) + 1)
           /\ Append(s, e)[Len(s) + 1] = e
           /\ \A k \in DOMAIN s : Append(s, e)[k] = s[k]
<1>1. Len(s) \in Nat /\ DOMAIN s = 1..Len(s)
  BY LenProperties
<1> QED BY <1>1, AppendProperties, LenProperties

LEMMA TailFacts ==
    ASSUME NEW S, NEW s \in Seq(S), s # <<>>
    PROVE  /\ Tail(s) \in Seq(S) /\ Head(s) \in S
           /\ Len(s) \in Nat \ {0} /\ DOMAIN s = 1..Len(s)
           /\ 1 \in DOMAIN s /\ Head(s) = s[1]
           /\ DOMAIN Tail(s) = 1..(Len(s) - 1)
           /\ \A k \in DOMAIN Tail(s) : k + 1 \in DOMAIN s /\ Tail(s)[k] = s[k + 1]
<1>1. Len(s) \in Nat \ {0} /\ DOMAIN s = 1..Len(s)
  BY LenProperties, EmptySeq
<1>2. Tail(s) \in Seq(S) /\ Head(s) \in S /\ Len(Tail(s)) = Len(s) - 1
      /\ \A k \in 1..Len(Tail(s)) : Tail(s)[k] = s[k + 1]
  BY HeadTailProperties
<1>3. DOMAIN Tail(s) = 1..(Len(s) - 1)
  BY <1>2, LenProperties
<1>4. Head(s) = s[1]
  OBVIOUS
<1> QED BY <1>1, <1>2, <1>3, <1>4

----------------------------------------------------------------------------
(* Types.                                                                  *)

LEMMA RankFacts == \A e \in Events : Rank[e] \in Nat
BY DEF Events, Rank

LEMMA PlayersAre == Pair[1] \in Players /\ Pair[2] \in Players /\ Pair[1] # Pair[2]
BY ClusterAssumption DEF Players

LEMMA JobFacts ==
    ASSUME NEW a \in Jobs
    PROVE  \/ a = [do |-> "create"] /\ a.do = "create"
           \/ /\ a.do \in {"send", "publish"} /\ a.event \in Events /\ a.to \in Players
              /\ a = [do |-> a.do, event |-> a.event, to |-> a.to]
BY DEF Jobs

LEMMA SomeJobs ==
    \A k \in {1, 2}, e \in Events : Send(e, k) \in Jobs /\ Publish(e, k) \in Jobs
BY PlayersAre DEF Send, Publish, Jobs

LEMMA AnnounceFacts ==
    ASSUME NEW e \in Events
    PROVE  /\ Announce(e) \in Seq(Jobs)
           /\ DOMAIN Announce(e) = 1..4
           /\ Announce(e)[1] = Send(e, 1) /\ Announce(e)[2] = Publish(e, 1)
           /\ Announce(e)[3] = Send(e, 2) /\ Announce(e)[4] = Publish(e, 2)
BY SomeJobs DEF Announce

LEMMA ConcatFacts ==
    ASSUME NEW s \in Seq(Jobs), NEW t \in Seq(Jobs), Len(s) = 5, Len(t) = 4
    PROVE  /\ s \o t \in Seq(Jobs) /\ DOMAIN (s \o t) = 1..9
           /\ \A k \in 1..5 : (s \o t)[k] = s[k]
           /\ \A k \in 6..9 : (s \o t)[k] = t[k - 5]
<1>1. /\ s \o t \in Seq(Jobs) /\ Len(s \o t) = Len(s) + Len(t)
      /\ \A k \in 1..(Len(s) + Len(t)) : (s \o t)[k] = IF k <= Len(s) THEN s[k] ELSE t[k - Len(s)]
  BY ConcatProperties
<1>2. DOMAIN (s \o t) = 1..Len(s \o t)
  BY <1>1, LenProperties
<1> QED BY <1>1, <1>2

\* What _create_match() does before it calls create_game().
Matched ==
    <<Send("match_found", 1), Send("match_found", 2),
      Publish("match_found", 1), Publish("match_found", 2), [do |-> "create"]>>

LEMMA AgendaFacts ==
    /\ Agenda \in Seq(Jobs)
    /\ DOMAIN Agenda = 1..9
    /\ Agenda[1] = Send("match_found", 1) /\ Agenda[2] = Send("match_found", 2)
    /\ Agenda[3] = Publish("match_found", 1) /\ Agenda[4] = Publish("match_found", 2)
    /\ Agenda[5] = [do |-> "create"]
    /\ Agenda[6] = Send("game_started", 1) /\ Agenda[7] = Publish("game_started", 1)
    /\ Agenda[8] = Send("game_started", 2) /\ Agenda[9] = Publish("game_started", 2)
<1>1. Matched \in Seq(Jobs) /\ Len(Matched) = 5
  BY SomeJobs DEF Jobs, Events, Matched
<1>2. Announce("game_started") \in Seq(Jobs) /\ Len(Announce("game_started")) = 4
  BY SomeJobs DEF Announce, Events
<1>3. Agenda = Matched \o Announce("game_started")
  BY DEF Agenda, Matched
<1>4. /\ Agenda \in Seq(Jobs) /\ DOMAIN Agenda = 1..9
      /\ \A k \in 1..5 : Agenda[k] = Matched[k]
      /\ \A k \in 6..9 : Agenda[k] = Announce("game_started")[k - 5]
  BY <1>1, <1>2, <1>3, ConcatFacts
<1>5. Agenda[6] = Announce("game_started")[1] /\ Agenda[7] = Announce("game_started")[2]
      /\ Agenda[8] = Announce("game_started")[3] /\ Agenda[9] = Announce("game_started")[4]
  <2>1. 6 - 5 = 1 /\ 7 - 5 = 2 /\ 8 - 5 = 3 /\ 9 - 5 = 4
    OBVIOUS
  <2> DEFINE back == Announce("game_started")
  <2>2. /\ Agenda[6] = back[6 - 5] /\ Agenda[7] = back[7 - 5]
        /\ Agenda[8] = back[8 - 5] /\ Agenda[9] = back[9 - 5]
    <3> HIDE DEF back
    <3> QED BY <1>4 DEF back
  <2> QED BY <2>1, <2>2
<1>6. Agenda[1] = Matched[1] /\ Agenda[2] = Matched[2] /\ Agenda[3] = Matched[3]
      /\ Agenda[4] = Matched[4] /\ Agenda[5] = Matched[5]
  BY <1>4
<1> QED BY <1>4, <1>5, <1>6, AnnounceFacts DEF Matched, Events

\* What the owner starts with is in order and announces nothing too early.
LEMMA AgendaOrder ==
    /\ \A j, k \in DOMAIN Agenda : j < k => Follows(Agenda[j], Agenda[k])
    /\ \A k \in DOMAIN Agenda : Agenda[k].do # "create" =>
           /\ Agenda[k].event # "game_over"
           /\ Agenda[k].event = "game_started" => 5 < k
    /\ 5 \in DOMAIN Agenda /\ Agenda[5].do = "create"
<1>1. \A k \in DOMAIN Agenda :
          \/ k = 1 \/ k = 2 \/ k = 3 \/ k = 4 \/ k = 5 \/ k = 6 \/ k = 7 \/ k = 8 \/ k = 9
  BY AgendaFacts
<1>2. \A j, k \in DOMAIN Agenda : j < k => Follows(Agenda[j], Agenda[k])
  BY <1>1, AgendaFacts, PlayersAre DEF Follows, Send, Publish, Rank
<1> QED BY <1>1, <1>2, AgendaFacts DEF Send, Publish

LEMMA AnnounceOrder ==
    ASSUME NEW e \in Events
    PROVE  /\ \A j, k \in DOMAIN Announce(e) : j < k => Follows(Announce(e)[j], Announce(e)[k])
           /\ \A k \in DOMAIN Announce(e) : /\ Announce(e)[k].do \in {"send", "publish"}
                                           /\ Announce(e)[k].event = e
<1> DEFINE a == Announce(e)
<1>1. \A k \in DOMAIN a : k = 1 \/ k = 2 \/ k = 3 \/ k = 4
  BY AnnounceFacts
<1>2. a[1] = Send(e, 1) /\ a[2] = Publish(e, 1) /\ a[3] = Send(e, 2) /\ a[4] = Publish(e, 2)
  BY AnnounceFacts
<1> HIDE DEF a
<1>3. \A k \in DOMAIN a : a[k].do \in {"send", "publish"} /\ a[k].event = e
  BY <1>1, <1>2 DEF Send, Publish
<1>4. \A j, k \in DOMAIN a : j < k => Follows(a[j], a[k])
  BY <1>1, <1>2, PlayersAre DEF Follows, Send, Publish
<1> QED BY <1>3, <1>4 DEF a

Messages == [event : Events, to : Players]

LEMMA TypeStep ==
    ASSUME TypeOK, Next
    PROVE  TypeOK'
<1>. USE DEF TypeOK
<1>0. /\ channel \in [Instances -> Seq(Messages)] /\ <<>> \in Seq(Messages)
      /\ <<>> \in Seq(Events) /\ <<>> \in Seq(Jobs)
  BY EmptySeq DEF Messages
<1>1. ASSUME NEW i \in Instances, Starts(i) PROVE TypeOK'
  BY <1>1 DEF Starts, Statuses
<1>2. ASSUME NEW i \in Instances, Stops(i) PROVE TypeOK'
  <2>1. After(status[i]) \in Statuses
    BY <1>2 DEF Stops, After, Statuses
  <2>2. agenda' \in Seq(Jobs) /\ disturbed' \subseteq Players
    BY <1>0, <1>2 DEF Stops
  <2>3. channel' \in [Instances -> Seq(Messages)]
    <3> HIDE DEF TypeOK
    <3> QED BY <1>0, <1>2 DEF Stops
  <2>4. game' \in {"none", "running", "over", "lost"}
    BY <1>2 DEF Stops
  <2> QED BY <1>2, <2>1, <2>2, <2>3, <2>4 DEF Stops, Messages
<1>3. ASSUME NEW i \in Instances, Crashes(i) PROVE TypeOK'
  <2>1. agenda' \in Seq(Jobs) /\ disturbed' \subseteq Players /\ game' \in {"none", "running", "over", "lost"}
    BY <1>0, <1>3 DEF Crashes
  <2>2. channel' \in [Instances -> Seq(Messages)]
    <3> HIDE DEF TypeOK
    <3> QED BY <1>0, <1>3 DEF Crashes
  <2>3. former' \in [Players -> [Instances -> FormerStates]]
    BY <1>3 DEF Crashes, FormerStates
  <2> QED BY <1>3, <2>1, <2>2, <2>3 DEF Crashes, Statuses, Messages
<1>4. ASSUME NEW p \in Players, NEW i \in Instances, Connects(p, i) PROVE TypeOK'
  <2>1. inbox' \in [Players -> Seq(Events)]
    BY <1>0, <1>4 DEF Connects
  <2>2. connects' \in [Players -> Nat] /\ \A q \in Players : connects'[q] <= MaxConnects[q]
    BY <1>4, ClusterAssumption DEF Connects, Players
  <2>3. former' \in [Players -> [Instances -> FormerStates]]
    BY <1>4 DEF Connects, Closed, FormerStates
  <2> QED BY <1>4, <2>1, <2>2, <2>3 DEF Connects
<1>5. ASSUME NEW p \in Players, Loses(p) PROVE TypeOK'
  <2>1. home[p] \in Instances /\ "open" \in FormerStates
    BY <1>5 DEF Loses, FormerStates
  <2> QED BY <1>5, <2>1 DEF Loses
<1>13. ASSUME NEW p \in Players, NEW i \in Instances, Notices(p, i) PROVE TypeOK'
  <2>1. "none" \in FormerStates
    BY DEF FormerStates
  <2> QED BY <1>13, <2>1 DEF Notices
<1>14. ASSUME Raises PROVE TypeOK'
  <2>1. agenda' \in Seq(Jobs) /\ disturbed' \subseteq Players
    BY <1>0, <1>14 DEF Raises
  <2> QED BY <1>14, <2>1 DEF Raises
<1>6. ASSUME NEW p \in Players, Searches(p) PROVE TypeOK'
  BY <1>6 DEF Searches
<1>7. ASSUME NEW p \in Players, Moves(p) PROVE TypeOK'
  <2>1. agenda' \in Seq(Jobs)
    BY <1>0, <1>7, AnnounceFacts DEF Moves, Events
  <2> QED BY <1>7, <2>1 DEF Moves
<1>8. ASSUME NEW p \in Players, Forfeits(p) PROVE TypeOK'
  <2>1. agenda' \in Seq(Jobs)
    BY <1>8, AnnounceFacts DEF Forfeits, Events
  <2> QED BY <1>8, <2>1 DEF Forfeits
<1>9. ASSUME NEW i \in Instances, Pops(i) PROVE TypeOK'
  BY <1>9, AgendaFacts DEF Pops
<1>10. ASSUME Works PROVE TypeOK'
  <2>1. Job \in Jobs /\ agenda' \in Seq(Jobs)
    <3>1. agenda \in Seq(Jobs) /\ agenda # <<>> /\ agenda' = Tail(agenda)
      BY <1>10 DEF Works, Creates, Sends, Publishes, Working
    <3> QED BY <3>1, TailFacts DEF Job
  <2>2. CASE Creates
    BY <2>1, <2>2 DEF Creates
  <2>3. CASE Sends
    <3>1. Job.event \in Events /\ Job.to \in Players
      BY <2>1, <2>3, JobFacts DEF Sends
    <3>2. Append(inbox[Job.to], Job.event) \in Seq(Events)
      BY <3>1, AppendFacts
    <3>3. inbox' \in [Players -> Seq(Events)]
      BY <2>3, <3>1, <3>2 DEF Sends, Receives
    <3>4. former' \in [Players -> [Instances -> FormerStates]]
      <4>1. \A x \in FormerStates : Closed(x) \in FormerStates
        BY DEF Closed, FormerStates
      <4>2. CASE former' = [former EXCEPT ![Job.to][owner] = Closed(@)]
        BY <3>1, <4>1, <4>2
      <4>3. CASE former' = former
        BY <4>3
      <4> QED BY <2>3, <4>2, <4>3 DEF Sends
    <3>5. disturbed' \subseteq Players /\ missed' \subseteq Players
      BY <2>3, <3>1 DEF Sends
    <3> HIDE DEF TypeOK
    <3> QED BY <2>1, <2>3, <3>3, <3>4, <3>5 DEF Sends, TypeOK
  <2>4. CASE Publishes
    <3>1. Message \in Messages
      BY <2>1, <2>4, JobFacts DEF Publishes, Message, Messages
    <3>2. \A i \in Instances : Append(channel[i], Message) \in Seq(Messages)
      BY <3>1, AppendFacts DEF Messages
    <3>3. channel' \in [Instances -> Seq(Messages)]
      BY <2>4, <3>2 DEF Publishes, Messages
    <3> QED BY <2>1, <2>4, <3>3 DEF Publishes, Messages
  <2> QED BY <1>10, <2>2, <2>3, <2>4 DEF Works
<1>11. ASSUME NEW i \in Instances, Listens(i) PROVE TypeOK'
  <2>1. /\ channel[i] \in Seq(Messages) /\ channel[i] # <<>>
    BY <1>11 DEF Listens, Messages
  <2>2. Head(channel[i]) \in Messages /\ Tail(channel[i]) \in Seq(Messages)
    BY <2>1, TailFacts
  <2>3. channel' \in [Instances -> Seq(Messages)]
    BY <1>11, <2>2 DEF Listens, Messages
  <2> DEFINE m == Head(channel[i])
  <2>4. m.event \in Events /\ m.to \in Players
    BY <2>2 DEF Messages
  <2>5. Append(inbox[m.to], m.event) \in Seq(Events)
    BY <2>4, AppendFacts
  <2>6. inbox' \in [Players -> Seq(Events)]
    BY <1>11, <2>4, <2>5 DEF Listens, Receives
  <2> QED BY <1>11, <2>3, <2>6 DEF Listens, Messages
<1>12. ASSUME NEW i \in Instances, Resets(i) PROVE TypeOK'
  <2>1. \A k \in DOMAIN channel[i] : channel[i][k] \in Messages
    <3>1. channel[i] \in Seq(Messages)
      BY <1>0
    <3> QED BY <3>1, ElementOfSeq, LenProperties
  <2>2. disturbed' \subseteq Players
    BY <1>12, <2>1 DEF Resets, Messages
  <2>3. channel' \in [Instances -> Seq(Messages)]
    <3> HIDE DEF TypeOK
    <3> QED BY <1>0, <1>12 DEF Resets
  <2> QED BY <1>12, <2>2, <2>3 DEF Resets, Messages
<1> QED BY <1>1, <1>2, <1>3, <1>4, <1>5, <1>6, <1>7, <1>8, <1>9, <1>10, <1>11, <1>12,
          <1>13, <1>14 DEF Next

----------------------------------------------------------------------------
(* The invariant is preserved.                                             *)

\* Steps that lose or forget and send nothing: processes start, stop and
\* die, players come, go and search, connections are reset, calls fail.
LEMMA LosesKeeps ==
    ASSUME Inv, TypeOK',
           owner' = owner, missed' = missed,
           agenda' = agenda \/ agenda' = <<>>,
           \/ game' = game
           \/ game = "running" /\ game' = "lost"
           \/ game = "none" /\ game' = "running" /\ agenda' = <<>> /\ owner # Nowhere,
           \A p \in Players : inbox'[p] = inbox[p] \/ inbox'[p] = <<>>,
           \A i \in Instances : channel'[i] = channel[i] \/ channel'[i] = <<>>,
           \A p \in Players : home'[p] \in Instances => home'[p] = home[p] \/ inbox'[p] = <<>>
    PROVE  Inv'
<1>. USE DEF Inv
<1>1. \A p \in Players, e \in Events : Has(p, e)' => Has(p, e) /\ inbox'[p] = inbox[p]
  BY DEF Has
<1>2. \A i \in Instances, p \in Players, e \in Events : Flying(i, p, e)' => Flying(i, p, e)
  BY DEF Flying
<1>3. \A p \in Players, e \in Events : Out(p, e)' => Out(p, e)
  BY <1>1, <1>2 DEF Out
<1>4. \A d \in {"send", "publish"}, e \in Events, p \in Players : Due(d, e, p)' => Due(d, e, p)
  BY DEF Due
<1>5. NothingBefore' /\ OwnChannelEmpty'
  BY DEF NothingBefore, OwnChannelEmpty
<1>6. AgendaInOrder'
  BY DEF AgendaInOrder
<1>7. AgendaIsTrue'
  BY DEF AgendaIsTrue
<1>8. OutIsTrue'
  BY <1>3 DEF OutIsTrue, Events
<1>9. OutPrecedesDue'
  BY <1>3, <1>4 DEF OutPrecedesDue
<1>10. ChannelsInOrder'
  BY DEF ChannelsInOrder
<1>11. ReceivedPrecedesFlying'
  BY <1>1, <1>2 DEF ReceivedPrecedesFlying, Has
<1>12. NewsInOrder'
  BY DEF NewsInOrder
<1> QED BY <1>5, <1>6, <1>7, <1>8, <1>9, <1>10, <1>11, <1>12

LEMMA PopsKeeps ==
    ASSUME Inv, TypeOK', NEW i \in Instances, Pops(i)
    PROVE  Inv'
<1>. USE DEF Inv
<1>1. /\ owner = Nowhere /\ owner' = i /\ agenda' = Agenda /\ game' = "none"
      /\ \A p \in Players : inbox'[p] = <<>>
      /\ \A j \in Instances : channel'[j] = <<>>
  BY DEF Pops, NothingBefore
<1>2. \A p \in Players, e \in Events : ~Has(p, e)' /\ ~Out(p, e)'
  BY <1>1 DEF Has, Out, Flying
<1>3. NothingBefore' /\ OwnChannelEmpty'
  BY <1>1, ClusterAssumption DEF NothingBefore, OwnChannelEmpty
<1>4. AgendaInOrder'
  BY <1>1, AgendaOrder DEF AgendaInOrder, Follows
<1>5. AgendaIsTrue'
  BY <1>1, AgendaOrder DEF AgendaIsTrue
<1>6. OutIsTrue' /\ OutPrecedesDue' /\ ReceivedPrecedesFlying'
  BY <1>2 DEF OutIsTrue, OutPrecedesDue, ReceivedPrecedesFlying, Events
<1>7. ChannelsInOrder' /\ NewsInOrder'
  BY <1>1 DEF ChannelsInOrder, NewsInOrder
<1> QED BY <1>3, <1>4, <1>5, <1>6, <1>7

\* The game ends: nobody has heard of that, and nothing else is to be sent.
LEMMA EndsKeeps ==
    ASSUME Inv, TypeOK', game = "running", game' = "over",
           agenda' = Announce("game_over") \/ agenda' = <<>>,
           UNCHANGED <<home, inbox, owner, missed, channel>>
    PROVE  Inv'
<1>. USE DEF Inv
<1>1. "game_over" \in Events
  BY DEF Events
<1>2. \A p \in Players, e \in Events : Out(p, e)' => Out(p, e)
  BY DEF Has, Out, Flying
<1>3. NothingBefore' /\ OwnChannelEmpty'
  BY DEF NothingBefore, OwnChannelEmpty
<1>4. AgendaInOrder'
  BY <1>1, AnnounceOrder DEF AgendaInOrder, Follows
<1>5. AgendaIsTrue'
  BY <1>1, AnnounceOrder DEF AgendaIsTrue
<1>6. OutIsTrue'
  BY <1>1, <1>2 DEF OutIsTrue, Events
<1>7. \A d \in {"send", "publish"}, f \in Events, p \in Players : Due(d, f, p)' => f = "game_over"
  BY <1>1, AnnounceOrder DEF Due
<1>8. \A p \in Players, e \in Events : Out(p, e)' => e \in {"match_found", "game_started"}
  BY <1>2 DEF OutIsTrue, Events
<1>9. OutPrecedesDue'
  BY <1>7, <1>8 DEF OutPrecedesDue, Rank
<1>10. ChannelsInOrder' /\ NewsInOrder'
  BY DEF ChannelsInOrder, NewsInOrder
<1>11. ReceivedPrecedesFlying'
  BY DEF ReceivedPrecedesFlying, Has, Flying
<1> QED BY <1>3, <1>4, <1>5, <1>6, <1>9, <1>10, <1>11

\* Redis raises: whatever was still to be done is not.
LEMMA RaisesKeeps ==
    ASSUME Inv, TypeOK', Raises
    PROVE  Inv'
<1>1. agenda \in Seq(Jobs) /\ agenda # <<>> /\ agenda' = <<>>
  BY DEF Inv, TypeOK, Raises
<1>2. 1 \in DOMAIN agenda /\ Job = agenda[1]
  BY <1>1, TailFacts DEF Job
<1>3. Job.do = "create" => game = "none"
  BY <1>2 DEF Inv, AgendaIsTrue
<1>4. owner # Nowhere
  BY <1>1 DEF Inv, NothingBefore
<1>5. game' = game \/ (game = "none" /\ game' = "running")
  BY <1>3 DEF Raises
<1>6. UNCHANGED <<home, inbox, owner, missed, channel>>
  BY DEF Raises
<1> QED BY <1>1, <1>4, <1>5, <1>6, LosesKeeps

\* What is known of the job at the head of the agenda and of the rest.
LEMMA WorkingFacts ==
    ASSUME Inv, Working
    PROVE  /\ owner \in Instances
           /\ Job \in Jobs
           /\ Job.do = "create" => game = "none"
           /\ Job.do # "create" => /\ Job.event \in Events /\ Job.to \in Players
                                   /\ Due(Job.do, Job.event, Job.to)
                                   /\ Job.event = "game_started" => game # "none"
                                   /\ Job.event = "game_over" => game = "over"
           /\ \A k \in DOMAIN agenda' : /\ k + 1 \in DOMAIN agenda
                                        /\ agenda'[k] = agenda[k + 1]
                                        /\ Follows(Job, agenda'[k])
           /\ \A d \in {"send", "publish"}, e \in Events, p \in Players :
                  Due(d, e, p)' =>
                      /\ Due(d, e, p)
                      /\ Job.do # "create" /\ Job.to = p =>
                             \/ Rank[Job.event] < Rank[e]
                             \/ Job.event = e /\ Job.do = "send" /\ d = "publish"
           /\ AgendaInOrder'
<1>1. /\ agenda \in Seq(Jobs) /\ agenda # <<>> /\ agenda' = Tail(agenda)
      /\ owner \in Instances
  BY DEF Inv, TypeOK, Working, NothingBefore
<1>2. /\ Job \in Jobs /\ 1 \in DOMAIN agenda /\ Job = agenda[1]
      /\ Len(agenda) \in Nat /\ DOMAIN agenda = 1..Len(agenda)
      /\ DOMAIN agenda' = 1..(Len(agenda) - 1)
      /\ \A k \in DOMAIN agenda' : k + 1 \in DOMAIN agenda /\ agenda'[k] = agenda[k + 1]
  BY <1>1, TailFacts DEF Job
<1>3. \A k \in DOMAIN agenda' : Follows(Job, agenda'[k])
  <2>1. \A k \in DOMAIN agenda' : 1 < k + 1
    BY <1>2
  <2> QED BY <1>2, <2>1 DEF Inv, AgendaInOrder
<1>4. Job.do = "create" => game = "none"
  BY <1>2 DEF Inv, AgendaIsTrue
<1>5. Job.do # "create" => /\ Job.event \in Events /\ Job.to \in Players
                           /\ Due(Job.do, Job.event, Job.to)
  BY <1>2, JobFacts DEF Due
<1>6. Job.do # "create" => /\ Job.event = "game_started" => game # "none"
                           /\ Job.event = "game_over" => game = "over"
  BY <1>2 DEF Inv, AgendaIsTrue
<1>7. ASSUME NEW d \in {"send", "publish"}, NEW e \in Events, NEW p \in Players, Due(d, e, p)'
      PROVE  /\ Due(d, e, p)
             /\ Job.do # "create" /\ Job.to = p =>
                    \/ Rank[Job.event] < Rank[e]
                    \/ Job.event = e /\ Job.do = "send" /\ d = "publish"
  <2>1. PICK k \in DOMAIN agenda' : agenda'[k] = [do |-> d, event |-> e, to |-> p]
    BY <1>7 DEF Due
  <2>2. Due(d, e, p)
    BY <1>2, <2>1 DEF Due
  <2>3. Follows(Job, [do |-> d, event |-> e, to |-> p])
    BY <1>3, <2>1
  <2> QED BY <2>2, <2>3 DEF Follows
<1>8. AgendaInOrder'
  <2>1. \A j, k \in DOMAIN agenda' : j < k => j + 1 < k + 1
    BY <1>2
  <2>2. \A j, k \in DOMAIN agenda' : j < k => Follows(agenda'[j], agenda'[k])
    BY <1>2, <2>1 DEF Inv, AgendaInOrder
  <2> QED BY <2>2 DEF AgendaInOrder, Follows
<1> QED BY <1>1, <1>2, <1>3, <1>4, <1>5, <1>6, <1>7, <1>8

\* Only the creation of the game may not be passed over in silence.
LEMMA AgendaStaysTrue ==
    ASSUME Inv, Working, Job.do # "create", game' = game
    PROVE  AgendaIsTrue'
<1>1. SUFFICES ASSUME NEW k \in DOMAIN agenda'
               PROVE  /\ agenda'[k].do = "create" => game = "none"
                      /\ agenda'[k].do # "create" /\ agenda'[k].event = "game_over" => game = "over"
                      /\ agenda'[k].do # "create" /\ agenda'[k].event = "game_started" /\ game = "none" =>
                             \E j \in DOMAIN agenda' : j < k /\ agenda'[j].do = "create"
  BY DEF AgendaIsTrue
<1>2. k + 1 \in DOMAIN agenda /\ agenda'[k] = agenda[k + 1]
  BY WorkingFacts
<1>3. CASE agenda'[k].do # "create" /\ agenda'[k].event = "game_started" /\ game = "none"
  <2>1. PICK j \in DOMAIN agenda : j < k + 1 /\ agenda[j].do = "create"
    BY <1>2, <1>3 DEF Inv, AgendaIsTrue
  <2>2. /\ agenda \in Seq(Jobs) /\ agenda # <<>> /\ agenda' = Tail(agenda)
    BY DEF Inv, TypeOK, Working
  <2>3. /\ Job = agenda[1] /\ Len(agenda) \in Nat /\ DOMAIN agenda = 1..Len(agenda)
        /\ DOMAIN agenda' = 1..(Len(agenda) - 1)
        /\ \A l \in DOMAIN agenda' : agenda'[l] = agenda[l + 1]
    BY <2>2, TailFacts DEF Job
  <2>4. j # 1
    BY <2>1, <2>3
  <2>5. j - 1 \in DOMAIN agenda' /\ j - 1 < k /\ (j - 1) + 1 = j
    BY <1>2, <2>1, <2>3, <2>4
  <2>6. agenda'[j - 1].do = "create"
    BY <2>1, <2>3, <2>5
  <2> QED BY <1>2, <2>5, <2>6, <1>3
<1>4. CASE ~(agenda'[k].do # "create" /\ agenda'[k].event = "game_started" /\ game = "none")
  BY <1>2, <1>4 DEF Inv, AgendaIsTrue
<1> QED BY <1>3, <1>4

LEMMA CreatesKeeps ==
    ASSUME Inv, TypeOK', Creates
    PROVE  Inv'
<1>1. Working /\ Job.do = "create" /\ game = "none" /\ game' = "running"
  BY WorkingFacts DEF Creates
<1>2. UNCHANGED <<home, inbox, owner, missed, channel>>
  BY DEF Creates
<1>3. NothingBefore' /\ OwnChannelEmpty' /\ AgendaInOrder'
  BY <1>1, <1>2, WorkingFacts, ClusterAssumption DEF NothingBefore, OwnChannelEmpty, Inv
<1>4. AgendaIsTrue'
  <2>1. \A k \in DOMAIN agenda' : agenda'[k].do # "create"
    BY <1>1, WorkingFacts DEF Follows
  <2>2. \A k \in DOMAIN agenda' : agenda'[k].event # "game_over"
    BY <1>1, <2>1, WorkingFacts DEF Inv, AgendaIsTrue
  <2> QED BY <1>1, <2>1, <2>2 DEF AgendaIsTrue
<1>5. \A p \in Players, e \in Events : Out(p, e)' => Out(p, e)
  BY <1>2 DEF Has, Out, Flying
<1>6. OutIsTrue'
  BY <1>1, <1>5 DEF OutIsTrue, Inv, Events
<1>7. OutPrecedesDue'
  BY <1>1, <1>2, <1>5, WorkingFacts DEF OutPrecedesDue, Inv
<1>8. ChannelsInOrder' /\ NewsInOrder' /\ ReceivedPrecedesFlying'
  BY <1>2 DEF ChannelsInOrder, NewsInOrder, ReceivedPrecedesFlying, Has, Flying, Inv
<1> QED BY <1>3, <1>4, <1>6, <1>7, <1>8 DEF Inv

\* A socket that receives an event later than all it has received.
LEMMA ReceivesInOrder ==
    ASSUME TypeOK, NewsInOrder, NEW p \in Players, NEW e \in Events, Receives(p, e),
           \A f \in Events : Has(p, f) => Rank[f] < Rank[e]
    PROVE  /\ NewsInOrder'
           /\ \A q \in Players, f \in Events : Has(q, f)' => Has(q, f) \/ (q = p /\ f = e)
<1>1. inbox[p] \in Seq(Events) /\ inbox' = [inbox EXCEPT ![p] = Append(inbox[p], e)]
  BY DEF TypeOK, Receives
<1>2. /\ Len(inbox[p]) \in Nat /\ DOMAIN inbox[p] = 1..Len(inbox[p])
      /\ DOMAIN inbox'[p] = 1..(Len(inbox[p]) + 1)
      /\ inbox'[p][Len(inbox[p]) + 1] = e
      /\ \A k \in DOMAIN inbox[p] : inbox'[p][k] = inbox[p][k] /\ inbox[p][k] \in Events
      /\ \A q \in Players \ {p} : inbox'[q] = inbox[q]
  <2>1. inbox'[p] = Append(inbox[p], e) /\ \A q \in Players \ {p} : inbox'[q] = inbox[q]
    BY <1>1 DEF TypeOK
  <2>2. \A k \in DOMAIN inbox[p] : inbox[p][k] \in Events
    BY <1>1, ElementOfSeq, LenProperties
  <2> QED BY <1>1, <2>1, <2>2, AppendFacts
<1>3. \A k \in DOMAIN inbox[p] : Rank[inbox[p][k]] < Rank[e]
  BY <1>2 DEF Has
<1>4. \A j, k \in DOMAIN inbox'[p] : j < k => Rank[inbox'[p][j]] < Rank[inbox'[p][k]]
  <2>1. \A k \in DOMAIN inbox'[p] : k \in DOMAIN inbox[p] \/ k = Len(inbox[p]) + 1
    BY <1>2
  <2>2. \A j, k \in DOMAIN inbox'[p] : j < k => j \in DOMAIN inbox[p]
    BY <1>2
  <2> QED BY <1>2, <1>3, <2>1, <2>2 DEF NewsInOrder
<1>5. NewsInOrder'
  BY <1>2, <1>4 DEF NewsInOrder
<1>6. \A q \in Players, f \in Events : Has(q, f)' => Has(q, f) \/ (q = p /\ f = e)
  <2>1. \A k \in DOMAIN inbox'[p] : k \in DOMAIN inbox[p] \/ inbox'[p][k] = e
    BY <1>2
  <2> QED BY <1>2, <2>1 DEF Has
<1> QED BY <1>5, <1>6

LEMMA SendsKeeps ==
    ASSUME Inv, TypeOK', Sends
    PROVE  Inv'
<1>1. Working /\ Job.do = "send" /\ UNCHANGED <<home, owner, game, channel>>
  BY DEF Sends
<1>2. PICK p \in Players, e \in Events : p = Job.to /\ e = Job.event
  BY <1>1, WorkingFacts
<1>3. /\ owner \in Instances /\ Due("send", e, p)
      /\ e = "game_started" => game # "none"
      /\ e = "game_over" => game = "over"
      /\ AgendaInOrder'
      /\ \A d \in {"send", "publish"}, g \in Events, q \in Players : Due(d, g, q)' => Due(d, g, q)
  BY <1>2, <1>1, WorkingFacts
<1>4. AgendaIsTrue'
  BY <1>1, AgendaStaysTrue
<1>5. \A g \in Events : Due("send", g, p)' => Rank[e] < Rank[g]
  BY <1>2, <1>1, WorkingFacts
<1>6. \A g \in Events : Due("publish", g, p)' => Rank[e] < Rank[g] \/ e = g
  BY <1>2, <1>1, WorkingFacts
<1>7. \A f \in Events : Out(p, f) => Rank[f] < Rank[e]
  BY <1>3 DEF Inv, OutPrecedesDue
<1>8. \A i \in Instances, q \in Players, f \in Events : Flying(i, q, f)' <=> Flying(i, q, f)
  BY <1>1 DEF Flying
<1>9. NothingBefore' /\ OwnChannelEmpty' /\ ChannelsInOrder'
  BY <1>1, <1>3, ClusterAssumption DEF NothingBefore, OwnChannelEmpty, ChannelsInOrder, Inv
<1>10. CASE Local(owner, p)
  <2>1. Receives(p, e) /\ missed' = missed \ {p}
    BY <1>2, <1>10 DEF Sends
  <2>2. \A f \in Events : Has(p, f) => Rank[f] < Rank[e]
    BY <1>7 DEF Out
  <2>3. /\ NewsInOrder'
        /\ \A q \in Players, f \in Events : Has(q, f)' => Has(q, f) \/ (q = p /\ f = e)
    BY <1>3, <2>1, <2>2, ReceivesInOrder DEF Inv
  <2>4. \A q \in Players, f \in Events : Out(q, f)' => Out(q, f) \/ (q = p /\ f = e)
    BY <1>8, <2>3 DEF Out
  <2>5. OutIsTrue'
    BY <1>1, <1>3, <2>4 DEF OutIsTrue, Inv, Events
  <2>6. OutPrecedesDue'
    <3>1. ASSUME NEW q \in Players, NEW f \in Events, NEW g \in Events,
                 Out(q, f)', Due("send", g, q)'
          PROVE  Rank[f] < Rank[g]
      <4>1. Due("send", g, q)
        BY <1>3, <3>1
      <4>2. CASE Out(q, f)
        BY <4>1, <4>2 DEF OutPrecedesDue, Inv
      <4>3. CASE q = p /\ f = e
        BY <1>5, <3>1, <4>3
      <4> QED BY <2>4, <3>1, <4>2, <4>3
    <3>2. \A q \in Players, f, g \in Events :
              Out(q, f)' /\ Due("publish", g, q)' /\ q \in missed' => Rank[f] < Rank[g]
      BY <1>3, <2>1, <2>4 DEF OutPrecedesDue, Inv
    <3> QED BY <3>1, <3>2 DEF OutPrecedesDue
  <2>7. ReceivedPrecedesFlying'
    <3>1. \A q \in Players, f \in Events : Flying(owner, q, f) => FALSE
      BY <1>3 DEF Flying, OwnChannelEmpty, Inv
    <3>2. \A q \in Players, f, g \in Events :
              home[q] \in Instances /\ Has(q, f)' /\ Flying(home[q], q, g) => Rank[f] < Rank[g]
      BY <1>10, <2>3, <3>1 DEF ReceivedPrecedesFlying, Inv, Local
    <3> QED BY <1>1, <3>2 DEF ReceivedPrecedesFlying, Flying
  <2> QED BY <1>3, <1>4, <1>9, <2>3, <2>5, <2>6, <2>7 DEF Inv
<1>11. CASE ~Local(owner, p)
  <2>1. inbox' = inbox /\ (missed' = missed \cup {p} \/ missed' = missed \ {p})
    BY <1>2, <1>11 DEF Sends
  <2>2. \A q \in Players, f \in Events : Out(q, f)' => Out(q, f)
    BY <1>1, <2>1 DEF Has, Out, Flying
  <2>3. NewsInOrder' /\ ReceivedPrecedesFlying'
    BY <1>1, <2>1 DEF NewsInOrder, ReceivedPrecedesFlying, Inv, Has, Flying
  <2>4. OutIsTrue'
    BY <1>1, <2>2 DEF OutIsTrue, Inv, Events
  <2>5. OutPrecedesDue'
    <3>1. \A q \in Players, f, g \in Events : Out(q, f)' /\ Due("send", g, q)' => Rank[f] < Rank[g]
      BY <1>3, <2>2 DEF OutPrecedesDue, Inv
    <3>2. ASSUME NEW f \in Events, NEW g \in Events, Out(p, f), Due("publish", g, p)'
          PROVE  Rank[f] < Rank[g]
      <4>1. Rank[e] < Rank[g] \/ e = g
        BY <1>6, <3>2
      <4>2. Rank[f] < Rank[e]
        BY <1>7, <3>2
      <4> QED BY <4>1, <4>2, RankFacts
    <3>3. \A q \in Players, f, g \in Events :
              Out(q, f)' /\ Due("publish", g, q)' /\ q \in missed' => Rank[f] < Rank[g]
      BY <1>3, <2>1, <2>2, <3>2 DEF OutPrecedesDue, Inv
    <3> QED BY <3>1, <3>3 DEF OutPrecedesDue
  <2> QED BY <1>3, <1>4, <1>9, <2>3, <2>4, <2>5 DEF Inv
<1> QED BY <1>10, <1>11

LEMMA PublishesKeeps ==
    ASSUME Inv, TypeOK', Publishes
    PROVE  Inv'
<1>1. Working /\ Job.do = "publish" /\ UNCHANGED <<home, inbox, owner, missed, game>>
  BY DEF Publishes
<1>2. PICK p \in Players, e \in Events : p = Job.to /\ e = Job.event
  BY <1>1, WorkingFacts
<1>3. /\ owner \in Instances /\ Due("publish", e, p)
      /\ e = "game_started" => game # "none"
      /\ e = "game_over" => game = "over"
      /\ AgendaInOrder'
      /\ \A d \in {"send", "publish"}, g \in Events, q \in Players : Due(d, g, q)' => Due(d, g, q)
  BY <1>1, <1>2, WorkingFacts
<1>4. AgendaIsTrue'
  BY <1>1, AgendaStaysTrue
<1>5. \A d \in {"send", "publish"}, g \in Events : Due(d, g, p)' => Rank[e] < Rank[g]
  BY <1>1, <1>2, WorkingFacts
<1>6. p \in missed => \A f \in Events : Out(p, f) => Rank[f] < Rank[e]
  BY <1>3 DEF Inv, OutPrecedesDue
<1> DEFINE m == [event |-> e, to |-> p]
<1>7. m \in Messages /\ channel \in [Instances -> Seq(Messages)]
  BY DEF Messages, Inv, TypeOK
<1>8. \A i \in Instances : \/ channel'[i] = channel[i]
                           \/ i # owner /\ p \in missed /\ channel'[i] = Append(channel[i], m)
  BY <1>2 DEF Publishes, Message
<1>9. ASSUME NEW i \in Instances, channel'[i] = Append(channel[i], m)
      PROVE  /\ Len(channel[i]) \in Nat /\ DOMAIN channel[i] = 1..Len(channel[i])
             /\ DOMAIN channel'[i] = 1..(Len(channel[i]) + 1)
             /\ channel'[i][Len(channel[i]) + 1] = m
             /\ \A k \in DOMAIN channel[i] : channel'[i][k] = channel[i][k] /\ channel[i][k] \in Messages
  <2>1. channel[i] \in Seq(Messages)
    BY <1>7
  <2>2. \A k \in DOMAIN channel[i] : channel[i][k] \in Messages
    BY <2>1, ElementOfSeq, LenProperties
  <2> HIDE DEF m
  <2> QED BY <1>7, <1>9, <2>1, <2>2, AppendFacts
<1>10. ASSUME NEW i \in Instances, NEW q \in Players, NEW f \in Events, Flying(i, q, f)'
       PROVE  Flying(i, q, f) \/ (p \in missed /\ q = p /\ f = e)
  <2>1. CASE channel'[i] = channel[i]
    BY <1>10, <2>1 DEF Flying
  <2>2. CASE channel'[i] = Append(channel[i], m) /\ p \in missed
    <3>1. PICK k \in DOMAIN channel'[i] : channel'[i][k] = [event |-> f, to |-> q]
      BY <1>10 DEF Flying
    <3>2. k \in DOMAIN channel[i] \/ k = Len(channel[i]) + 1
      BY <1>9, <2>2
    <3>3. CASE k \in DOMAIN channel[i]
      BY <1>9, <2>2, <3>1, <3>3 DEF Flying
    <3>4. CASE k = Len(channel[i]) + 1
      BY <1>9, <2>2, <3>1, <3>4
    <3> QED BY <3>2, <3>3, <3>4
  <2> QED BY <1>8, <2>1, <2>2
<1>11. ASSUME NEW q \in Players, NEW f \in Events, Out(q, f)'
       PROVE  Out(q, f) \/ (p \in missed /\ q = p /\ f = e)
  BY <1>1, <1>10, <1>11 DEF Out, Has
<1>12. NothingBefore' /\ OwnChannelEmpty' /\ NewsInOrder'
  BY <1>1, <1>3, <1>8, ClusterAssumption DEF NothingBefore, OwnChannelEmpty, NewsInOrder, Inv
<1>13. OutIsTrue'
  BY <1>1, <1>3, <1>11 DEF OutIsTrue, Inv, Events
<1>14. OutPrecedesDue'
  <2>1. ASSUME NEW q \in Players, NEW f \in Events, NEW g \in Events, NEW d \in {"send", "publish"},
               Out(q, f)', Due(d, g, q)', d = "send" \/ q \in missed
        PROVE  Rank[f] < Rank[g]
    <3>1. Due(d, g, q)
      BY <1>3, <2>1
    <3>2. CASE Out(q, f)
      BY <2>1, <3>1, <3>2 DEF OutPrecedesDue, Inv
    <3>3. CASE q = p /\ f = e
      BY <1>5, <2>1, <3>3
    <3> QED BY <1>11, <2>1, <3>2, <3>3
  <2> QED BY <1>1, <2>1 DEF OutPrecedesDue
<1>15. ChannelsInOrder'
  <2>1. SUFFICES ASSUME NEW i \in Instances, NEW j \in DOMAIN channel'[i], NEW k \in DOMAIN channel'[i],
                        j < k, channel'[i][j].to = channel'[i][k].to
                 PROVE  Rank[channel'[i][j].event] < Rank[channel'[i][k].event]
    BY DEF ChannelsInOrder
  <2>2. CASE channel'[i] = channel[i]
    BY <2>1, <2>2 DEF ChannelsInOrder, Inv
  <2>3. CASE channel'[i] = Append(channel[i], m) /\ p \in missed
    <3>1. j \in DOMAIN channel[i] /\ (k \in DOMAIN channel[i] \/ k = Len(channel[i]) + 1)
      BY <1>9, <2>1, <2>3
    <3>2. CASE k \in DOMAIN channel[i]
      BY <1>9, <2>1, <2>3, <3>1, <3>2 DEF ChannelsInOrder, Inv
    <3>3. CASE k = Len(channel[i]) + 1
      <4>1. channel'[i][k] = m /\ channel'[i][j] = channel[i][j] /\ channel[i][j] \in Messages
        BY <1>9, <2>3, <3>1, <3>3
      <4>2. channel[i][j] = [event |-> channel[i][j].event, to |-> p] /\ channel[i][j].event \in Events
        BY <2>1, <4>1 DEF Messages
      <4>3. Out(p, channel[i][j].event)
        BY <3>1, <4>2 DEF Out, Flying
      <4> QED BY <1>6, <2>3, <4>1, <4>2, <4>3
    <3> QED BY <3>1, <3>2, <3>3
  <2> QED BY <1>8, <2>2, <2>3
<1>16. ReceivedPrecedesFlying'
  <2>1. ASSUME NEW q \in Players, NEW f \in Events, NEW g \in Events, NEW i \in Instances,
               home[q] = i, Has(q, f), Flying(i, q, g)'
        PROVE  Rank[f] < Rank[g]
    <3>1. CASE Flying(i, q, g)
      BY <2>1, <3>1 DEF ReceivedPrecedesFlying, Inv
    <3>2. CASE p \in missed /\ q = p /\ g = e
      BY <1>6, <2>1, <3>2 DEF Out
    <3> QED BY <1>10, <2>1, <3>1, <3>2
  <2>2. \A q \in Players, f \in Events : Has(q, f)' => Has(q, f)
    BY <1>1 DEF Has
  <2>3. SUFFICES ASSUME NEW q \in Players, NEW f \in Events, NEW g \in Events, NEW i \in Instances,
                        home'[q] = i, Has(q, f)', Flying(i, q, g)'
                 PROVE  Rank[f] < Rank[g]
    BY DEF ReceivedPrecedesFlying, Flying
  <2> QED BY <1>1, <2>1, <2>2, <2>3
<1> QED BY <1>3, <1>4, <1>12, <1>13, <1>14, <1>15, <1>16 DEF Inv

LEMMA ListensKeeps ==
    ASSUME Inv, TypeOK', NEW i \in Instances, Listens(i)
    PROVE  Inv'
<1>1. /\ UNCHANGED <<home, owner, agenda, missed, game>>
      /\ channel[i] # <<>> /\ channel' = [channel EXCEPT ![i] = Tail(@)]
  BY DEF Listens
<1>2. channel[i] \in Seq(Messages) /\ channel \in [Instances -> Seq(Messages)]
  BY DEF Messages, Inv, TypeOK
<1>3. PICK p \in Players, e \in Events :
          Head(channel[i]) = [event |-> e, to |-> p] /\ channel[i][1] = [event |-> e, to |-> p]
  <2>1. Head(channel[i]) \in Messages /\ Head(channel[i]) = channel[i][1]
    BY <1>1, <1>2, TailFacts
  <2> QED BY <2>1 DEF Messages
<1>4. /\ Len(channel[i]) \in Nat /\ DOMAIN channel[i] = 1..Len(channel[i])
      /\ 1 \in DOMAIN channel[i]
      /\ DOMAIN channel'[i] = 1..(Len(channel[i]) - 1)
      /\ \A k \in DOMAIN channel'[i] : k + 1 \in DOMAIN channel[i] /\ channel'[i][k] = channel[i][k + 1]
      /\ \A j \in Instances \ {i} : channel'[j] = channel[j]
  <2>1. channel'[i] = Tail(channel[i]) /\ \A j \in Instances \ {i} : channel'[j] = channel[j]
    BY <1>1, <1>2
  <2> QED BY <1>1, <1>2, <2>1, TailFacts
<1>5. \A j \in Instances, q \in Players, f \in Events : Flying(j, q, f)' => Flying(j, q, f)
  BY <1>4 DEF Flying
<1>6. Flying(i, p, e)
  BY <1>3, <1>4 DEF Flying
<1>7. \A q \in Players, f \in Events : Has(q, f)' => Has(q, f) \/ (Local(i, p) /\ q = p /\ f = e)
  <2>1. CASE Local(i, p)
    <3>1. Receives(p, e)
      BY <1>3, <2>1 DEF Listens
    <3>2. \A f \in Events : Has(p, f) => Rank[f] < Rank[e]
      BY <1>6, <2>1 DEF Inv, ReceivedPrecedesFlying, Local
    <3> QED BY <2>1, <3>1, <3>2, ReceivesInOrder DEF Inv
  <2>2. CASE ~Local(i, p)
    <3>1. inbox' = inbox
      BY <1>3, <2>2 DEF Listens
    <3> QED BY <3>1 DEF Has
  <2> QED BY <2>1, <2>2
<1>8. NewsInOrder'
  <2>1. CASE Local(i, p)
    <3>1. Receives(p, e)
      BY <1>3, <2>1 DEF Listens
    <3>2. \A f \in Events : Has(p, f) => Rank[f] < Rank[e]
      BY <1>6, <2>1 DEF Inv, ReceivedPrecedesFlying, Local
    <3> QED BY <3>1, <3>2, ReceivesInOrder DEF Inv
  <2>2. CASE ~Local(i, p)
    <3>1. inbox' = inbox
      BY <1>3, <2>2 DEF Listens
    <3> QED BY <3>1 DEF NewsInOrder, Inv
  <2> QED BY <2>1, <2>2
<1>9. \A q \in Players, f \in Events : Out(q, f)' => Out(q, f)
  BY <1>5, <1>6, <1>7 DEF Out
<1>10. NothingBefore' /\ OwnChannelEmpty'
  BY <1>1, <1>4, ClusterAssumption DEF NothingBefore, OwnChannelEmpty, Inv, Listens
<1>11. AgendaInOrder' /\ AgendaIsTrue'
  BY <1>1 DEF AgendaInOrder, AgendaIsTrue, Inv
<1>12. OutIsTrue'
  BY <1>1, <1>9 DEF OutIsTrue, Inv, Events
<1>13. \A d \in {"send", "publish"}, g \in Events, q \in Players : Due(d, g, q)' => Due(d, g, q)
  BY <1>1 DEF Due
<1>14. OutPrecedesDue'
  BY <1>1, <1>9, <1>13 DEF OutPrecedesDue, Inv
<1>15. ChannelsInOrder'
  <2>1. ASSUME NEW j \in DOMAIN channel'[i], NEW k \in DOMAIN channel'[i],
               j < k, channel'[i][j].to = channel'[i][k].to
        PROVE  Rank[channel'[i][j].event] < Rank[channel'[i][k].event]
    <3>1. /\ j + 1 \in DOMAIN channel[i] /\ k + 1 \in DOMAIN channel[i] /\ j + 1 < k + 1
          /\ channel'[i][j] = channel[i][j + 1] /\ channel'[i][k] = channel[i][k + 1]
      BY <1>4, <2>1
    <3> QED BY <2>1, <3>1 DEF ChannelsInOrder, Inv
  <2>2. ASSUME NEW l \in Instances \ {i}
        PROVE  \A j, k \in DOMAIN channel'[l] :
                   j < k /\ channel'[l][j].to = channel'[l][k].to =>
                       Rank[channel'[l][j].event] < Rank[channel'[l][k].event]
    BY <1>4, <2>2 DEF ChannelsInOrder, Inv
  <2> QED BY <2>1, <2>2 DEF ChannelsInOrder
<1>16. ReceivedPrecedesFlying'
  <2>1. ASSUME NEW q \in Players, NEW f \in Events, NEW g \in Events, NEW j \in Instances,
               home[q] = j, Has(q, f)', Flying(j, q, g)'
        PROVE  Rank[f] < Rank[g]
    <3>1. Flying(j, q, g)
      BY <1>5, <2>1
    <3>2. CASE Has(q, f)
      BY <2>1, <3>1, <3>2 DEF ReceivedPrecedesFlying, Inv
    <3>3. CASE Local(i, p) /\ q = p /\ f = e
      <4>1. PICK k \in DOMAIN channel'[i] : channel'[i][k] = [event |-> g, to |-> p]
        BY <2>1, <3>3 DEF Flying, Local
      <4>2. k + 1 \in DOMAIN channel[i] /\ 1 < k + 1 /\ channel[i][k + 1] = [event |-> g, to |-> p]
        BY <1>4, <4>1
      <4> QED BY <1>3, <1>4, <3>3, <4>2 DEF ChannelsInOrder, Inv
    <3> QED BY <1>7, <2>1, <3>2, <3>3
  <2>2. SUFFICES ASSUME NEW q \in Players, NEW f \in Events, NEW g \in Events, NEW j \in Instances,
                        home'[q] = j, Has(q, f)', Flying(j, q, g)'
                 PROVE  Rank[f] < Rank[g]
    BY DEF ReceivedPrecedesFlying, Flying
  <2> QED BY <1>1, <2>1, <2>2
<1> QED BY <1>8, <1>10, <1>11, <1>12, <1>14, <1>15, <1>16 DEF Inv

LEMMA InvInit == Init => Inv
<1>. SUFFICES ASSUME Init PROVE Inv
  OBVIOUS
<1>1. TypeOK
  <2>1. <<>> \in Seq(Events) /\ <<>> \in Seq(Jobs) /\ <<>> \in Seq(Messages)
    BY EmptySeq
  <2>2. channel \in [Instances -> Seq(Messages)] /\ inbox \in [Players -> Seq(Events)]
    BY <2>1 DEF Init
  <2>3. /\ agenda \in Seq(Jobs) /\ connects \in [Players -> Nat]
        /\ \A p \in Players : connects[p] <= MaxConnects[p]
    BY <2>1, ClusterAssumption DEF Init, Players
  <2>5. former \in [Players -> [Instances -> FormerStates]]
    BY DEF Init, FormerStates
  <2>4. status \in [Instances -> Statuses] /\ home \in [Players -> Instances \cup {Nowhere}]
    BY DEF Init, Statuses
  <2> QED BY <2>2, <2>3, <2>4, <2>5 DEF Init, TypeOK, Messages
<1>2. \A p \in Players, e \in Events : ~Has(p, e) /\ ~Out(p, e)
  BY DEF Init, Has, Out, Flying
<1>3. NothingBefore /\ OwnChannelEmpty /\ AgendaInOrder /\ AgendaIsTrue
  BY ClusterAssumption DEF Init, NothingBefore, OwnChannelEmpty, AgendaInOrder, AgendaIsTrue
<1>4. OutIsTrue /\ OutPrecedesDue /\ ReceivedPrecedesFlying
  BY <1>2 DEF OutIsTrue, OutPrecedesDue, ReceivedPrecedesFlying, Events
<1>5. ChannelsInOrder /\ NewsInOrder
  BY DEF Init, ChannelsInOrder, NewsInOrder
<1> QED BY <1>1, <1>3, <1>4, <1>5 DEF Inv

LEMMA InvStep == Inv /\ [Next]_vars => Inv'
<1>. SUFFICES ASSUME Inv, [Next]_vars PROVE Inv'
  OBVIOUS
<1>0. CASE UNCHANGED vars
  <2>1. TypeOK'
    BY <1>0 DEF vars, TypeOK, Inv
  <2> QED BY <1>0, <2>1, LosesKeeps DEF vars
<1>. SUFFICES ASSUME Next PROVE Inv'
  BY <1>0
<1>t. TypeOK'
  BY TypeStep DEF Inv
<1>1. ASSUME NEW i \in Instances, Starts(i) PROVE Inv'
  BY <1>1, <1>t, LosesKeeps DEF Starts
<1>2. ASSUME NEW i \in Instances, Stops(i) PROVE Inv'
  BY <1>2, <1>t, LosesKeeps DEF Stops, Inv, TypeOK
<1>3. ASSUME NEW i \in Instances, Crashes(i) PROVE Inv'
  BY <1>3, <1>t, LosesKeeps, ClusterAssumption DEF Crashes, Inv, TypeOK
<1>4. ASSUME NEW p \in Players, NEW i \in Instances, Connects(p, i) PROVE Inv'
  BY <1>4, <1>t, LosesKeeps DEF Connects, Inv, TypeOK
<1>5. ASSUME NEW p \in Players, Loses(p) PROVE Inv'
  BY <1>5, <1>t, LosesKeeps, ClusterAssumption DEF Loses, Inv, TypeOK
<1>13. ASSUME NEW p \in Players, NEW i \in Instances, Notices(p, i) PROVE Inv'
  BY <1>13, <1>t, LosesKeeps DEF Notices
<1>14. ASSUME Raises PROVE Inv'
  BY <1>14, <1>t, RaisesKeeps
<1>6. ASSUME NEW p \in Players, Searches(p) PROVE Inv'
  BY <1>6, <1>t, LosesKeeps DEF Searches
<1>7. ASSUME NEW p \in Players, Moves(p) PROVE Inv'
  <2>1. CASE Local(owner, p)
    BY <1>7, <1>t, <2>1, EndsKeeps DEF Moves
  <2>2. CASE ~Local(owner, p)
    BY <1>7, <1>t, <2>2, LosesKeeps DEF Moves
  <2> QED BY <2>1, <2>2
<1>8. ASSUME NEW p \in Players, Forfeits(p) PROVE Inv'
  BY <1>8, <1>t, EndsKeeps DEF Forfeits
<1>9. ASSUME NEW i \in Instances, Pops(i) PROVE Inv'
  BY <1>9, <1>t, PopsKeeps
<1>10. ASSUME Works PROVE Inv'
  BY <1>10, <1>t, CreatesKeeps, SendsKeeps, PublishesKeeps DEF Works
<1>11. ASSUME NEW i \in Instances, Listens(i) PROVE Inv'
  BY <1>11, <1>t, ListensKeeps
<1>12. ASSUME NEW i \in Instances, Resets(i) PROVE Inv'
  BY <1>12, <1>t, LosesKeeps DEF Resets, Inv, TypeOK
<1> QED BY <1>1, <1>2, <1>3, <1>4, <1>5, <1>6, <1>7, <1>8, <1>9, <1>10, <1>11, <1>12,
          <1>13, <1>14 DEF Next

----------------------------------------------------------------------------
(* Theorems.                                                               *)

LEMMA AlwaysInv == Spec => []Inv
BY InvInit, InvStep, PTL DEF Spec

\* The variables keep their types: in particular nobody but the two players
\* is ever written to.
THEOREM TypeCorrect == Spec => []TypeOK
<1>1. Inv => TypeOK
  BY DEF Inv
<1> QED BY <1>1, AlwaysInv, PTL

\* However many instances there are and however often players move between
\* them, a socket hears of a match, of its start and of its end in this order
\* and of nothing twice.
THEOREM NewsInOrderTheorem == Spec => []NewsInOrder
<1>1. Inv => NewsInOrder
  BY DEF Inv
<1> QED BY <1>1, AlwaysInv, PTL

\* Nobody hears of the start of a game that is not stored, or of the end of
\* one that runs.
THEOREM NewsIsTrueTheorem == Spec => []NewsIsTrue
<1>1. Inv => NewsIsTrue
  BY DEF Inv, OutIsTrue, Out, Has, NewsIsTrue, TypeOK
<1> QED BY <1>1, AlwaysInv, PTL

----------------------------------------------------------------------------
(* Nothing is lost.                                                        *)

\* NewsArrives promises that something happens.  This is what makes it true
\* in every state: when the owner's coroutine has nothing more to do and the
\* player's instance has read its channel, a player who kept the socket, and
\* to whom no message was lost, has heard of the match and of the start.
NothingIsLost ==
    \A p \in Players \ disturbed :
        owner \in Instances /\ agenda = <<>> =>
            /\ home[p] \in Instances
            /\ channel[home[p]] = <<>> => Has(p, "match_found") /\ Has(p, "game_started")

News == {"match_found", "game_started"}

\* A server with sockets has not begun to stop.
SocketsAreUp == \A p \in Players : home[p] \in Instances => status[home[p]] = "up"

\* Whoever is in the queue has a socket and keeps it ...
QueuedHaveSocket == \A p \in queue \ disturbed : home[p] \in Instances

\* ... so that a send fails only if the socket is at another instance.
MissedAreRemote ==
    /\ owner = Nowhere => missed = {}
    /\ \A p \in missed \ disturbed : home[p] # owner

SendThenPublish ==
    \A p \in Players, e \in Events : Due("send", e, p) => Due("publish", e, p)

OnItsWay(p, e) ==
    \/ Has(p, e)
    \/ Flying(home[p], p, e)
    \/ Due("send", e, p)
    \/ Due("publish", e, p) /\ p \in missed

EverythingOnItsWay ==
    \A p \in Players \ disturbed :
        owner \in Instances => home[p] \in Instances /\ \A e \in News : OnItsWay(p, e)

Reliable ==
    /\ SocketsAreUp
    /\ QueuedHaveSocket
    /\ MissedAreRemote
    /\ SendThenPublish
    /\ EverythingOnItsWay

LEMMA SocketsStep ==
    ASSUME TypeOK, SocketsAreUp, QueuedHaveSocket, Next
    PROVE  SocketsAreUp' /\ QueuedHaveSocket'
<1>. USE ClusterAssumption DEF TypeOK, SocketsAreUp, QueuedHaveSocket
<1>1. ASSUME NEW i \in Instances, Starts(i) PROVE SocketsAreUp' /\ QueuedHaveSocket'
  BY <1>1 DEF Starts
<1>2. ASSUME NEW i \in Instances, Stops(i) PROVE SocketsAreUp' /\ QueuedHaveSocket'
  BY <1>2 DEF Stops, Local
<1>3. ASSUME NEW i \in Instances, Crashes(i) PROVE SocketsAreUp' /\ QueuedHaveSocket'
  BY <1>3 DEF Crashes, Local
<1>4. ASSUME NEW p \in Players, NEW i \in Instances, Connects(p, i)
      PROVE  SocketsAreUp' /\ QueuedHaveSocket'
  BY <1>4 DEF Connects
<1>5. ASSUME NEW p \in Players, Loses(p) PROVE SocketsAreUp' /\ QueuedHaveSocket'
  BY <1>5 DEF Loses
<1>6. ASSUME NEW p \in Players, Searches(p) PROVE SocketsAreUp' /\ QueuedHaveSocket'
  BY <1>6 DEF Searches
<1>7. ASSUME UNCHANGED <<status, home>>, disturbed \subseteq disturbed', queue' \subseteq queue
      PROVE  SocketsAreUp' /\ QueuedHaveSocket'
  BY <1>7
<1>8. ASSUME NEW i \in Instances, Resets(i) PROVE SocketsAreUp' /\ QueuedHaveSocket'
  BY <1>8 DEF Resets
<1> QED BY <1>1, <1>2, <1>3, <1>4, <1>5, <1>6, <1>7, <1>8
        DEF Next, Notices, Moves, Forfeits, Pops, Works, Creates, Sends, Publishes, Raises, Listens

LEMMA MissedStep ==
    ASSUME Inv, MissedAreRemote, EverythingOnItsWay, Next
    PROVE  MissedAreRemote'
<1>. USE ClusterAssumption DEF Inv, TypeOK, MissedAreRemote
<1>1. ASSUME NEW i \in Instances, Crashes(i) PROVE MissedAreRemote'
  BY <1>1 DEF Crashes, Local
<1>2. ASSUME NEW p \in Players, NEW i \in Instances, Connects(p, i) PROVE MissedAreRemote'
  BY <1>2 DEF Connects, EverythingOnItsWay
<1>3. ASSUME NEW p \in Players, Loses(p) PROVE MissedAreRemote'
  BY <1>3 DEF Loses
<1>4. ASSUME NEW p \in Players, Searches(p) PROVE MissedAreRemote'
  BY <1>4 DEF Searches
<1>5. ASSUME Sends PROVE MissedAreRemote'
  <2>1. owner \in Instances /\ Job.to \in Players
    BY <1>5, WorkingFacts DEF Sends
  <2> QED BY <1>5, <2>1 DEF Sends, Local
<1>6. ASSUME UNCHANGED <<home, missed>>, disturbed \subseteq disturbed',
             owner' = owner \/ (owner = Nowhere /\ owner' \in Instances)
      PROVE  MissedAreRemote'
  BY <1>6
<1>7. ASSUME NEW i \in Instances, Stops(i) PROVE MissedAreRemote'
  BY <1>7 DEF Stops
<1> QED BY <1>1, <1>2, <1>3, <1>4, <1>5, <1>6, <1>7
        DEF Next, Starts, Notices, Moves, Forfeits, Pops, Works, Creates, Publishes, Raises,
            Listens, Resets

\* The publish that follows a send is behind it in the agenda.
LEMMA SendThenPublishStep ==
    ASSUME Inv, SendThenPublish, Next
    PROVE  SendThenPublish'
<1>1. ASSUME agenda' = agenda \/ agenda' = <<>> PROVE SendThenPublish'
  BY <1>1 DEF SendThenPublish, Due
<1>2. ASSUME agenda' = Announce("game_over") PROVE SendThenPublish'
  <2>1. ASSUME NEW p \in Players PROVE Due("publish", "game_over", p)'
    BY <1>2, AnnounceFacts, <2>1 DEF Due, Events, Publish, Players
  <2>2. \A p \in Players, e \in Events : Due("send", e, p)' => e = "game_over"
    BY <1>2, AnnounceOrder DEF Due, Events
  <2> QED BY <2>1, <2>2 DEF SendThenPublish
<1>3. ASSUME agenda' = Agenda PROVE SendThenPublish'
  <2>1. ASSUME NEW p \in Players, NEW e \in News PROVE Due("publish", e, p)'
    BY <1>3, AgendaFacts, <2>1 DEF Due, News, Publish, Players
  <2>2. \A p \in Players, e \in Events : Due("send", e, p)' => e \in News
    <3>1. \A k \in DOMAIN Agenda : Agenda[k].do # "create" => Agenda[k].event # "game_over"
      BY AgendaOrder
    <3> QED BY <1>3, <3>1 DEF Due, News, Events
  <2> QED BY <2>1, <2>2 DEF SendThenPublish
<1>4. ASSUME Working PROVE SendThenPublish'
  <2>1. SUFFICES ASSUME NEW p \in Players, NEW e \in Events, Due("send", e, p)'
                 PROVE  Due("publish", e, p)'
    BY DEF SendThenPublish
  <2>2. Due("send", e, p) /\ ~(Job = [do |-> "publish", event |-> e, to |-> p])
    BY <1>4, <2>1, WorkingFacts, RankFacts
  <2>3. PICK k \in DOMAIN agenda : agenda[k] = [do |-> "publish", event |-> e, to |-> p]
    BY <2>2 DEF SendThenPublish, Due
  <2>4. /\ agenda \in Seq(Jobs) /\ agenda # <<>> /\ agenda' = Tail(agenda)
    BY <1>4 DEF Inv, TypeOK, Working
  <2>5. /\ Job = agenda[1] /\ Len(agenda) \in Nat /\ DOMAIN agenda = 1..Len(agenda)
        /\ DOMAIN agenda' = 1..(Len(agenda) - 1)
        /\ \A l \in DOMAIN agenda' : agenda'[l] = agenda[l + 1]
    BY <2>4, TailFacts DEF Job
  <2>6. k # 1 /\ k \in 1..Len(agenda)
    BY <2>2, <2>3, <2>5
  <2>7. k - 1 \in DOMAIN agenda' /\ (k - 1) + 1 = k
    BY <2>5, <2>6
  <2>8. agenda'[k - 1] = [do |-> "publish", event |-> e, to |-> p]
    BY <2>3, <2>5, <2>7
  <2> QED BY <2>7, <2>8 DEF Due
<1> QED BY <1>1, <1>2, <1>3, <1>4
        DEF Next, Starts, Stops, Crashes, Connects, Loses, Notices, Searches, Moves, Forfeits, Pops,
            Works, Creates, Sends, Publishes, Raises, Listens, Resets

\* Steps that touch neither the player, nor what is on its way to it, nor the
\* coroutine of the owner.
LEMMA UntouchedKeeps ==
    ASSUME EverythingOnItsWay, owner' = owner \/ owner' \notin Instances,
           \A p \in Players \ disturbed' : owner \in Instances =>
               /\ p \notin disturbed
               /\ agenda' = agenda /\ missed' = missed
               /\ home'[p] = home[p] /\ inbox'[p] = inbox[p]
               /\ \A i \in Instances, e \in News : home[p] = i /\ Flying(i, p, e) => Flying(i, p, e)'
    PROVE  EverythingOnItsWay'
<1>1. SUFFICES ASSUME NEW p \in Players \ disturbed', owner' \in Instances
               PROVE  home'[p] \in Instances /\ \A e \in News : OnItsWay(p, e)'
  BY DEF EverythingOnItsWay
<1>2. PICK i \in Instances : home[p] = i /\ home'[p] = i
  BY <1>1 DEF EverythingOnItsWay
<1>3. ASSUME NEW e \in News PROVE OnItsWay(p, e)'
  <2>1. OnItsWay(p, e)
    BY <1>1 DEF EverythingOnItsWay
  <2>2. agenda' = agenda /\ missed' = missed /\ inbox'[p] = inbox[p]
    BY <1>1
  <2>3. CASE Flying(i, p, e)
    <3>1. Flying(i, p, e)'
      BY <1>1, <1>2, <2>3
    <3> QED BY <1>2, <3>1 DEF OnItsWay, Flying
  <2>4. CASE ~Flying(i, p, e)
    <3>1. Has(p, e) \/ Due("send", e, p) \/ (Due("publish", e, p) /\ p \in missed)
      BY <1>2, <2>1, <2>4 DEF OnItsWay, Flying
    <3> QED BY <2>2, <3>1 DEF OnItsWay, Has, Due
  <2> QED BY <2>3, <2>4
<1> QED BY <1>2, <1>3

\* What a job leaves in the agenda.
LEMMA DueAfter ==
    ASSUME Inv, Working, NEW d \in {"send", "publish"}, NEW e \in Events, NEW p \in Players, Due(d, e, p)
    PROVE  Due(d, e, p)' \/ (Job.do = d /\ Job.event = e /\ Job.to = p)
<1>1. PICK k \in DOMAIN agenda : agenda[k] = [do |-> d, event |-> e, to |-> p]
  BY DEF Due
<1>2. /\ agenda \in Seq(Jobs) /\ agenda # <<>> /\ agenda' = Tail(agenda)
  BY DEF Inv, TypeOK, Working
<1>3. /\ Job = agenda[1] /\ Len(agenda) \in Nat /\ DOMAIN agenda = 1..Len(agenda)
      /\ DOMAIN agenda' = 1..(Len(agenda) - 1)
      /\ \A l \in DOMAIN agenda' : agenda'[l] = agenda[l + 1]
  BY <1>2, TailFacts DEF Job
<1>4. CASE k = 1
  BY <1>1, <1>3, <1>4
<1>5. CASE k # 1
  <2>1. k - 1 \in DOMAIN agenda' /\ (k - 1) + 1 = k
    BY <1>3, <1>5
  <2>2. agenda'[k - 1] = [do |-> d, event |-> e, to |-> p]
    BY <1>1, <1>3, <2>1
  <2> QED BY <2>1, <2>2 DEF Due
<1> QED BY <1>4, <1>5

\* A job of the owner's coroutine: a send reaches the socket or is followed by
\* a publish, which reaches the channel of the player's instance.
LEMMA WorksKeepsWay ==
    ASSUME Inv, TypeOK', Reliable, Works, NEW p \in Players \ disturbed', NEW e \in News
    PROVE  home'[p] \in Instances /\ OnItsWay(p, e)'
<1>1. Working /\ UNCHANGED <<status, home, owner>> /\ disturbed \subseteq disturbed'
  BY DEF Works, Creates, Sends, Publishes
<1>2. owner \in Instances /\ e \in Events /\ p \in Players /\ p \notin disturbed
  BY <1>1, WorkingFacts DEF News, Events
<1>3. PICK i \in Instances : home[p] = i /\ home'[p] = i /\ status[i] = "up"
  BY <1>1, <1>2 DEF Reliable, EverythingOnItsWay, SocketsAreUp
<1>4. OnItsWay(p, e)
  BY <1>1, <1>2 DEF Reliable, EverythingOnItsWay
<1>5. \A f \in Events : Has(p, f) => Has(p, f)'
  <2>1. ASSUME Sends PROVE \A f \in Events : Has(p, f) => Has(p, f)'
    <3>1. CASE Local(owner, Job.to) /\ Job.to = p
      <4>1. /\ inbox[p] \in Seq(Events) /\ Job.event \in Events
        BY <1>1, <2>1, WorkingFacts DEF Inv, TypeOK, Sends
      <4>2. inbox'[p] = Append(inbox[p], Job.event)
        BY <2>1, <3>1 DEF Sends, Receives, Inv, TypeOK
      <4>3. \A k \in DOMAIN inbox[p] : k \in DOMAIN inbox'[p] /\ inbox'[p][k] = inbox[p][k]
        BY <4>1, <4>2, AppendFacts
      <4> QED BY <4>3 DEF Has
    <3>2. CASE ~(Local(owner, Job.to) /\ Job.to = p)
      <4>1. inbox'[p] = inbox[p]
        BY <2>1, <3>2 DEF Sends, Receives, Inv, TypeOK
      <4> QED BY <4>1 DEF Has
    <3> QED BY <3>1, <3>2
  <2>2. ASSUME inbox' = inbox PROVE \A f \in Events : Has(p, f) => Has(p, f)'
    BY <2>2 DEF Has
  <2> QED BY <2>1, <2>2 DEF Works, Creates, Publishes
<1>6. Flying(i, p, e) => Flying(i, p, e)'
  <2>1. ASSUME channel'[i] = Append(channel[i], Message), Publishes
        PROVE  Flying(i, p, e) => Flying(i, p, e)'
    <3>1. channel[i] \in Seq(Messages) /\ Message \in Messages
      BY <1>1, <2>1, WorkingFacts DEF Inv, TypeOK, Messages, Message, Publishes
    <3>2. \A k \in DOMAIN channel[i] : k \in DOMAIN channel'[i] /\ channel'[i][k] = channel[i][k]
      BY <2>1, <3>1, AppendFacts
    <3> QED BY <3>2 DEF Flying
  <2>2. ASSUME channel'[i] = channel[i] PROVE Flying(i, p, e) => Flying(i, p, e)'
    BY <2>2 DEF Flying
  <2> QED BY <2>1, <2>2 DEF Works, Creates, Sends, Publishes
<1>7. CASE Has(p, e) \/ Flying(i, p, e)
  <2>1. Has(p, e)' \/ Flying(i, p, e)'
    BY <1>2, <1>5, <1>6, <1>7
  <2> QED BY <1>3, <2>1 DEF OnItsWay, Flying
<1>8. CASE Due("send", e, p)
  <2>1. CASE Due("send", e, p)'
    BY <1>3, <2>1 DEF OnItsWay
  <2>2. CASE Job.do = "send" /\ Job.event = e /\ Job.to = p
    <3>1. Sends
      BY <2>2 DEF Works, Creates, Publishes
    <3>2. CASE Local(owner, p)
      <4>1. inbox[p] \in Seq(Events) /\ inbox'[p] = Append(inbox[p], e)
        BY <2>2, <3>1, <3>2 DEF Sends, Receives, Inv, TypeOK
      <4>2. Len(inbox[p]) + 1 \in DOMAIN inbox'[p] /\ inbox'[p][Len(inbox[p]) + 1] = e
        BY <1>2, <4>1, AppendFacts
      <4> QED BY <1>3, <4>2 DEF OnItsWay, Has
    <3>3. CASE ~Local(owner, p)
      <4>1. p \in missed'
        BY <1>2, <2>2, <3>1, <3>3 DEF Sends
      <4>2. Due("publish", e, p)
        BY <1>2, <1>8 DEF Reliable, SendThenPublish
      <4>3. Due("publish", e, p)'
        BY <1>1, <1>2, <2>2, <4>2, DueAfter
      <4> QED BY <1>3, <4>1, <4>3 DEF OnItsWay
    <3> QED BY <3>2, <3>3
  <2> QED BY <1>1, <1>2, <1>8, <2>1, <2>2, DueAfter
<1>9. CASE Due("publish", e, p) /\ p \in missed /\ ~Due("send", e, p)
  <2>1. CASE Due("publish", e, p)' /\ p \in missed'
    BY <1>3, <2>1 DEF OnItsWay
  <2>2. CASE p \notin missed'
    <3>1. Sends /\ Job.to = p
      BY <1>9, <2>2 DEF Works, Creates, Sends, Publishes
    <3>2. home[p] = owner
      BY <1>2, <1>9, <2>2, <3>1 DEF Sends, Local
    <3> QED BY <1>2, <1>9, <3>2 DEF Reliable, MissedAreRemote
  <2>3. CASE Job.do = "publish" /\ Job.event = e /\ Job.to = p
    <3>1. Publishes /\ Message = [event |-> e, to |-> p]
      BY <2>3 DEF Works, Creates, Sends, Message
    <3>2. i # owner /\ Listening(i)
      BY <1>2, <1>3, <1>9 DEF Reliable, MissedAreRemote, Listening
    <3>3. channel'[i] = Append(channel[i], [event |-> e, to |-> p])
      BY <1>9, <2>3, <3>1, <3>2 DEF Publishes
    <3>4. channel[i] \in Seq(Messages) /\ [event |-> e, to |-> p] \in Messages
      BY <1>2 DEF Inv, TypeOK, Messages
    <3>5. /\ Len(channel[i]) + 1 \in DOMAIN channel'[i]
          /\ channel'[i][Len(channel[i]) + 1] = [event |-> e, to |-> p]
      BY <3>3, <3>4, AppendFacts
    <3>6. Flying(i, p, e)'
      BY <3>5 DEF Flying
    <3> QED BY <1>3, <3>6 DEF OnItsWay, Flying
  <2> QED BY <1>1, <1>2, <1>9, <2>1, <2>2, <2>3, DueAfter
<1> QED BY <1>3, <1>4, <1>7, <1>8, <1>9 DEF OnItsWay, Flying

LEMMA ListensKeepsWay ==
    ASSUME Inv, TypeOK', EverythingOnItsWay, NEW i \in Instances, Listens(i)
    PROVE  EverythingOnItsWay'
<1>1. /\ UNCHANGED <<home, owner, agenda, missed, disturbed>>
      /\ channel[i] # <<>> /\ channel' = [channel EXCEPT ![i] = Tail(@)]
  BY DEF Listens
<1>2. channel[i] \in Seq(Messages) /\ channel \in [Instances -> Seq(Messages)]
  BY DEF Messages, Inv, TypeOK
<1>3. SUFFICES ASSUME NEW p \in Players \ disturbed, owner \in Instances, NEW e \in News
               PROVE  OnItsWay(p, e)'
  BY <1>1 DEF EverythingOnItsWay
<1>4. PICK j \in Instances : home[p] = j /\ home'[p] = j
  BY <1>1, <1>3 DEF EverythingOnItsWay
<1>5. OnItsWay(p, e) /\ e \in Events /\ p \in Players
  BY <1>3 DEF EverythingOnItsWay, News, Events
<1>6. /\ Head(channel[i]) \in Messages /\ Head(channel[i]) = channel[i][1]
      /\ Len(channel[i]) \in Nat /\ DOMAIN channel[i] = 1..Len(channel[i])
      /\ channel'[i] = Tail(channel[i])
      /\ DOMAIN channel'[i] = 1..(Len(channel[i]) - 1)
      /\ \A k \in DOMAIN channel'[i] : channel'[i][k] = channel[i][k + 1]
  <2>1. channel'[i] = Tail(channel[i])
    BY <1>1, <1>2
  <2> QED BY <1>1, <1>2, <2>1, TailFacts
<1>7. CASE Has(p, e)
  <2>1. CASE Local(i, Head(channel[i]).to) /\ Head(channel[i]).to = p
    <3>1. inbox[p] \in Seq(Events) /\ Head(channel[i]).event \in Events
      BY <1>5, <1>6 DEF Inv, TypeOK, Messages
    <3>2. inbox'[p] = Append(inbox[p], Head(channel[i]).event)
      BY <1>5, <2>1 DEF Listens, Receives, Inv, TypeOK
    <3>3. \A k \in DOMAIN inbox[p] : k \in DOMAIN inbox'[p] /\ inbox'[p][k] = inbox[p][k]
      BY <3>1, <3>2, AppendFacts
    <3>4. Has(p, e)'
      BY <1>7, <3>3 DEF Has
    <3> QED BY <3>4 DEF OnItsWay
  <2>2. CASE ~(Local(i, Head(channel[i]).to) /\ Head(channel[i]).to = p)
    <3>1. inbox'[p] = inbox[p]
      BY <1>5, <2>2 DEF Listens, Receives, Inv, TypeOK
    <3>2. Has(p, e)'
      BY <1>7, <3>1 DEF Has
    <3> QED BY <3>2 DEF OnItsWay
  <2> QED BY <2>1, <2>2
<1>8. CASE Flying(j, p, e)
  <2>1. CASE j # i
    <3>1. channel'[j] = channel[j]
      BY <1>1, <1>2, <2>1
    <3> QED BY <1>4, <1>8, <3>1 DEF OnItsWay, Flying
  <2>2. CASE j = i
    <3>1. PICK k \in DOMAIN channel[i] : channel[i][k] = [event |-> e, to |-> p]
      BY <1>8, <2>2 DEF Flying
    <3>2. CASE k = 1
      <4>1. inbox[p] \in Seq(Events) /\ inbox'[p] = Append(inbox[p], e)
        BY <1>4, <1>5, <1>6, <2>2, <3>1, <3>2 DEF Listens, Receives, Local, Inv, TypeOK
      <4>2. Len(inbox[p]) + 1 \in DOMAIN inbox'[p] /\ inbox'[p][Len(inbox[p]) + 1] = e
        BY <1>5, <4>1, AppendFacts
      <4>3. Has(p, e)'
        BY <4>2 DEF Has
      <4> QED BY <4>3 DEF OnItsWay
    <3>3. CASE k # 1
      <4>1. k - 1 \in DOMAIN channel'[i] /\ (k - 1) + 1 = k
        BY <1>6, <3>1, <3>3
      <4>2. channel'[i][k - 1] = [event |-> e, to |-> p]
        BY <1>6, <3>1, <4>1
      <4> QED BY <1>4, <2>2, <4>1, <4>2 DEF OnItsWay, Flying
    <3> QED BY <3>2, <3>3
  <2> QED BY <2>1, <2>2
<1>9. CASE Due("send", e, p) \/ (Due("publish", e, p) /\ p \in missed)
  BY <1>1, <1>9 DEF OnItsWay, Due
<1> QED BY <1>4, <1>5, <1>7, <1>8, <1>9 DEF OnItsWay, Flying

LEMMA WayStep ==
    ASSUME Inv, Reliable, TypeOK', Next
    PROVE  EverythingOnItsWay'
<1>. USE ClusterAssumption DEF Reliable
<1>1. ASSUME NEW i \in Instances, Starts(i) PROVE EverythingOnItsWay'
  BY <1>1, UntouchedKeeps DEF Starts, Flying
<1>2. ASSUME NEW i \in Instances, Stops(i) PROVE EverythingOnItsWay'
  <2>1. \A p \in Players \ disturbed' :
            p \notin disturbed /\ agenda' = agenda /\ home[p] # i
    BY <1>2 DEF Stops, Local
  <2>2. \A j \in Instances \ {i} : channel'[j] = channel[j]
    BY <1>2 DEF Stops, Inv, TypeOK
  <2>3. UNCHANGED <<owner, home, missed, inbox>>
    BY <1>2 DEF Stops
  <2> QED BY <2>1, <2>2, <2>3, UntouchedKeeps DEF Flying
<1>3. ASSUME NEW i \in Instances, Crashes(i) PROVE EverythingOnItsWay'
  <2>1. \A p \in Players \ disturbed' :
            p \notin disturbed /\ agenda' = agenda /\ home[p] # i /\ home'[p] = home[p]
    BY <1>3 DEF Crashes, Local
  <2>2. \A j \in Instances \ {i} : channel'[j] = channel[j]
    BY <1>3 DEF Crashes, Inv, TypeOK
  <2>3. UNCHANGED <<owner, missed, inbox>>
    BY <1>3 DEF Crashes
  <2> QED BY <2>1, <2>2, <2>3, UntouchedKeeps DEF Flying
<1>4. ASSUME NEW q \in Players, NEW i \in Instances, Connects(q, i) PROVE EverythingOnItsWay'
  <2>1. UNCHANGED <<owner, agenda, missed, channel, disturbed>> /\ home[q] = Nowhere
    BY <1>4 DEF Connects
  <2>2. \A p \in Players \ disturbed : owner \in Instances => p # q
    BY <2>1 DEF EverythingOnItsWay
  <2>3. \A p \in Players \ {q} : home'[p] = home[p] /\ inbox'[p] = inbox[p]
    BY <1>4 DEF Connects, Inv, TypeOK
  <2> QED BY <2>1, <2>2, <2>3, UntouchedKeeps DEF Flying
<1>5. ASSUME NEW q \in Players, Loses(q) PROVE EverythingOnItsWay'
  <2>1. UNCHANGED <<owner, agenda, missed, channel, inbox>> /\ disturbed' = disturbed \cup {q}
    BY <1>5 DEF Loses
  <2>2. \A p \in Players \ {q} : home'[p] = home[p]
    BY <1>5 DEF Loses, Inv, TypeOK
  <2> QED BY <2>1, <2>2, UntouchedKeeps DEF Flying
<1>6. ASSUME NEW q \in Players, Searches(q) PROVE EverythingOnItsWay'
  BY <1>6 DEF Searches, EverythingOnItsWay
<1>14. ASSUME NEW q \in Players, NEW i \in Instances, Notices(q, i) PROVE EverythingOnItsWay'
  BY <1>14, UntouchedKeeps DEF Notices, Flying
<1>15. ASSUME Raises PROVE EverythingOnItsWay'
  <2>1. SUFFICES ASSUME NEW p \in Players \ disturbed', owner \in Instances, NEW e \in News
                 PROVE  home[p] \in Instances /\ OnItsWay(p, e)'
    BY <1>15 DEF Raises, EverythingOnItsWay, News
  <2>2. UNCHANGED <<home, inbox, channel>> /\ p \in Players \ disturbed
    BY <1>15 DEF Raises
  <2>3. home[p] \in Instances /\ OnItsWay(p, e) /\ e \in Events
    BY <2>1, <2>2 DEF EverythingOnItsWay, News, Events
  <2>4. ~Due("send", e, p) /\ ~Due("publish", e, p)
    BY <1>15, <2>1 DEF Raises, Due
  <2> QED BY <2>2, <2>3, <2>4 DEF OnItsWay, Has, Flying
<1>7. ASSUME agenda' = Announce("game_over") \/ agenda' = <<>>, agenda = <<>>,
             UNCHANGED <<home, inbox, owner, missed, channel, disturbed>>
      PROVE  EverythingOnItsWay'
  <2>1. \A d \in {"send", "publish"}, e \in Events, p \in Players : ~Due(d, e, p)
    BY <1>7 DEF Due
  <2> QED BY <1>7, <2>1 DEF EverythingOnItsWay, OnItsWay, Has, Flying, News, Events
<1>8. ASSUME NEW p \in Players, Moves(p) PROVE EverythingOnItsWay'
  <2>1. CASE Local(owner, p)
    BY <1>7, <1>8, <2>1 DEF Moves
  <2>2. CASE ~Local(owner, p)
    BY <1>8, <2>2, UntouchedKeeps DEF Moves, Flying
  <2> QED BY <2>1, <2>2
<1>9. ASSUME NEW p \in Players, Forfeits(p) PROVE EverythingOnItsWay'
  BY <1>7, <1>9 DEF Forfeits
<1>10. ASSUME NEW i \in Instances, Pops(i) PROVE EverythingOnItsWay'
  <2>1. ASSUME NEW p \in Players, NEW e \in News PROVE Due("send", e, p)'
    <3>1. agenda' = Agenda
      BY <1>10 DEF Pops
    <3> QED BY <3>1, AgendaFacts, <2>1 DEF Due, News, Send, Players
  <2>2. UNCHANGED <<home, disturbed>> /\ queue = Players
    BY <1>10 DEF Pops
  <2> QED BY <2>1, <2>2 DEF EverythingOnItsWay, QueuedHaveSocket, OnItsWay
<1>11. ASSUME Works PROVE EverythingOnItsWay'
  <2>1. "match_found" \in News
    BY DEF News
  <2> QED BY <1>11, <2>1, WorksKeepsWay DEF EverythingOnItsWay
<1>12. ASSUME NEW i \in Instances, Listens(i) PROVE EverythingOnItsWay'
  BY <1>12, ListensKeepsWay
<1>13. ASSUME NEW i \in Instances, Resets(i) PROVE EverythingOnItsWay'
  <2>1. UNCHANGED <<owner, agenda, missed, home, inbox>> /\ disturbed \subseteq disturbed'
    BY <1>13 DEF Resets
  <2>2. \A p \in Players \ disturbed', e \in News : ~Flying(i, p, e)
    BY <1>13 DEF Resets, Flying
  <2>3. \A j \in Instances \ {i} : channel'[j] = channel[j]
    BY <1>13 DEF Resets, Inv, TypeOK
  <2>4. \A j \in Instances, p \in Players \ disturbed', e \in News : Flying(j, p, e) => Flying(j, p, e)'
    BY <2>2, <2>3 DEF Flying
  <2> QED BY <2>1, <2>4, UntouchedKeeps
<1> QED BY <1>1, <1>2, <1>3, <1>4, <1>5, <1>6, <1>8, <1>9, <1>10, <1>11, <1>12,
          <1>13, <1>14, <1>15 DEF Next

LEMMA ReliableInit == Init => Reliable
BY ClusterAssumption
   DEF Init, Reliable, SocketsAreUp, QueuedHaveSocket, MissedAreRemote, SendThenPublish,
       EverythingOnItsWay, Due

LEMMA ReliableStep == Inv /\ Reliable /\ [Next]_vars => Reliable'
<1>. SUFFICES ASSUME Inv, Reliable, [Next]_vars PROVE Reliable'
  OBVIOUS
<1>1. CASE Next
  <2>1. TypeOK /\ TypeOK'
    BY <1>1, TypeStep DEF Inv
  <2>2. SocketsAreUp' /\ QueuedHaveSocket'
    BY <1>1, <2>1, SocketsStep DEF Reliable
  <2>3. MissedAreRemote'
    BY <1>1, MissedStep DEF Reliable
  <2>4. SendThenPublish'
    BY <1>1, SendThenPublishStep DEF Reliable
  <2>5. EverythingOnItsWay'
    BY <1>1, <2>1, WayStep
  <2> QED BY <2>2, <2>3, <2>4, <2>5 DEF Reliable
<1>2. CASE UNCHANGED vars
  BY <1>2 DEF vars, Reliable, SocketsAreUp, QueuedHaveSocket, MissedAreRemote, SendThenPublish,
              EverythingOnItsWay, OnItsWay, Has, Flying, Due
<1> QED BY <1>1, <1>2

\* A player who keeps the socket, wherever it is, and loses no message to a
\* reset, to a former socket at the owner or to a coroutine that ends early has
\* heard of the match and of the start of the game as soon as the owner's
\* coroutine is through and the player's instance has read its channel: no
\* interleaving of sends that fail or reach nobody, publishes, late clean-ups
\* and moves of the opponent makes _create_match() and create_game() forget
\* anybody else.
THEOREM NothingIsLostTheorem == Spec => []NothingIsLost
<1>1. Reliable => NothingIsLost
  <2>1. SUFFICES ASSUME Reliable, NEW p \in Players \ disturbed, owner \in Instances, agenda = <<>>
                 PROVE  /\ home[p] \in Instances
                        /\ channel[home[p]] = <<>> => Has(p, "match_found") /\ Has(p, "game_started")
    BY DEF NothingIsLost
  <2>2. \A d \in {"send", "publish"}, e \in News : ~Due(d, e, p)
    BY <2>1 DEF Due
  <2>3. channel[home[p]] = <<>> => \A e \in News : ~Flying(home[p], p, e)
    BY DEF Flying
  <2>4. home[p] \in Instances /\ \A e \in News : OnItsWay(p, e)
    BY <2>1 DEF Reliable, EverythingOnItsWay
  <2>5. channel[home[p]] = <<>> => \A e \in News : Has(p, e)
    BY <2>2, <2>3, <2>4 DEF OnItsWay
  <2> QED BY <2>4, <2>5 DEF News
<1> QED BY <1>1, AlwaysInv, ReliableInit, ReliableStep, PTL DEF Spec
=============================================================================

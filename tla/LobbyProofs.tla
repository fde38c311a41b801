----------------------------- MODULE LobbyProofs -----------------------------
(***************************************************************************)
(* Proofs about the room of module Lobby: for any number of connections,   *)
(* what the members are told is well formed and agrees with who is there.  *)
(***************************************************************************)
EXTENDS Lobby, SequenceTheorems, TLAPS

\* One more notice: the others stay where they are.
LEMMA AppendFacts ==
  ASSUME NEW s \in Seq(LobbyNotice), NEW x \in LobbyNotice
  PROVE  /\ Append(s, x) \in Seq(LobbyNotice)
         /\ Append(s, x) # <<>>
         /\ DOMAIN s \subseteq Nat /\ Len(s) \in Nat
         /\ DOMAIN Append(s, x) = DOMAIN s \cup {Len(s) + 1}
         /\ \A i \in DOMAIN s : i < Len(s) + 1 /\ Append(s, x)[i] = s[i]
         /\ Append(s, x)[Len(s) + 1] = x
         /\ s # <<>> => Len(s) + 1 # 1
PROOF
<1>1. /\ Append(s, x) \in Seq(LobbyNotice)
      /\ Len(Append(s, x)) = Len(s) + 1
      /\ \A i \in 1 .. Len(s) : Append(s, x)[i] = s[i]
      /\ Append(s, x)[Len(s) + 1] = x
  BY AppendProperties
<1>2. Len(s) \in Nat /\ DOMAIN s = 1 .. Len(s) /\ DOMAIN Append(s, x) = 1 .. Len(s) + 1
  BY <1>1, LenProperties
<1>3. s # <<>> => Len(s) # 0
  BY EmptySeq
<1>4. 1 .. Len(s) + 1 = 1 .. Len(s) \cup {Len(s) + 1}
  BY <1>2
<1>5. Append(s, x) # <<>>
  BY <1>1, <1>2, EmptySeq
<1>6. QED
  BY <1>1, <1>2, <1>3, <1>4, <1>5

\* A stream stays well formed when it hears of another connection what comes
\* next: that it came, or that it left after it came.
LEMMA AppendWellFormed ==
  ASSUME NEW r \in Conn, NEW s \in Seq(LobbyNotice), WellFormed(r, s), s # <<>>,
         NEW x \in LobbyNotice, x.kind # "welcome", x.who # r,
         \A i \in DOMAIN s : s[i].who = x.who => s[i].kind = "joined" /\ x.kind = "left"
  PROVE  WellFormed(r, Append(s, x))
PROOF
<1> DEFINE n == Len(s) + 1
           t == Append(s, x)
<1>1. /\ DOMAIN t = DOMAIN s \cup {n} /\ DOMAIN s \subseteq Nat /\ n \in Nat /\ n # 1
      /\ \A i \in DOMAIN s : i < n /\ t[i] = s[i]
      /\ t[n] = x
  BY AppendFacts
<1> HIDE DEF n, t
<1>2. \A i \in DOMAIN t : (t[i].kind = "welcome") = (i = 1) /\ (t[i].who = r) = (i = 1)
  BY <1>1 DEF WellFormed
<1>3. ASSUME NEW i \in DOMAIN t, NEW j \in DOMAIN t, i < j, t[i].who = t[j].who
      PROVE  t[i].kind = "joined" /\ t[j].kind = "left"
  <2>1. i \in DOMAIN s
    BY <1>1, <1>3
  <2>2. CASE j \in DOMAIN s
    BY <1>1, <1>3, <2>1, <2>2 DEF WellFormed
  <2>3. CASE j = n
    BY <1>1, <1>3, <2>1, <2>3
  <2>4. QED
    BY <1>1, <2>2, <2>3
<1>4. QED
  BY <1>2, <1>3 DEF WellFormed, t

\* Equal inboxes, equal tales; what is due besides depends on the news alone.
LEMMA SameInbox ==
  ASSUME NEW r, inbox'[r] = inbox[r], NEW kind
  PROVE  /\ Told(r, kind)' = Told(r, kind)
         /\ UNCHANGED news => Due(r, kind)' = Due(r, kind)
PROOF
  BY DEF Told, Due

\* When there is no news, what is due has been told.
LEMMA AgreeWhenTold == LobbyInv => RostersAgree
PROOF
<1> SUFFICES ASSUME LobbyInv, news = {} PROVE RostersAgree
  BY DEF RostersAgree
<1>1. \A r, kind : Due(r, kind) = Told(r, kind)
  BY DEF Due
<1>2. \A r : DueRoster(r) = Roster(r)
  BY <1>1 DEF DueRoster, Roster
<1>3. QED
  BY <1>2 DEF LobbyInv, RostersWillAgree, RostersAgree

\* What becomes due when news that was not there before is owed to the members.
LEMMA OwedFacts ==
  ASSUME news = {}, NEW S \in SUBSET Conn, NEW kind \in {"joined", "left"}, NEW c \in Conn, c \notin S,
         news' = Owed(S, kind, c), \A r \in Conn, k \in {"joined", "left"} : Told(r, k)' = Told(r, k)
  PROVE  /\ \A r \in Conn, k \in {"joined", "left"} :
              Due(r, k)' = IF r \in S /\ k = kind THEN Due(r, k) \cup {c} ELSE Due(r, k)
         /\ \E k \in {"joined", "left"}, x \in Conn : news' \subseteq Owed(Conn \ {x}, k, x)
         /\ \A d \in news' : d.to \in S /\ d.notice.who = c /\ d.notice.kind = kind
PROOF
<1>1. ASSUME NEW r \in Conn, NEW k \in {"joined", "left"}
      PROVE  Due(r, k)' = IF r \in S /\ k = kind THEN Due(r, k) \cup {c} ELSE Due(r, k)
  <2>1. ASSUME NEW x \in Conn
        PROVE  [to |-> r, notice |-> [kind |-> k, who |-> x]] \in news' <=> r \in S /\ k = kind /\ x = c
    BY DEF Owed
  <2>2. Due(r, k) = Told(r, k)
    BY DEF Due
  <2>3. QED
    BY <2>1, <2>2 DEF Due
<1>2. news' \subseteq Owed(Conn \ {c}, kind, c)
  BY DEF Owed
<1>3. \A d \in news' : d.to \in S /\ d.notice.who = c /\ d.notice.kind = kind
  BY DEF Owed
<1>4. QED
  BY <1>1, <1>2, <1>3

LEMMA JoinKeeps ==
  ASSUME LobbyInv, NEW c \in Conn, Join(c)
  PROVE  LobbyInv'
PROOF
<1> DEFINE welcome == [kind |-> "welcome", who |-> c]
<1>1. PICK where \in {"inside", "cutOff"} :
        /\ place' = [place EXCEPT ![c] = where]
        /\ inbox' = [inbox EXCEPT ![c] = IF where = "inside" THEN <<welcome>> ELSE <<>>]
  BY DEF Join
<1>2. /\ place' \in [Conn -> Place] /\ place'[c] = where /\ place[c] = "outside"
      /\ \A r \in Conn \ {c} : place'[r] = place[r]
      /\ Members' = Members \cup {c} /\ c \notin Members
      /\ Inside' = IF where = "inside" THEN Inside \cup {c} ELSE Inside
      /\ Inside \subseteq Members /\ Members \subseteq Conn
  BY <1>1 DEF LobbyInv, Place, Join, Members, Inside
<1>3. /\ inbox'[c] = IF where = "inside" THEN <<welcome>> ELSE <<>>
      /\ \A r \in Conn \ {c} : inbox'[r] = inbox[r]
      /\ inbox[c] = <<>>
  BY <1>1, <1>2 DEF LobbyInv, StreamsMatchPlaces
<1>4. /\ inbox'[c] \in Seq(LobbyNotice) /\ WellFormed(c, inbox'[c])
      /\ where = "inside" => inbox'[c] # <<>>
      /\ \A k \in {"joined", "left"} : Told(c, k) = {} /\ Told(c, k)' = {}
  <2>1. CASE where = "inside"
    <3>1. inbox'[c] = <<welcome>> /\ welcome \in LobbyNotice
      BY <1>3, <2>1 DEF LobbyNotice
    <3>2. DOMAIN inbox'[c] = {1} /\ inbox'[c][1] = welcome /\ inbox'[c] # <<>>
          /\ inbox'[c] \in Seq(LobbyNotice)
      BY <3>1
    <3>3. QED
      BY <1>3, <3>2 DEF WellFormed, Told
  <2>2. CASE where = "cutOff"
    <3>1. inbox'[c] = <<>>
      BY <1>3, <2>2
    <3>2. DOMAIN inbox'[c] = {} /\ inbox'[c] \in Seq(LobbyNotice)
      BY <3>1
    <3>3. QED
      BY <1>3, <2>2, <3>2 DEF WellFormed, Told
  <2>3. QED
    BY <2>1, <2>2
<1>5. inbox' \in [Conn -> Seq(LobbyNotice)]
  BY <1>1, <1>3, <1>4 DEF LobbyInv
<1>6. \A r \in Conn, k \in {"joined", "left"} : Told(r, k)' = Told(r, k)
  BY <1>3, <1>4, SameInbox
<1>7. /\ \A r \in Conn, k \in {"joined", "left"} :
           Due(r, k)' = IF r \in Members /\ k = "joined" THEN Due(r, k) \cup {c} ELSE Due(r, k)
      /\ \E k \in {"joined", "left"}, x \in Conn : news' \subseteq Owed(Conn \ {x}, k, x)
      /\ \A d \in news' : d.to \in Members /\ d.notice.who = c /\ d.notice.kind = "joined"
  <2>1. Members \in SUBSET Conn /\ c \notin Members /\ "joined" \in {"joined", "left"}
    BY <1>2
  <2>2. news = {} /\ news' = Owed(Members, "joined", c)
    BY DEF Join
  <2>3. QED
    BY <1>6, <2>1, <2>2, OwedFacts
<1>8. \A r \in Conn : /\ \A x \in Due(r, "joined") : place[x] # "outside" /\ x # c /\ x \in Conn
                      /\ \A x \in Due(r, "left") : place[x] = "over" /\ x # c /\ x \in Conn
  <2>1. \A r, k : Due(r, k) \subseteq Conn
    BY DEF Due, Told
  <2>2. \A r \in Conn : /\ \A x \in Due(r, "joined") : place[x] # "outside"
                        /\ \A x \in Due(r, "left") : place[x] = "over"
    BY DEF LobbyInv, StreamsMatchPlaces
  <2>3. QED
    BY <1>2, <2>1, <2>2
<1>9. NewsIsNew'
  <2>1. ASSUME NEW d \in news'
        PROVE  /\ place'[d.to] # "outside"
               /\ d.notice.who \notin Told(d.to, d.notice.kind)' \cup Told(d.to, "left")'
    <3>1. d.to \in Members /\ d.to \in Conn \ {c} /\ d.notice.who = c /\ d.notice.kind = "joined"
      BY <1>2, <1>7
    <3>2. c \notin Told(d.to, "joined") /\ c \notin Told(d.to, "left")
      BY <1>8, <3>1 DEF Due
    <3>3. QED
      BY <1>2, <1>6, <3>1, <3>2 DEF Members
  <2>2. QED
    BY <1>7, <2>1 DEF NewsIsNew, Owed
<1>10. StreamsMatchPlaces'
  <2>1. ASSUME NEW r \in Conn
        PROVE  /\ \A x \in Due(r, "joined")' : place'[x] # "outside"
               /\ \A x \in Due(r, "left")' : place'[x] = "over"
    BY <1>2, <1>7, <1>8
  <2>2. ASSUME NEW r \in Conn
        PROVE  /\ WellFormed(r, inbox'[r])
               /\ place'[r] = "outside" => inbox'[r] = <<>>
               /\ place'[r] = "inside" => inbox'[r] # <<>>
    BY <1>2, <1>3, <1>4 DEF LobbyInv, StreamsMatchPlaces
  <2>3. QED
    BY <2>1, <2>2 DEF StreamsMatchPlaces, WellFormed
<1>11. RostersWillAgree'
  <2>1. ASSUME NEW r \in Inside
        PROVE  DueRoster(r)' = DueRoster(r) \cup {c} /\ c \notin DueRoster(r)
    <3>1. r \in Conn /\ r \in Members
      BY <1>2
    <3>2. QED
      BY <1>7, <1>8, <3>1 DEF DueRoster
  <2>2. DueRoster(c)' = {}
    <3>1. Due(c, "joined") = {}
      BY <1>4 DEF Due, Join
    <3>2. QED
      BY <1>2, <1>7, <3>1 DEF DueRoster
  <2>3. \A r \in Inside : \A s \in Inside \ {r} : (s \in DueRoster(r)') # (r \in DueRoster(s)')
    BY <1>2, <2>1 DEF LobbyInv, RostersWillAgree
  <2>4. \A r \in Inside' : DueRoster(r)' \subseteq Members'
    BY <1>2, <2>1, <2>2 DEF LobbyInv, RostersWillAgree
  <2>5. \A r \in Inside' : \A s \in Inside' \ {r} : (s \in DueRoster(r)') # (r \in DueRoster(s)')
    BY <1>2, <2>1, <2>2, <2>3
  <2>6. QED
    BY <2>4, <2>5 DEF RostersWillAgree
<1>12. QED
  BY <1>2, <1>5, <1>9, <1>10, <1>11 DEF LobbyInv

LEMMA LeaveKeeps ==
  ASSUME LobbyInv, NEW c \in Conn, Leave(c)
  PROVE  LobbyInv'
PROOF
<1>1. /\ place' \in [Conn -> Place] /\ place'[c] = "over" /\ place[c] = "cutOff"
      /\ \A r \in Conn \ {c} : place'[r] = place[r]
      /\ Inside' = Inside /\ Members' = Members \ {c} /\ Inside \subseteq Members \ {c}
      /\ Members \subseteq Conn /\ inbox' = inbox
  BY DEF LobbyInv, Place, Leave, Inside, Members
<1>2. \A r \in Conn, k \in {"joined", "left"} : Told(r, k)' = Told(r, k)
  BY <1>1, SameInbox
<1>3. /\ \A r \in Conn, k \in {"joined", "left"} :
           Due(r, k)' = IF r \in Members \ {c} /\ k = "left" THEN Due(r, k) \cup {c} ELSE Due(r, k)
      /\ \E k \in {"joined", "left"}, x \in Conn : news' \subseteq Owed(Conn \ {x}, k, x)
      /\ \A d \in news' : d.to \in Members \ {c} /\ d.notice.who = c /\ d.notice.kind = "left"
  <2>1. Members \ {c} \in SUBSET Conn
    BY <1>1
  <2>2. QED
    BY <1>2, <2>1, OwedFacts DEF Leave
<1>4. \A r \in Conn : /\ \A x \in Due(r, "joined") : place[x] # "outside" /\ x \in Conn
                      /\ \A x \in Due(r, "left") : place[x] = "over" /\ x # c /\ x \in Conn
  BY <1>1 DEF LobbyInv, StreamsMatchPlaces, Due, Told
<1>5. NewsIsNew'
  <2>1. ASSUME NEW d \in news'
        PROVE  /\ place'[d.to] # "outside"
               /\ d.notice.who \notin Told(d.to, d.notice.kind)' \cup Told(d.to, "left")'
    <3>1. d.to \in Members /\ d.to \in Conn \ {c} /\ d.notice.who = c /\ d.notice.kind = "left"
      BY <1>1, <1>3
    <3>2. c \notin Told(d.to, "left")
      BY <1>4, <3>1 DEF Due
    <3>3. QED
      BY <1>1, <1>2, <3>1, <3>2 DEF Members
  <2>2. QED
    BY <1>3, <2>1 DEF NewsIsNew, Owed
<1>6. StreamsMatchPlaces'
  <2>1. ASSUME NEW r \in Conn
        PROVE  /\ \A x \in Due(r, "joined")' : place'[x] # "outside"
               /\ \A x \in Due(r, "left")' : place'[x] = "over"
    BY <1>1, <1>3, <1>4
  <2>2. ASSUME NEW r \in Conn
        PROVE  /\ WellFormed(r, inbox'[r])
               /\ place'[r] = "outside" => inbox'[r] = <<>>
               /\ place'[r] = "inside" => inbox'[r] # <<>>
    BY <1>1 DEF LobbyInv, StreamsMatchPlaces
  <2>3. QED
    BY <2>1, <2>2 DEF StreamsMatchPlaces, WellFormed
<1>7. RostersWillAgree'
  <2>1. \A r \in Inside : DueRoster(r)' = DueRoster(r) \ {c}
    BY <1>1, <1>3 DEF DueRoster
  <2>2. QED
    BY <1>1, <2>1 DEF LobbyInv, RostersWillAgree
<1>8. QED
  BY <1>1, <1>5, <1>6, <1>7 DEF LobbyInv

\* A member that is told hears one thing more, and what is due to it is the same;
\* one that is cut off hears nothing, and nothing is due to it any more.
LEMMA TellKeeps ==
  ASSUME LobbyInv, NEW d \in news, Tell(d)
  PROVE  LobbyInv'
PROOF
<1>1. PICK kind \in {"joined", "left"}, c \in Conn : news \subseteq Owed(Conn \ {c}, kind, c)
  BY DEF LobbyInv, NewsIsNew
<1>2. PICK r \in Conn \ {c} : d = [to |-> r, notice |-> [kind |-> kind, who |-> c]]
  BY <1>1 DEF Owed
<1> DEFINE x == [kind |-> kind, who |-> c]
           s == inbox[r]
<1>3. /\ news' = news \ {d} /\ place' = place
      /\ inbox' = [inbox EXCEPT ![r] = IF place[r] = "inside" THEN Append(s, x) ELSE s]
      /\ place[r] # "outside" /\ c \notin Told(r, kind) /\ c \notin Told(r, "left")
      /\ x \in LobbyNotice /\ s \in Seq(LobbyNotice) /\ WellFormed(r, s)
  BY <1>2 DEF Tell, LobbyInv, NewsIsNew, StreamsMatchPlaces, LobbyNotice
<1>4. \A o \in Conn \ {r} : inbox'[o] = inbox[o]
  BY <1>3 DEF LobbyInv
<1>5. CASE place[r] # "inside"
  <2>1. inbox' = inbox
    BY <1>3, <1>5 DEF LobbyInv
  <2>2. \A o, k : Told(o, k)' = Told(o, k) /\ Due(o, k)' \subseteq Due(o, k)
    BY <1>3, <2>1 DEF Told, Due
  <2>3. ASSUME NEW o \in Inside, NEW k
        PROVE  Due(o, k)' = Due(o, k)
    <3>1. o # d.to
      BY <1>2, <1>5 DEF Inside
    <3>2. QED
      BY <1>3, <2>1, <3>1 DEF Told, Due
  <2>4. NewsIsNew'
    BY <1>1, <1>3, <2>2 DEF LobbyInv, NewsIsNew, Owed
  <2>5. StreamsMatchPlaces'
    BY <1>3, <2>1, <2>2 DEF LobbyInv, StreamsMatchPlaces, WellFormed
  <2>6. RostersWillAgree'
    <3>1. Inside' = Inside /\ Members' = Members /\ \A o \in Inside : DueRoster(o)' = DueRoster(o)
      BY <1>3, <2>3 DEF Inside, Members, DueRoster
    <3>2. QED
      BY <3>1 DEF LobbyInv, RostersWillAgree
  <2>7. QED
    BY <1>3, <2>1, <2>4, <2>5, <2>6 DEF LobbyInv
<1>6. CASE place[r] = "inside"
  <2>1. inbox'[r] = Append(s, x) /\ s # <<>>
    BY <1>3, <1>6 DEF LobbyInv, StreamsMatchPlaces
  <2>2. /\ inbox'[r] \in Seq(LobbyNotice) /\ inbox'[r] # <<>>
        /\ DOMAIN inbox'[r] = DOMAIN s \cup {Len(s) + 1}
        /\ \A i \in DOMAIN s : inbox'[r][i] = s[i]
        /\ inbox'[r][Len(s) + 1] = x
    BY <1>3, <2>1, AppendFacts
  <2>3. ASSUME NEW i \in DOMAIN s, s[i].who = c
        PROVE  s[i].kind = "joined" /\ kind = "left"
    <3>1. s[i] \in LobbyNotice
      BY <1>3, LenProperties, ElementOfSeq
    <3>2. s[i].kind # "welcome"
      BY <1>3, <2>3 DEF WellFormed
    <3>3. s[i] = [kind |-> s[i].kind, who |-> c] /\ s[i].kind \in {"joined", "left"}
      BY <2>3, <3>1, <3>2 DEF LobbyNotice
    <3>4. c \in Told(r, s[i].kind)
      BY <3>3 DEF Told
    <3>5. QED
      BY <1>3, <3>3, <3>4
  <2>4. WellFormed(r, inbox'[r])
    BY <1>3, <2>1, <2>3, AppendWellFormed
  <2>5. \A k \in {"joined", "left"} : Told(r, k)' = IF k = kind THEN Told(r, k) \cup {c} ELSE Told(r, k)
    BY <2>2 DEF Told
  <2>6. \A o \in Conn \ {r} : \A k : Told(o, k)' = Told(o, k)
    BY <1>4, SameInbox
  <2>7. ASSUME NEW o \in Conn, NEW k \in {"joined", "left"}
        PROVE  Due(o, k)' = Due(o, k)
    <3>1. \A y : [to |-> o, notice |-> [kind |-> k, who |-> y]] = d <=> o = r /\ k = kind /\ y = c
      BY <1>2
    <3>2. \A y : [to |-> o, notice |-> [kind |-> k, who |-> y]] \in news' <=>
                  [to |-> o, notice |-> [kind |-> k, who |-> y]] \in news /\ ~(o = r /\ k = kind /\ y = c)
      BY <1>3, <3>1
    <3>3. o = r /\ k = kind => [to |-> o, notice |-> [kind |-> k, who |-> c]] \in news
      BY <3>1
    <3>4. CASE o = r /\ k = kind
      BY <2>5, <3>2, <3>3, <3>4 DEF Due
    <3>5. CASE ~(o = r /\ k = kind)
      <4>1. Told(o, k)' = Told(o, k)
        BY <2>5, <2>6, <3>5
      <4>2. QED
        BY <3>2, <3>5, <4>1 DEF Due
    <3>6. QED
      BY <3>4, <3>5
  <2>8. NewsIsNew'
    <3>1. ASSUME NEW e \in news'
          PROVE  /\ place'[e.to] # "outside"
                 /\ e.notice.who \notin Told(e.to, e.notice.kind)' \cup Told(e.to, "left")'
      <4>1. e \in news /\ e # d
        BY <1>3, <3>1
      <4>2. e.to \in Conn \ {r}
        BY <1>1, <1>2, <4>1 DEF Owed
      <4>3. QED
        BY <1>3, <2>6, <4>1, <4>2 DEF LobbyInv, NewsIsNew
    <3>2. QED
      BY <1>1, <1>3, <3>1 DEF NewsIsNew, Owed
  <2>9. StreamsMatchPlaces'
    <3>1. ASSUME NEW o \in Conn
          PROVE  /\ WellFormed(o, inbox'[o])
                 /\ place'[o] = "outside" => inbox'[o] = <<>>
                 /\ place'[o] = "inside" => inbox'[o] # <<>>
      BY <1>3, <1>4, <1>6, <2>2, <2>4 DEF LobbyInv, StreamsMatchPlaces
    <3>2. ASSUME NEW o \in Conn
          PROVE  /\ \A y \in Due(o, "joined")' : place'[y] # "outside"
                 /\ \A y \in Due(o, "left")' : place'[y] = "over"
      BY <1>3, <2>7 DEF LobbyInv, StreamsMatchPlaces
    <3>3. QED
      BY <3>1, <3>2 DEF StreamsMatchPlaces, WellFormed
  <2>10. RostersWillAgree'
    <3>1. Inside' = Inside /\ Members' = Members /\ Inside \subseteq Conn
          /\ \A o \in Conn : DueRoster(o)' = DueRoster(o)
      BY <1>3, <2>7 DEF Inside, Members, DueRoster
    <3>2. QED
      BY <3>1 DEF LobbyInv, RostersWillAgree
  <2>11. inbox' \in [Conn -> Seq(LobbyNotice)]
    BY <1>3, <1>4, <2>2 DEF LobbyInv
  <2>12. QED
    BY <1>3, <2>8, <2>9, <2>10, <2>11 DEF LobbyInv
<1>7. QED
  BY <1>5, <1>6

\* The steps that neither tell nor owe anything: nobody inside disappears from
\* among the members but by leaving the inside, and nobody comes in.
LEMMA QuietKeeps ==
  ASSUME LobbyInv, UNCHANGED <<inbox, news>>, place' \in [Conn -> Place],
         \A r \in Conn : /\ place'[r] = "inside" => place[r] = "inside"
                         /\ place'[r] = "outside" => place[r] = "outside"
                         /\ place[r] = "over" => place'[r] = "over",
         Inside' = {} \/ Members \subseteq Members'
  PROVE  LobbyInv'
PROOF
<1>1. \A r, kind : Told(r, kind)' = Told(r, kind) /\ Due(r, kind)' = Due(r, kind)
  BY SameInbox
<1>2. Inside' \subseteq Inside /\ \A r : DueRoster(r)' = DueRoster(r)
  BY <1>1 DEF Inside, DueRoster
<1>3. RostersWillAgree'
  BY <1>2 DEF LobbyInv, RostersWillAgree
<1>4. StreamsMatchPlaces'
  <2>1. \A r, kind : Due(r, kind) \subseteq Conn
    BY DEF Due, Told
  <2>2. QED
    BY <1>1, <2>1 DEF LobbyInv, StreamsMatchPlaces, WellFormed
<1>5. NewsIsNew'
  <2>1. \A d \in news : d.to \in Conn
    BY DEF LobbyInv, NewsIsNew, Owed
  <2>2. QED
    BY <1>1, <2>1 DEF LobbyInv, NewsIsNew, Owed
<1>6. QED
  BY <1>3, <1>4, <1>5 DEF LobbyInv

LEMMA StepKeeps ==
  ASSUME LobbyInv, [LobbyNext]_lobbyVars
  PROVE  LobbyInv'
PROOF
<1>1. place \in [Conn -> Place]
  BY DEF LobbyInv
<1>2. ASSUME NEW c \in Conn, CutOff(c)
      PROVE  LobbyInv'
  <2>1. /\ UNCHANGED <<inbox, news>> /\ place' \in [Conn -> Place] /\ place[c] = "inside" /\ place'[c] = "cutOff"
        /\ \A r \in Conn \ {c} : place'[r] = place[r]
    BY <1>1, <1>2 DEF CutOff, Place
  <2>2. Members \subseteq Members'
    BY <2>1 DEF Members
  <2>3. QED
    BY <2>1, <2>2, QuietKeeps
<1>3. ASSUME NEW c \in Conn, Refuse(c)
      PROVE  LobbyInv'
  <2>1. /\ UNCHANGED <<inbox, news>> /\ place' \in [Conn -> Place] /\ place[c] = "outside" /\ place'[c] = "over"
        /\ \A r \in Conn \ {c} : place'[r] = place[r]
    BY <1>1, <1>3 DEF Refuse, Place
  <2>2. Members \subseteq Members'
    BY <2>1 DEF Members
  <2>3. QED
    BY <2>1, <2>2, QuietKeeps
<1>4. ASSUME CloseRoom
      PROVE  LobbyInv'
  <2>1. UNCHANGED <<inbox, news>>
    BY <1>4 DEF CloseRoom
  <2>2. /\ place' \in [Conn -> Place]
        /\ \A r \in Conn : /\ place'[r] \in {"outside", "over"}
                           /\ place'[r] = "outside" => place[r] = "outside"
                           /\ place[r] = "over" => place'[r] = "over"
    BY <1>4 DEF CloseRoom, Place
  <2>3. Inside' = {}
    BY <2>2 DEF Inside
  <2>4. QED
    BY <2>1, <2>2, <2>3, QuietKeeps
<1>5. CASE UNCHANGED lobbyVars
  BY <1>1, <1>5, QuietKeeps DEF lobbyVars, Members
<1>6. QED
  BY <1>2, <1>3, <1>4, <1>5, JoinKeeps, LeaveKeeps, TellKeeps DEF LobbyNext

\* Whoever comes, is cut off and leaves, and whenever, in the middle of an
\* announcement included: the streams are well formed, and the rosters agree as
\* soon as everyone has been told.
THEOREM LobbyInvariance == LobbySpec => [](LobbyInv /\ RostersAgree)
PROOF
<1>1. LobbyInit => LobbyInv
  <2> SUFFICES ASSUME LobbyInit PROVE LobbyInv
    OBVIOUS
  <2>1. /\ place \in [Conn -> Place] /\ inbox \in [Conn -> Seq(LobbyNotice)]
        /\ \A r \in Conn : place[r] = "outside" /\ inbox[r] = <<>>
        /\ news = {}
    BY DEF LobbyInit, Place
  <2>2. DOMAIN <<>> = {}
    OBVIOUS
  <2>3. NewsIsNew
    BY <2>1 DEF NewsIsNew
  <2>4. QED
    BY <2>1, <2>2, <2>3 DEF LobbyInv, WellFormed, Told, Due, StreamsMatchPlaces, RostersWillAgree, Inside
<1>2. QED
  BY <1>1, StepKeeps, AgreeWhenTold, PTL DEF LobbySpec
=============================================================================

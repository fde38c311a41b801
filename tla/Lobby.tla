-------------------------------- MODULE Lobby --------------------------------
(***************************************************************************)
(* What the example server promises its clients, without sockets,          *)
(* callbacks or a table: a room whose members are told who comes and goes. *)
(*                                                                         *)
(* The members of the moment are owed the news of an arrival or a          *)
(* departure, and are told it one by one; nobody else comes or goes before *)
(* the last of them was told.  A member may be cut off at any time, in the *)
(* middle of that included.  It hears nothing from then on, and is a       *)
(* member for the others until it leaves.                                  *)
(***************************************************************************)
EXTENDS Naturals, Sequences

CONSTANT Conn

VARIABLES
  place,   \* where each connection is: "outside", "inside", "cutOff", "over"
  inbox,   \* what each has been told, in order
  news     \* what is still to be told, and to whom

Place == {"outside", "inside", "cutOff", "over"}
LobbyNotice == [kind : {"welcome", "joined", "left"}, who : Conn]

Inside == {c \in Conn : place[c] = "inside"}
Members == {c \in Conn : place[c] \in {"inside", "cutOff"}}

LobbyInit ==
  /\ place = [c \in Conn |-> "outside"]
  /\ inbox = [c \in Conn |-> <<>>]
  /\ news = {}

Owed(S, kind, c) == {[to |-> r, notice |-> [kind |-> kind, who |-> c]] : r \in S}

\* A newcomer is welcomed, unless it is cut off on its way in.
Join(c) ==
  /\ news = {}
  /\ place[c] = "outside"
  /\ \E where \in {"inside", "cutOff"} :
       /\ place' = [place EXCEPT ![c] = where]
       /\ inbox' = [inbox EXCEPT ![c] = IF where = "inside" THEN <<[kind |-> "welcome", who |-> c]>> ELSE <<>>]
  /\ news' = Owed(Members, "joined", c)

Tell(d) ==
  /\ d \in news
  /\ news' = news \ {d}
  /\ inbox' = [inbox EXCEPT ![d.to] = IF place[d.to] = "inside" THEN Append(@, d.notice) ELSE @]
  /\ UNCHANGED place

CutOff(c) ==
  /\ place[c] = "inside"
  /\ place' = [place EXCEPT ![c] = "cutOff"]
  /\ UNCHANGED <<inbox, news>>

\* Every departure is announced, once.
Leave(c) ==
  /\ news = {}
  /\ place[c] = "cutOff"
  /\ place' = [place EXCEPT ![c] = "over"]
  /\ news' = Owed(Members \ {c}, "left", c)
  /\ UNCHANGED inbox

\* A peer that is not let in never appears.
Refuse(c) ==
  /\ place[c] = "outside"
  /\ place' = [place EXCEPT ![c] = "over"]
  /\ UNCHANGED <<inbox, news>>

\* The room is closed, and nobody is told.
CloseRoom ==
  /\ news = {}
  /\ \E refused \in SUBSET {c \in Conn : place[c] = "outside"} :
       place' = [c \in Conn |-> IF c \in refused \/ place[c] # "outside" THEN "over" ELSE "outside"]
  /\ UNCHANGED <<inbox, news>>

LobbyNext ==
  \/ \E c \in Conn : Join(c) \/ CutOff(c) \/ Leave(c) \/ Refuse(c)
  \/ \E d \in news : Tell(d)
  \/ CloseRoom

lobbyVars == <<place, inbox, news>>
LobbySpec == LobbyInit /\ [][LobbyNext]_lobbyVars

-----------------------------------------------------------------------------
(* What follows for the members; ExampleServer states the same of the      *)
(* packets it sends.                                                       *)

Told(r, kind) == {c \in Conn : \E i \in DOMAIN inbox[r] : inbox[r][i] = [kind |-> kind, who |-> c]}

\* A stream begins with the member's own welcome, says nothing twice, nothing
\* else about the member, and nothing about another after its departure.
WellFormed(r, s) ==
  /\ \A i \in DOMAIN s : (s[i].kind = "welcome") = (i = 1) /\ (s[i].who = r) = (i = 1)
  /\ \A i, j \in DOMAIN s : i < j /\ s[i].who = s[j].who => s[i].kind = "joined" /\ s[j].kind = "left"

Roster(r) == Told(r, "joined") \ Told(r, "left")

\* When there is no news, members believe in members only, and of two that can
\* hear exactly one knows of the other.
RostersAgree ==
  news = {} =>
    \A r \in Inside :
      /\ Roster(r) \subseteq Members
      /\ \A s \in Inside \ {r} : (s \in Roster(r)) # (r \in Roster(s))

\* Whom r will have been told of.
Due(r, kind) == Told(r, kind) \cup {c \in Conn : [to |-> r, notice |-> [kind |-> kind, who |-> c]] \in news}

\* One piece of news at a time, and not for those it is about or who know it.
NewsIsNew ==
  /\ news # {} => \E kind \in {"joined", "left"}, c \in Conn : news \subseteq Owed(Conn \ {c}, kind, c)
  /\ \A d \in news :
       /\ place[d.to] # "outside"
       /\ d.notice.who \notin Told(d.to, d.notice.kind) \cup Told(d.to, "left")

\* Nobody is told of one who has not come, or of a departure that has not
\* happened.
StreamsMatchPlaces ==
  \A r \in Conn :
    /\ WellFormed(r, inbox[r])
    /\ place[r] = "outside" => inbox[r] = <<>>
    /\ place[r] = "inside" => inbox[r] # <<>>
    /\ \A c \in Due(r, "joined") : place[c] # "outside"
    /\ \A c \in Due(r, "left") : place[c] = "over"

DueRoster(r) == Due(r, "joined") \ Due(r, "left")

\* The members will agree when all are told.
RostersWillAgree ==
  \A r \in Inside :
    /\ DueRoster(r) \subseteq Members
    /\ \A s \in Inside \ {r} : (s \in DueRoster(r)) # (r \in DueRoster(s))

LobbyInv ==
  /\ place \in [Conn -> Place]
  /\ inbox \in [Conn -> Seq(LobbyNotice)]
  /\ NewsIsNew
  /\ StreamsMatchPlaces
  /\ RostersWillAgree
=============================================================================

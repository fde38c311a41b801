----------------------- MODULE ClientConnectionProofs -----------------------
(***************************************************************************)
(* Proofs about class ClientConnection: whatever its user does with any    *)
(* number of objects and handles, a handle has one owner, an owner's state *)
(* is right, and the destructor's assertion is met just for a leak.        *)
(***************************************************************************)
EXTENDS ClientConnection, SteamSocketsProofs

\* The object's side of the type invariant.
ObjectsTypeOK ==
  /\ alive \subseteq Object
  /\ net_connection \in [Object -> Conn \cup {Invalid}]
  /\ connection_state \in [Object -> ConnectionState]
  /\ asserted \in BOOLEAN

LEMMA Parts ==
  /\ IInv <=> SocketsTypeOK /\ ObjectsTypeOK /\ OneOwner /\ StateIsTrue
  /\ IInv' <=> SocketsTypeOK' /\ ObjectsTypeOK' /\ OneOwner' /\ StateIsTrue'
PROOF
  BY DEF IInv, TypeOK, ObjectsTypeOK

\* A new owner of a handle that nobody owns.
LEMMA ConstructKeepsIInv ==
  ASSUME IInv, NEW o \in Object, NEW c \in Conn, Construct(o, c)
  PROVE  IInv'
PROOF
<1>1. SocketsTypeOK /\ ObjectsTypeOK /\ OneOwner /\ StateIsTrue
  BY Parts
<1>2. UNCHANGED socketVars /\ UNCHANGED handle
  BY DEF Construct, socketVars
<1>3. ObjectsTypeOK'
  BY <1>1 DEF Construct, ObjectsTypeOK, ConnectionState
<1>4. /\ alive' = alive \cup {o} /\ o \notin alive
      /\ net_connection'[o] = c /\ connection_state'[o] = "CONNECTING"
      /\ \A p \in alive : net_connection'[p] = net_connection[p] /\ connection_state'[p] = connection_state[p]
  BY <1>1 DEF Construct, ObjectsTypeOK
<1>5. \A p \in alive : (valid(p)' <=> valid(p)) /\ (valid(p) => net_connection[p] # c)
  BY <1>4 DEF valid, Construct, Owned
<1>6. OneOwner'
  BY <1>1, <1>4, <1>5 DEF OneOwner
<1>7. StateIsTrue'
  BY <1>1, <1>2, <1>4, <1>5 DEF StateIsTrue, Construct
<1>8. QED
  BY <1>1, <1>2, <1>3, <1>6, <1>7, SocketsUnchanged, Parts

\* A handle changes hands, with its state.
LEMMA MoveKeepsIInv ==
  ASSUME IInv, NEW o \in Object, NEW other \in alive, o # other,
         moved(o, other), alive' = alive \cup {o}, UNCHANGED <<socketVars, asserted>>
  PROVE  IInv'
PROOF
<1>1. SocketsTypeOK /\ ObjectsTypeOK /\ OneOwner /\ StateIsTrue
  BY Parts
<1>2. UNCHANGED handle /\ other \in Object
  BY <1>1 DEF socketVars, ObjectsTypeOK
<1>3. ObjectsTypeOK'
  BY <1>1, <1>2 DEF moved, invalidate, takesState, ObjectsTypeOK
<1>4. /\ net_connection'[o] = net_connection[other] /\ connection_state'[o] = connection_state[other]
      /\ net_connection'[other] = Invalid
      /\ \A p \in alive \ {o, other} :
           net_connection'[p] = net_connection[p] /\ connection_state'[p] = connection_state[p]
  BY <1>1, <1>2 DEF moved, invalidate, takesState, ObjectsTypeOK
<1>5. ~valid(other)' /\ (valid(o)' <=> valid(other))
      /\ \A p \in alive \ {o, other} : valid(p)' <=> valid(p)
  BY <1>4 DEF valid
<1>6. OneOwner'
  BY <1>1, <1>4, <1>5 DEF OneOwner
<1>7. StateIsTrue'
  BY <1>1, <1>2, <1>4, <1>5 DEF StateIsTrue
<1>8. QED
  BY <1>1, <1>3, <1>6, <1>7, SocketsUnchanged, Parts

\* One handle is moved on by a call or by the network, and only its owner, if it
\* has one, is told: it may then be in the state its owner has now.
LEMMA HandleKeepsIInv ==
  ASSUME IInv, SocketsTypeOK', ObjectsTypeOK', UNCHANGED <<alive, net_connection>>,
         NEW c \in Conn,
         \A x \in Conn \ {c} : handle'[x] = handle[x],
         \A o \in alive : net_connection[o] # c => connection_state'[o] = connection_state[o],
         \A o \in alive : net_connection[o] = c =>
           /\ connection_state'[o] = "CONNECTING" => handle'[c] \in {"Connecting"} \cup Lost
           /\ connection_state'[o] = "CONNECTED" => handle'[c] \in {"Connected"} \cup Lost
           /\ connection_state'[o] = "CLOSED" => handle'[c] = "Destroyed"
  PROVE  IInv'
PROOF
<1>1. ObjectsTypeOK /\ OneOwner /\ StateIsTrue
  BY Parts
<1>2. \A o \in alive : valid(o)' <=> valid(o)
  BY DEF valid
<1>3. OneOwner'
  BY <1>1, <1>2 DEF OneOwner
<1>4. StateIsTrue'
  <2>1. \A o \in alive : valid(o) => net_connection[o] \in Conn
    BY <1>1 DEF valid, ObjectsTypeOK
  <2>2. QED
    BY <1>1, <1>2, <2>1 DEF StateIsTrue
<1>5. QED
  BY <1>3, <1>4, Parts

\* The owner of a handle is the only object that answers to it.
LEMMA OwnerIsAlone ==
  ASSUME IInv, NEW o \in alive, valid(o), NEW p \in alive, net_connection[p] = net_connection[o]
  PROVE  p = o
PROOF
  BY DEF IInv, OneOwner, valid

LEMMA AcceptKeepsIInv ==
  ASSUME IInv, NEW o \in Object, accept(o)
  PROVE  IInv'
PROOF
<1> DEFINE c == net_connection[o]
<1>1. SocketsTypeOK /\ ObjectsTypeOK /\ StateIsTrue /\ o \in alive /\ c \in Conn /\ valid(o)
  BY Parts DEF accept, valid, ObjectsTypeOK
<1>2. SocketsTypeOK'
  BY <1>1, AcceptType DEF accept, SocketsTypeOK
<1>3. ObjectsTypeOK'
  BY <1>1 DEF accept, ObjectsTypeOK, ConnectionState
<1>4. /\ handle'[c] = "Connected" /\ \A x \in Conn \ {c} : handle'[x] = handle[x]
      /\ connection_state'[o] = "CONNECTED"
      /\ \A p \in alive \ {o} : connection_state'[p] = connection_state[p]
  BY <1>1 DEF accept, AcceptConnection, SocketsTypeOK, ObjectsTypeOK
<1>5. \A p \in alive : net_connection[p] = c => p = o
  BY <1>1, OwnerIsAlone
<1>6. UNCHANGED <<alive, net_connection>> /\ net_connection[o] = c
  BY DEF accept
<1> HIDE DEF c
<1>7. QED
  BY <1>1, <1>2, <1>3, <1>4, <1>5, <1>6, HandleKeepsIInv

LEMMA CloseKeepsIInv ==
  ASSUME IInv, NEW o \in Object, close(o)
  PROVE  IInv'
PROOF
<1> DEFINE c == net_connection[o]
<1>1. SocketsTypeOK /\ ObjectsTypeOK /\ OneOwner /\ StateIsTrue /\ o \in alive
  BY Parts DEF close
<1>2. ObjectsTypeOK' /\ UNCHANGED <<alive, net_connection>>
      /\ connection_state'[o] = "CLOSED" /\ \A p \in alive \ {o} : connection_state'[p] = connection_state[p]
  BY <1>1 DEF close, ObjectsTypeOK, ConnectionState
<1>3. CASE valid(o)
  <2>1. c \in Conn /\ handle[c] \in Live \cup {"Destroyed"}
    BY <1>1, <1>3, States DEF valid, ObjectsTypeOK, StateIsTrue, ConnectionState
  <2>2. SocketsTypeOK' /\ handle'[c] = "Destroyed" /\ \A x \in Conn \ {c} : handle'[x] = handle[x]
    <3>1. CASE handle[c] \in Live
      <4>1. CloseConnection(c, callbacks) /\ UNCHANGED sent
        BY <1>3, <3>1 DEF close
      <4>2. SocketsTypeOK'
        BY <1>1, <2>1, <3>1, <4>1, CloseType DEF SocketsTypeOK
      <4>3. QED
        BY <1>1, <2>1, <4>1, <4>2 DEF CloseConnection, SocketsTypeOK
    <3>2. CASE handle[c] \notin Live
      BY <1>1, <2>1, <3>2, SocketsUnchanged DEF close, socketVars
    <3>3. QED
      BY <3>1, <3>2
  <2>3. net_connection[o] = c /\ \A p \in alive : net_connection[p] = c => p = o
    BY <1>1, <1>3, OwnerIsAlone
  <2> HIDE DEF c
  <2>4. QED
    BY <1>2, <2>1, <2>2, <2>3, HandleKeepsIInv
<1>4. CASE ~valid(o)
  <2>1. SocketsTypeOK' /\ UNCHANGED handle
    BY <1>1, <1>4, SocketsUnchanged DEF close, socketVars
  <2>2. \A p \in alive : valid(p)' <=> valid(p)
    BY <1>2 DEF valid
  <2>3. OneOwner' /\ StateIsTrue'
    BY <1>1, <1>2, <1>4, <2>1, <2>2 DEF OneOwner, StateIsTrue
  <2>4. QED
    BY <1>2, <2>1, <2>3, Parts
<1>5. QED
  BY <1>3, <1>4

\* The steps that change no handle and no state.
LEMMA OthersKeepIInv ==
  ASSUME IInv, NEW o \in Object, setPollGroup(o) \/ Destroy(o)
  PROVE  IInv'
PROOF
<1>1. SocketsTypeOK /\ ObjectsTypeOK /\ OneOwner /\ StateIsTrue
  BY Parts
<1>2. UNCHANGED <<handle, net_connection, connection_state>> /\ alive' \subseteq alive /\ asserted' \in BOOLEAN
  BY <1>1 DEF setPollGroup, SetConnectionPollGroup, Destroy, socketVars, objectVars, ObjectsTypeOK
<1>3. SocketsTypeOK'
  <2>1. CASE setPollGroup(o)
    <3>1. net_connection[o] \in Conn
      BY <1>1, <2>1 DEF setPollGroup, valid, ObjectsTypeOK
    <3>2. QED
      BY <1>1, <2>1, <3>1, PollGroupType DEF setPollGroup
  <2>2. CASE Destroy(o)
    BY <1>1, <2>2, SocketsUnchanged DEF Destroy
  <2>3. QED
    BY <2>1, <2>2
<1>4. \A p \in alive' : valid(p)' <=> valid(p)
  BY <1>2 DEF valid
<1>5. OneOwner' /\ StateIsTrue' /\ ObjectsTypeOK'
  BY <1>1, <1>2, <1>4 DEF OneOwner, StateIsTrue, ObjectsTypeOK
<1>6. QED
  BY <1>3, <1>5, Parts

LEMMA NetworkKeepsIInv == IInv /\ Network => IInv'
PROOF
<1> SUFFICES ASSUME IInv, Network
             PROVE  IInv'
  OBVIOUS
<1>1. SocketsTypeOK /\ ObjectsTypeOK /\ StateIsTrue
  BY Parts
<1>2. UNCHANGED <<alive, net_connection, connection_state, asserted>>
  BY DEF Network, objectVars
<1>3. PICK c \in Conn : PeerConnects(c) \/ (\E how \in Lost : PeerIsLost(c, how)) \/ PeerSends(c)
  BY DEF Network
<1>4. SocketsTypeOK'
  BY <1>1, <1>3, ConnectType, NetworkType
<1>5. /\ \A x \in Conn \ {c} : handle'[x] = handle[x]
      /\ \/ handle'[c] = handle[c]
         \/ handle[c] \in {"Connecting", "Connected"} /\ handle'[c] \in Lost
         \/ handle[c] = "Unused"
  BY <1>1, <1>3 DEF PeerConnects, PeerIsLost, PeerSends, SocketsTypeOK
<1>6. \A o \in alive : net_connection[o] = c => valid(o)
  BY InvalidAssumption DEF valid
<1>7. ObjectsTypeOK'
  BY <1>1, <1>2 DEF ObjectsTypeOK
<1>8. \A o \in alive : connection_state[o] \in ConnectionState
  BY <1>1 DEF ObjectsTypeOK
<1>9. \A o \in alive : net_connection[o] = c =>
        /\ connection_state'[o] = "CONNECTING" => handle'[c] \in {"Connecting"} \cup Lost
        /\ connection_state'[o] = "CONNECTED" => handle'[c] \in {"Connected"} \cup Lost
        /\ connection_state'[o] = "CLOSED" => handle'[c] = "Destroyed"
  BY <1>1, <1>2, <1>5, <1>6, <1>8, States DEF StateIsTrue, ConnectionState
<1>10. QED
  BY <1>2, <1>4, <1>5, <1>7, <1>9, HandleKeepsIInv

-----------------------------------------------------------------------------
(* The theorems.                                                           *)

LEMMA InitIInv == Init => IInv
PROOF
<1> SUFFICES ASSUME Init
             PROVE  IInv
  OBVIOUS
<1>1. SocketsTypeOK
  BY InitSocketsType DEF Init
<1>2. QED
  BY <1>1 DEF Init, IInv, TypeOK, OneOwner, StateIsTrue, ConnectionState

LEMMA NextIInv == IInv /\ [Next]_vars => IInv'
PROOF
<1> SUFFICES ASSUME IInv, [Next]_vars
             PROVE  IInv'
  OBVIOUS
<1>1. CASE UNCHANGED vars
  BY <1>1, SocketsUnchanged DEF vars, objectVars, socketVars, IInv, TypeOK, OneOwner, StateIsTrue, valid
<1>2. CASE Use
  <2>1. PICK o \in Object :
          \/ \E c \in Conn : Construct(o, c)
          \/ \E other \in Object : MoveConstruct(o, other) \/ MoveAssign(o, other)
          \/ accept(o) \/ setPollGroup(o) \/ close(o) \/ Destroy(o)
    BY <1>2 DEF Use
  <2>2. CASE \E c \in Conn : Construct(o, c)
    BY <2>2, ConstructKeepsIInv
  <2>3. ASSUME NEW other \in Object, MoveConstruct(o, other) \/ MoveAssign(o, other)
        PROVE  IInv'
    <3>1. other \in alive /\ o # other /\ moved(o, other) /\ alive' = alive \cup {o}
          /\ UNCHANGED <<socketVars, asserted>>
      BY <2>3 DEF MoveConstruct, MoveAssign
    <3>2. QED
      BY <3>1, MoveKeepsIInv
  <2>4. CASE accept(o)
    BY <2>4, AcceptKeepsIInv
  <2>5. CASE close(o)
    BY <2>5, CloseKeepsIInv
  <2>6. CASE setPollGroup(o) \/ Destroy(o)
    BY <2>6, OthersKeepIInv
  <2>7. QED
    BY <2>1, <2>2, <2>3, <2>4, <2>5, <2>6
<1>3. CASE Network
  BY <1>3, NetworkKeepsIInv
<1>4. QED
  BY <1>1, <1>2, <1>3 DEF Next

\* The invariant holds for any number of objects and handles.
THEOREM ObjectInvariance == Spec => []IInv
PROOF
  BY InitIInv, NextIInv, PTL DEF Spec

\* The variables keep their types.
THEOREM ObjectTypeCorrect == Spec => []TypeOK
PROOF
<1>1. IInv => TypeOK
  BY DEF IInv
<1>2. QED
  BY <1>1, ObjectInvariance, PTL

\* No handle ever has two owners (ClientConnection.cpp:36-63).
THEOREM HandlesHaveOneOwner == Spec => []OneOwner
PROOF
<1>1. IInv => OneOwner
  BY DEF IInv
<1>2. QED
  BY <1>1, ObjectInvariance, PTL

\* What an owner says of its connection is so (ClientConnection.h:58-61).
THEOREM OwnersAreRight == Spec => []StateIsTrue
PROOF
<1>1. IInv => StateIsTrue
  BY DEF IInv
<1>2. QED
  BY <1>1, ObjectInvariance, PTL

\* The assertion of the destructor is met just when a live connection would be
\* lost with its last owner (ClientConnection.cpp:67).
THEOREM DestructorIsExact == Spec => AssertionIsExact
PROOF
<1> DEFINE exact == \A o \in alive \ alive' :
                      asserted' = (valid(o) /\ handle[net_connection[o]] \in Live)
<1>1. ASSUME IInv, [Next]_vars
      PROVE  [exact]_vars
  <2> SUFFICES ASSUME Next, NEW o \in alive \ alive'
               PROVE  asserted' = (valid(o) /\ handle[net_connection[o]] \in Live)
    BY <1>1
  <2>1. ObjectsTypeOK /\ StateIsTrue /\ ~asserted
    BY <1>1, Parts DEF Next
  <2>2. Destroy(o)
    BY DEF Next, Use, Network, objectVars, Construct, MoveConstruct, MoveAssign, accept, setPollGroup,
           close, Destroy
  <2>3. valid(o) => (connection_state[o] # "CLOSED" <=> handle[net_connection[o]] \in Live)
    BY <2>1, States DEF StateIsTrue, ObjectsTypeOK, ConnectionState
  <2>4. QED
    BY <2>1, <2>2, <2>3 DEF Destroy, stillOpen
<1>2. QED
  BY <1>1, ObjectInvariance, PTL DEF Spec, AssertionIsExact

\* An owner that stays where it is keeps its handle owned.
LEMMA StaysOwned ==
  ASSUME NEW p \in alive, valid(p), NEW q \in alive', net_connection'[q] = net_connection[p]
  PROVE  net_connection[p] \in Owned'
PROOF
  BY DEF Owned, valid

\* The move assignment is the one way in which a live connection may lose its
\* owner without the assertion (ClientConnection.cpp:50-63).
THEOREM OnlyAssignmentLosesAnOwner == Spec => UnownedOnlyWhenAssignedOver
PROOF
<1> DEFINE told == \A c \in Owned \ Owned' :
                     handle[c] \in Live =>
                       \/ asserted'
                       \/ \E o, other \in Object : net_connection[o] = c /\ MoveAssign(o, other)
<1>1. ASSUME IInv, [Next]_vars
      PROVE  [told]_vars
  <2> SUFFICES ASSUME Next, NEW c \in Owned, c \notin Owned', handle[c] \in Live
               PROVE  \/ asserted'
                      \/ \E o, other \in Object : net_connection[o] = c /\ MoveAssign(o, other)
    BY <1>1
  <2>1. ObjectsTypeOK /\ StateIsTrue
    BY <1>1, Parts
  <2>2. PICK p \in alive : valid(p) /\ net_connection[p] = c
    BY DEF Owned
  <2>3. \A q \in alive' : net_connection'[q] # c
    BY <2>2, StaysOwned
  <2>4. connection_state[p] # "CLOSED" /\ p \in Object
    BY <2>1, <2>2, States DEF StateIsTrue, ObjectsTypeOK
  <2>5. Use
    BY <2>2, <2>3 DEF Next, Network, objectVars
  <2>6. PICK o \in Object :
          \/ \E x \in Conn : Construct(o, x)
          \/ \E other \in Object : MoveConstruct(o, other) \/ MoveAssign(o, other)
          \/ accept(o) \/ setPollGroup(o) \/ close(o) \/ Destroy(o)
    BY <2>5 DEF Use
  <2>7. CASE accept(o) \/ setPollGroup(o) \/ close(o)
    BY <2>2, <2>3, <2>7 DEF accept, setPollGroup, close, objectVars
  <2>8. CASE \E x \in Conn : Construct(o, x)
    BY <2>1, <2>2, <2>3, <2>8 DEF Construct, ObjectsTypeOK
  <2>9. CASE Destroy(o)
    <3>1. p = o
      BY <2>2, <2>3, <2>9 DEF Destroy
    <3>2. QED
      BY <2>2, <2>4, <2>9, <3>1 DEF Destroy, stillOpen
  <2>10. ASSUME NEW other \in Object, MoveConstruct(o, other) \/ MoveAssign(o, other)
         PROVE  \/ asserted'
                \/ \E r, s \in Object : net_connection[r] = c /\ MoveAssign(r, s)
    <3>1. /\ o # other /\ alive' = alive \cup {o}
          /\ net_connection'[o] = net_connection[other]
          /\ \A q \in alive \ {o, other} : net_connection'[q] = net_connection[q]
      BY <2>1, <2>10 DEF MoveConstruct, MoveAssign, moved, invalidate, ObjectsTypeOK
    <3>2. p = o
      BY <2>2, <2>3, <3>1
    <3>3. MoveAssign(o, other)
      BY <2>2, <2>10, <3>2 DEF MoveConstruct
    <3>4. QED
      BY <2>2, <3>2, <3>3
  <2>11. QED
    BY <2>6, <2>7, <2>8, <2>9, <2>10
<1>2. QED
  BY <1>1, ObjectInvariance, PTL DEF Spec, UnownedOnlyWhenAssignedOver
=============================================================================

----------------------- MODULE ProviderConnectionProofs -----------------------
(***************************************************************************)
(* Proofs about ProviderConnection, for any number of concurrent requests  *)
(* and operations.  What makes the invariant inductive is what is known of *)
(* the copies operations hold: each was coherent when it was taken, and a  *)
(* copy never changes.  The compare-and-swap then compares two coherent    *)
(* documents, and equal versions mean equally often rotated sessions.      *)
(***************************************************************************)
EXTENDS ProviderConnection, TLAPS

\* Every copy an operation holds was a usable, coherent document, and a call
\* is only accepted below the version bound.
CopiesCoherent ==
  \A o \in Ops :
    /\ Coherent(op[o].doc)
    /\ op[o].pc # "idle" => op[o].doc.id # 0
    /\ op[o].pc = "persist" => op[o].doc.version < MaxVersion

\* A login waiting to be stored is one the provider has granted, and only a
\* stored document has an _id.
LoginsGranted ==
  /\ \A u \in Users : user[u].pc = "store" => user[u].login # 0
  /\ conn = NoConn <=> conn.id = 0

IInv == TypeOK /\ BundleMatchesVersion /\ CopiesCoherent /\ LoginsGranted

\* The three things the repository writes are coherent documents of the same
\* _id, and so is the update of record_reconnect_required.
LEMMA WritesCoherent ==
  ASSUME NEW c \in Connections, Coherent(c), c = NoConn <=> c.id = 0
  PROVE  /\ \A l \in 1..MaxLogins, s \in ResultStatus :
              /\ Connected(c, l, s) \in Connections
              /\ Coherent(Connected(c, l, s))
              /\ Connected(c, l, s).id # 0
         /\ c # NoConn => /\ Disconnected(c) \in Connections
                          /\ Coherent(Disconnected(c))
                          /\ Disconnected(c).id = c.id
         /\ \A doc \in Connections :
              /\ ReconnectRequired(c, doc) \in Connections
              /\ Coherent(doc) /\ doc.id # 0
                   => Coherent(ReconnectRequired(c, doc))
              /\ ReconnectRequired(c, doc).id = c.id
  <1> USE ConnectionAssumption
  <1> USE DEF Connections, Bundles, Status, ResultStatus, Usable
  <1>1. ASSUME NEW l \in 1..MaxLogins, NEW s \in ResultStatus
        PROVE  /\ Connected(c, l, s) \in Connections
               /\ Coherent(Connected(c, l, s))
               /\ Connected(c, l, s).id # 0
    BY <1>1 DEF Connected, Coherent, NoBundle
  <1>2. ASSUME c # NoConn
        PROVE  /\ Disconnected(c) \in Connections
               /\ Coherent(Disconnected(c))
               /\ Disconnected(c).id = c.id
    <2>1. NoBundle \in Bundles /\ NoBundle.gen = 0
      BY DEF NoBundle
    <2> QED BY <2>1 DEF Disconnected, Coherent
  <1>3. ASSUME NEW doc \in Connections
        PROVE  /\ ReconnectRequired(c, doc) \in Connections
               /\ Coherent(doc) /\ doc.id # 0
                    => Coherent(ReconnectRequired(c, doc))
               /\ ReconnectRequired(c, doc).id = c.id
    BY <1>3 DEF ReconnectRequired, Coherent, NoConn
  <1> QED BY <1>1, <1>2, <1>3

\* What compare_and_swap_bundle writes when its filter matches the copy.
LEMMA RotationCoherent ==
  ASSUME NEW c \in Connections, Coherent(c),
         NEW doc \in Connections, Coherent(doc), doc.version < MaxVersion,
         NEW s \in ResultStatus, CasMatches(c, doc)
  PROVE  /\ Rotated(c, doc, s) \in Connections
         /\ Coherent(Rotated(c, doc, s))
         /\ Rotated(c, doc, s).id = c.id
         /\ Rotated(c, doc, s).bundle.gen = c.bundle.gen + 1
  <1> USE ConnectionAssumption
  <1>1. c.version = doc.version /\ c.bundle.gen = doc.bundle.gen
    BY DEF CasMatches, Coherent, Connections, Bundles
  <1> DEFINE b == [login |-> doc.bundle.login, gen |-> doc.bundle.gen + 1]
  <1>2. Rotated(c, doc, s) = [id |-> c.id, status |-> s,
                              version |-> c.version + 1, bundle |-> b]
    BY DEF Rotated
  <1>3. b \in Bundles /\ b # NoBundle /\ b.gen = c.bundle.gen + 1
    BY <1>1 DEF Connections, Bundles, NoBundle, Coherent
  <1> HIDE DEF b
  <1>4. Rotated(c, doc, s) \in Connections
    BY <1>1, <1>2, <1>3 DEF Connections, Status
  <1>5. Coherent(Rotated(c, doc, s))
    BY <1>2, <1>3 DEF Coherent, Connections, ResultStatus, Usable
  <1> QED BY <1>2, <1>3, <1>4, <1>5

----------------------------------------------------------------------------
\* No step of the owner, of an administrator, of the provider or of an
\* operation leaves the inductive invariant.
LEMMA InvariantStep ==
  ASSUME IInv, [Next]_vars
  PROVE  IInv'
<1> USE ConnectionAssumption
<1> USE DEF IInv, TypeOK, BundleMatchesVersion, CopiesCoherent, LoginsGranted
<1>1. ASSUME NEW u \in Users, Connect(u) \/ Reconnect(u)
      PROVE  IInv'
  <2>1. Connect(u)
    BY <1>1 DEF Reconnect
  <2>2. [pc |-> "bootstrap", login |-> 0] \in Requests
    BY DEF Requests
  <2>3. TypeOK'
    BY <2>1, <2>2 DEF Connect
  <2> QED BY <2>1, <2>3 DEF Connect
<1>2. ASSUME NEW u \in Users, BootstrapAccepted(u)
      PROVE  IInv'
  <2>1. logins + 1 \in 1..MaxLogins
    BY <1>2 DEF BootstrapAccepted
  <2>2. [pc |-> "store", login |-> logins + 1] \in Requests
    BY <2>1 DEF Requests
  <2>3. user' \in [Users -> Requests]
    BY <1>2, <2>2 DEF BootstrapAccepted
  <2>4. alive' \in SUBSET (1..logins')
    BY <1>2 DEF BootstrapAccepted
  <2>5. TypeOK'
    BY <1>2, <2>1, <2>3, <2>4 DEF BootstrapAccepted
  <2> QED BY <1>2, <2>1, <2>5 DEF BootstrapAccepted
<1>3. ASSUME NEW u \in Users, BootstrapFailed(u)
      PROVE  IInv'
  BY <1>3 DEF BootstrapFailed, IdleUser, Requests
<1>4. ASSUME NEW u \in Users, StoreConnection(u)
      PROVE  IInv'
  <2>1. PICK s \in ResultStatus : conn' = Connected(conn, user[u].login, s)
    BY <1>4 DEF StoreConnection
  <2>2. user[u].login \in 1..MaxLogins
    BY <1>4 DEF StoreConnection, Requests
  <2>3. /\ conn' \in Connections
        /\ Coherent(conn')
        /\ conn'.id # 0
    BY <2>1, <2>2, WritesCoherent
  <2>4. conn' # NoConn
    BY <2>3 DEF NoConn
  <2>5. TypeOK'
    BY <1>4, <2>3 DEF StoreConnection, IdleUser, Requests
  <2> QED BY <1>4, <2>3, <2>4, <2>5 DEF StoreConnection, IdleUser
<1>5. CASE Disconnect
  <2>1. /\ conn' \in Connections
        /\ Coherent(conn')
        /\ conn'.id # 0
    BY <1>5, WritesCoherent DEF Disconnect
  <2>2. conn' # NoConn
    BY <2>1 DEF NoConn
  <2> QED BY <1>5, <2>1, <2>2 DEF Disconnect
<1>6. CASE DeleteForOwner
  <2>1. NoConn \in Connections /\ Coherent(NoConn) /\ NoConn.id = 0
    BY DEF NoConn, NoBundle, Connections, Bundles, Status, Coherent, Usable
  <2> QED BY <1>6, <2>1 DEF DeleteForOwner
<1>7. ASSUME NEW o \in Ops, StartOperation(o)
      PROVE  IInv'
  <2>1. conn.id # 0
    BY <1>7 DEF StartOperation, NoConn, Usable
  <2>2. [pc |-> "call", doc |-> conn, result |-> "connected"] \in Operations
    BY DEF Operations, ResultStatus, Usable
  <2>3. TypeOK'
    BY <1>7, <2>2 DEF StartOperation
  <2> QED BY <1>7, <2>1, <2>2, <2>3 DEF StartOperation
<1>8. ASSUME NEW o \in Ops, CallAccepted(o)
      PROVE  IInv'
  <2>1. PICK s \in ResultStatus :
          op' = [op EXCEPT ![o] = [pc |-> "persist", doc |-> op[o].doc,
                                   result |-> s]]
    BY <1>8 DEF CallAccepted
  <2>2. TypeOK'
    BY <1>8, <2>1 DEF CallAccepted, Operations
  <2> QED BY <1>8, <2>1, <2>2 DEF CallAccepted
<1>9. ASSUME NEW o \in Ops, CallRejected(o)
      PROVE  IInv'
  <2>1. TypeOK'
    BY <1>9 DEF CallRejected, Operations, ResultStatus
  <2> QED BY <1>9, <2>1 DEF CallRejected
<1>10. IdleOp \in Operations /\ IdleOp.pc = "idle" /\ Coherent(IdleOp.doc)
  BY DEF IdleOp, Operations, NoConn, NoBundle, Connections, Bundles, Status, Coherent,
         Usable, ResultStatus
<1>11. ASSUME NEW o \in Ops, EndOperation(o)
       PROVE  IInv'
  <2>1. TypeOK'
    BY <1>11, <1>10 DEF EndOperation
  <2> QED BY <1>11, <1>10, <2>1 DEF EndOperation
<1>12. ASSUME NEW o \in Ops, PersistRotatedBundle(o)
       PROVE  IInv'
  <2>1. /\ conn' \in Connections
        /\ Coherent(conn')
        /\ conn' = NoConn <=> conn'.id = 0
    <3>1. CASE CasMatches(conn, op[o].doc)
      <4>1. conn' = Rotated(conn, op[o].doc, op[o].result)
        BY <1>12, <3>1 DEF PersistRotatedBundle
      <4>2. op[o].doc.version < MaxVersion /\ op[o].doc \in Connections
            /\ op[o].result \in ResultStatus
        BY <1>12 DEF PersistRotatedBundle, Operations
      <4>3. /\ conn' \in Connections
            /\ Coherent(conn')
            /\ conn'.id = conn.id
        BY <3>1, <4>1, <4>2, RotationCoherent
      <4>4. conn.id # 0 /\ NoConn.id = 0
        BY <3>1 DEF CasMatches, NoConn
      <4> QED BY <4>3, <4>4
    <3>2. CASE ~CasMatches(conn, op[o].doc)
      BY <1>12, <3>2 DEF PersistRotatedBundle
    <3> QED BY <3>1, <3>2
  <2>2. TypeOK'
    BY <1>12, <2>1 DEF PersistRotatedBundle, Operations, ResultStatus, Usable
  <2> QED BY <1>12, <2>1, <2>2 DEF PersistRotatedBundle
<1>13. ASSUME NEW o \in Ops, RecordReconnectRequired(o)
       PROVE  IInv'
  <2>1. /\ conn' \in Connections
        /\ Coherent(conn')
        /\ conn'.id = conn.id
    BY <1>13, WritesCoherent DEF RecordReconnectRequired, Operations
  <2>2. conn' = NoConn <=> conn'.id = 0
    BY <1>13, <2>1 DEF RecordReconnectRequired, ReconnectRequired, NoConn
  <2>3. TypeOK'
    BY <1>13, <1>10, <2>1 DEF RecordReconnectRequired
  <2> QED BY <1>13, <1>10, <2>1, <2>2, <2>3 DEF RecordReconnectRequired
<1>14. ASSUME NEW l \in alive, Expire(l)
       PROVE  IInv'
  BY <1>14 DEF Expire
<1>15. CASE UNCHANGED vars
  BY <1>15 DEF vars
<1> QED
  BY <1>1, <1>2, <1>3, <1>4, <1>5, <1>6, <1>7, <1>8, <1>9, <1>11, <1>12,
     <1>13, <1>14, <1>15 DEF Next, UserStep, OperationStep

\* The connection collection starts empty and nobody is doing anything.
LEMMA InvariantInit == Init => IInv
  BY ConnectionAssumption
  DEF Init, IInv, TypeOK, BundleMatchesVersion, CopiesCoherent, LoginsGranted,
      Coherent, IdleUser, IdleOp, Requests, Operations, NoConn, NoBundle, Connections, Bundles,
      Status, ResultStatus, Usable

\* The inductive invariant holds of every behaviour.
LEMMA InvariantHolds == Spec => []IInv
  <1>1. IInv /\ [Next]_vars => IInv'
    BY InvariantStep
  <1> QED BY InvariantInit, <1>1, PTL DEF Spec

\* Every document stored and every request in flight is well formed, however
\* many requests and operations run at the same time.
THEOREM TypeCorrect == Spec => []TypeOK
  <1>1. IInv => TypeOK
    BY DEF IInv
  <1> QED BY InvariantHolds, <1>1, PTL

\* A usable connection always has a session to send, a disconnected one never
\* has, and the version counts the rotations of the session stored: for any
\* number of racing logins, disconnects, deletions and live operations.
THEOREM BundleGuarded == Spec => []BundleMatchesVersion
  <1>1. IInv => BundleMatchesVersion
    BY DEF IInv
  <1> QED BY InvariantHolds, <1>1, PTL

----------------------------------------------------------------------------
\* A login the owner is about to store is in no document and in no copy yet:
\* each login is stored by one request, once.
LoginsFresh ==
  /\ conn.bundle.login <= logins
  /\ \A o \in Ops : op[o].doc.bundle.login <= logins
  /\ \A u \in Users : user[u].pc = "store" =>
       /\ user[u].login <= logins
       /\ user[u].login # conn.bundle.login
       /\ \A o \in Ops : op[o].doc.bundle.login # user[u].login
       /\ \A v \in Users \ {u} : user[v].pc = "store"
                                   => user[v].login # user[u].login

\* A bundle without a login is no bundle, in the document and in the copies.
SessionsNamed ==
  /\ conn.bundle.login = 0 => conn.bundle = NoBundle
  /\ \A o \in Ops : op[o].pc # "idle" => op[o].doc.bundle.login # 0

LEMMA FreshStep ==
  ASSUME IInv, LoginsFresh, SessionsNamed, [Next]_vars
  PROVE  LoginsFresh' /\ SessionsNamed'
<1> USE DEF LoginsFresh, SessionsNamed
<1> DEFINE Fields == /\ logins \in Nat
                     /\ conn.bundle.login \in Nat
                     /\ \A o \in Ops : op[o].doc.bundle.login \in Nat
                     /\ \A u \in Users : user[u].login \in Nat
                     /\ op \in [Ops -> Operations]
                     /\ user \in [Users -> Requests]
                     /\ \A u \in Users : user[u].pc = "store"
                                          => user[u].login # 0
<1>1. Fields
  BY ConnectionAssumption
  DEF IInv, TypeOK, Connections, Bundles, Operations, Requests, LoginsGranted
<1> HIDE DEF Fields
<1>2. ASSUME NEW u \in Users, UserStep(u)
      PROVE  LoginsFresh' /\ SessionsNamed'
  <2>1. CASE Connect(u) \/ Reconnect(u)
    BY <1>1, <2>1 DEF Connect, Reconnect, Fields
  <2>2. CASE BootstrapAccepted(u)
    BY <1>1, <2>2 DEF BootstrapAccepted, Fields
  <2>3. CASE BootstrapFailed(u)
    BY <1>1, <2>3 DEF BootstrapFailed, IdleUser, Fields
  <2>4. CASE StoreConnection(u)
    <3>1. conn'.bundle.login = user[u].login
      BY <2>4 DEF StoreConnection, Connected
    <3> QED BY <1>1, <2>4, <3>1 DEF StoreConnection, IdleUser, Fields
  <2> QED BY <1>2, <2>1, <2>2, <2>3, <2>4 DEF UserStep
<1>3. CASE Disconnect \/ DeleteForOwner
  <2>1. conn'.bundle = NoBundle
    BY <1>3 DEF Disconnect, DeleteForOwner, Disconnected, NoConn
  <2>2. UNCHANGED <<logins, alive, user, op>>
    BY <1>3 DEF Disconnect, DeleteForOwner
  <2> QED BY <1>1, <2>1, <2>2 DEF NoBundle, Fields
<1>4. ASSUME NEW o \in Ops, OperationStep(o)
      PROVE  LoginsFresh' /\ SessionsNamed'
  <2>1. CASE StartOperation(o)
    BY <1>1, <2>1 DEF StartOperation, Fields
  <2>2. CASE CallAccepted(o) \/ CallRejected(o)
    BY <1>1, <2>2 DEF CallAccepted, CallRejected, Fields
  <2>3. CASE EndOperation(o)
    BY <1>1, <2>3 DEF EndOperation, IdleOp, NoConn, NoBundle, Fields
  <2>4. CASE PersistRotatedBundle(o)
    <3>1. \/ conn' = conn
          \/ conn'.bundle.login = op[o].doc.bundle.login
      BY <2>4 DEF PersistRotatedBundle, Rotated
    <3> QED BY <1>1, <2>4, <3>1 DEF PersistRotatedBundle, Fields
  <2>5. CASE RecordReconnectRequired(o)
    <3>1. conn'.bundle = conn.bundle
      BY <2>5 DEF RecordReconnectRequired, ReconnectRequired, IInv, TypeOK,
                  Connections
    <3> QED BY <1>1, <2>5, <3>1
            DEF RecordReconnectRequired, IdleOp, NoConn, NoBundle, Fields
  <2> QED BY <1>4, <2>1, <2>2, <2>3, <2>4, <2>5 DEF OperationStep
<1>5. ASSUME NEW l \in alive, Expire(l)
      PROVE  LoginsFresh' /\ SessionsNamed'
  BY <1>5 DEF Expire
<1>6. CASE UNCHANGED vars
  BY <1>6 DEF vars
<1> QED BY <1>2, <1>3, <1>4, <1>5, <1>6 DEF Next

\* The only step from one bundle of a login to another bundle of it is a
\* compare-and-swap that matched.
LEMMA RotationIsCas ==
  ASSUME IInv, LoginsFresh, SessionsNamed, [Next]_vars
  PROVE  RotationStep
<1> SUFFICES ASSUME conn.bundle.login = conn'.bundle.login,
                    conn.bundle # conn'.bundle
             PROVE  conn'.bundle.gen = conn.bundle.gen + 1
  BY DEF RotationStep
<1>1. ASSUME NEW u \in Users, UserStep(u)
      PROVE  FALSE
  <2>1. StoreConnection(u)
    BY <1>1 DEF UserStep, Connect, Reconnect, BootstrapAccepted, BootstrapFailed
  <2>2. conn'.bundle.login = user[u].login
    BY <2>1 DEF StoreConnection, Connected
  <2> QED BY <2>1, <2>2 DEF StoreConnection, LoginsFresh
<1>2. ASSUME Disconnect \/ DeleteForOwner
      PROVE  FALSE
  <2>1. conn'.bundle = NoBundle
    BY <1>2 DEF Disconnect, DeleteForOwner, Disconnected, NoConn
  <2> QED BY <2>1 DEF NoBundle, SessionsNamed
<1>3. ASSUME NEW o \in Ops, OperationStep(o)
      PROVE  conn'.bundle.gen = conn.bundle.gen + 1
  <2>1. CASE PersistRotatedBundle(o)
    <3>1. CasMatches(conn, op[o].doc)
      BY <2>1 DEF PersistRotatedBundle
    <3>2. conn' = Rotated(conn, op[o].doc, op[o].result)
      BY <2>1, <3>1 DEF PersistRotatedBundle
    <3>3. /\ conn \in Connections /\ Coherent(conn)
          /\ op[o].doc \in Connections /\ Coherent(op[o].doc)
          /\ op[o].result \in ResultStatus
          /\ op[o].doc.version < MaxVersion
      BY <2>1 DEF IInv, TypeOK, Operations, BundleMatchesVersion,
                  CopiesCoherent, PersistRotatedBundle
    <3> QED BY <3>1, <3>2, <3>3, RotationCoherent
  <2>2. CASE RecordReconnectRequired(o)
    <3>1. conn'.bundle = conn.bundle
      BY <2>2 DEF RecordReconnectRequired, ReconnectRequired, IInv, TypeOK,
                  Connections
    <3> QED BY <3>1
  <2> QED BY <1>3, <2>1, <2>2
          DEF OperationStep, StartOperation, CallAccepted, CallRejected,
              EndOperation
<1> QED BY <1>1, <1>2, <1>3 DEF Next, Expire, vars

\* No rotation of a session is lost or stored twice while its login stays in
\* place: what compare_and_swap_bundle is for.
THEOREM NoRotationLost == Spec => RotationsChain
  <1>1. Init => LoginsFresh /\ SessionsNamed
    BY DEF Init, LoginsFresh, SessionsNamed, IdleUser, IdleOp, NoConn, NoBundle
  <1>2. IInv /\ IInv' /\ LoginsFresh /\ SessionsNamed /\ [Next]_vars
          => LoginsFresh' /\ SessionsNamed'
    BY FreshStep
  <1>3. IInv /\ LoginsFresh /\ SessionsNamed /\ [Next]_vars
          => [RotationStep]_vars
    BY RotationIsCas
  <1> QED BY InvariantHolds, <1>1, <1>2, <1>3, PTL DEF Spec, RotationsChain

\* The document and the copies agree on the document a session belongs to.
OneHome ==
  /\ SessionsStayHome
  /\ \A o, p \in Ops :
       /\ op[o].doc.bundle.login # 0
       /\ op[o].doc.bundle.login = op[p].doc.bundle.login
       => op[o].doc.id = op[p].doc.id

LEMMA HomeStep ==
  ASSUME IInv, LoginsFresh, SessionsNamed, OneHome, [Next]_vars
  PROVE  OneHome'
<1> USE DEF OneHome, SessionsStayHome
<1>1. /\ conn \in Connections
      /\ op \in [Ops -> Operations]
      /\ conn.bundle # NoBundle => conn.bundle.login # 0
  BY DEF IInv, TypeOK, SessionsNamed
<1>2. IdleOp.doc.bundle.login = 0 /\ NoBundle.login = 0
  BY DEF IdleOp, NoConn, NoBundle
<1>3. ASSUME NEW u \in Users, UserStep(u)
      PROVE  OneHome'
  <2>1. CASE Connect(u) \/ Reconnect(u) \/ BootstrapAccepted(u) \/ BootstrapFailed(u)
    BY <2>1 DEF Connect, Reconnect, BootstrapAccepted, BootstrapFailed
  <2>2. CASE StoreConnection(u)
    <3>1. conn'.bundle.login = user[u].login /\ op' = op
      BY <2>2 DEF StoreConnection, Connected
    <3>2. \A o \in Ops : op[o].doc.bundle.login # user[u].login
      BY <2>2 DEF StoreConnection, LoginsFresh
    <3> QED BY <3>1, <3>2
  <2> QED BY <1>3, <2>1, <2>2 DEF UserStep
<1>4. CASE Disconnect \/ DeleteForOwner
  <2>1. conn'.bundle = NoBundle /\ op' = op
    BY <1>4 DEF Disconnect, DeleteForOwner, Disconnected, NoConn
  <2> QED BY <2>1
<1>5. ASSUME NEW o \in Ops, OperationStep(o)
      PROVE  OneHome'
  <2>1. CASE StartOperation(o)
    BY <1>1, <2>1 DEF StartOperation
  <2>2. CASE CallAccepted(o) \/ CallRejected(o)
    <3>1. conn' = conn /\ \A p \in Ops : op'[p].doc = op[p].doc
      BY <1>1, <2>2 DEF CallAccepted, CallRejected
    <3> QED BY <3>1
  <2>3. CASE EndOperation(o)
    <3>1. conn' = conn /\ \A p \in Ops : op'[p].doc = op[p].doc \/ op'[p] = IdleOp
      BY <1>1, <2>3 DEF EndOperation
    <3> QED BY <1>1, <1>2, <3>1
  <2>4. CASE PersistRotatedBundle(o)
    <3>1. \A p \in Ops : op'[p].doc = op[p].doc
      BY <1>1, <2>4 DEF PersistRotatedBundle
    <3>2. CASE CasMatches(conn, op[o].doc)
      <4>1. /\ conn'.id = op[o].doc.id
            /\ conn'.bundle.login = op[o].doc.bundle.login
        BY <2>4, <3>2 DEF PersistRotatedBundle, CasMatches, Rotated
      <4>2. op[o].doc.bundle.login # 0
        BY <2>4 DEF PersistRotatedBundle, SessionsNamed
      <4> QED BY <3>1, <4>1, <4>2
    <3>3. CASE ~CasMatches(conn, op[o].doc)
      <4>1. conn' = conn
        BY <2>4, <3>3 DEF PersistRotatedBundle
      <4> QED BY <3>1, <4>1
    <3> QED BY <3>2, <3>3
  <2>5. CASE RecordReconnectRequired(o)
    <3>1. /\ conn'.bundle = conn.bundle
          /\ conn'.id = conn.id
          /\ \A p \in Ops : op'[p].doc = op[p].doc \/ op'[p] = IdleOp
      BY <1>1, <2>5 DEF RecordReconnectRequired, ReconnectRequired, Connections
    <3> QED BY <1>1, <1>2, <3>1
  <2> QED BY <1>5, <2>1, <2>2, <2>3, <2>4, <2>5 DEF OperationStep
<1>6. ASSUME NEW l \in alive, Expire(l)
      PROVE  OneHome'
  BY <1>6 DEF Expire
<1>7. CASE UNCHANGED vars
  BY <1>7 DEF vars
<1> QED BY <1>3, <1>4, <1>5, <1>6, <1>7 DEF Next

\* A session never gets into a document other than the one its login was stored
\* in, however deletions, new logins and late rotations interleave: deleting a
\* user's connections is the end of the sessions in them.
THEOREM DeletedSessionsStayGone == Spec => []SessionsStayHome
  <1>1. Init => LoginsFresh /\ SessionsNamed /\ OneHome
    BY DEF Init, LoginsFresh, SessionsNamed, OneHome, SessionsStayHome, IdleUser, IdleOp,
           NoConn, NoBundle
  <1>2. IInv /\ IInv' /\ LoginsFresh /\ SessionsNamed /\ [Next]_vars
          => LoginsFresh' /\ SessionsNamed'
    BY FreshStep
  <1>3. IInv /\ LoginsFresh /\ SessionsNamed /\ OneHome /\ [Next]_vars => OneHome'
    BY HomeStep
  <1>4. OneHome => SessionsStayHome
    BY DEF OneHome
  <1> QED BY InvariantHolds, <1>1, <1>2, <1>3, <1>4, PTL DEF Spec
=============================================================================

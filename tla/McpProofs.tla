----------------------------- MODULE McpProofs -----------------------------
(***************************************************************************)
(* Proofs about the MCP servers: the inside of a connection (McpClient)    *)
(* and the connections of the process (Mcp), for any servers, commands,    *)
(* tasks, calls, callers and stoppers.                                     *)
(***************************************************************************)
EXTENDS McpClient, Mcp, FiniteSetTheorems, SequenceTheorems, TLAPS

(***************************************************************************)
(* The inside of a connection: ClientSpec. The inductive invariant has two *)
(* halves that meet where replies are read: what the server side holds,    *)
(* and what the callers and _pending hold.                                 *)
(***************************************************************************)
\* The process, the client's flags and the pipe: a reply has the id of the
\* request it answers.
ServerInv ==
  /\ process \in {"running", "exited"}
  /\ isDead \in BOOLEAN
  /\ reader \in {"reading", "done", "crashed"}
  /\ nextId \in 0..MaxRequests
  /\ asked \in SUBSET Request
  /\ stdout \in Seq(Request)
  /\ stop \in [Stoppers -> {"out", "stopping", "cleaning"}]
  /\ \A r \in asked : r.to = r.id
  /\ \A k \in 1..Len(stdout) : stdout[k].to = stdout[k].id

CallerTypes ==
  /\ pending \in [Ids -> Callers \cup {Nobody}]
  /\ where \in [Callers -> {"out", "waiting", "woken"}]
  /\ myId \in [Callers -> Ids \cup {Nobody}]
  /\ mine \in [Callers -> Ids \cup {Nobody}]
  /\ reply \in [Callers -> Request \cup {NoReply}]

\* An id above the counter is free, an id is the count of its request and one
\* caller's, and only a woken caller has a reply: the one to its id.
Matched ==
  /\ \A i \in Ids : pending[i] # Nobody => i <= nextId
  /\ PendingIsAwaited
  /\ \A c \in Callers : where[c] = "waiting" => myId[c] \in Ids
  /\ \A c \in Callers : myId[c] # Nobody => myId[c] <= nextId
  /\ \A c, d \in Callers : myId[c] = myId[d] /\ myId[c] # Nobody => c = d
  /\ \A c \in Callers : myId[c] = mine[c]
  /\ \A c \in Callers : reply[c] # NoReply =>
       where[c] = "woken" /\ reply[c].id = myId[c] /\ reply[c].to = reply[c].id

CallerInv == CallerTypes /\ Matched

ClientInv == ServerInv /\ CallerInv

-----------------------------------------------------------------------------
LEMMA InitIInv == ClientInit => ClientInv
  <1> SUFFICES ASSUME ClientInit PROVE ClientInv
    OBVIOUS
  <1>1. ServerInv
    <2>1. stdout \in Seq(Request) /\ Len(stdout) = 0
      BY DEF ClientInit
    <2>2. nextId \in 0..MaxRequests
      BY McpClientAssumption DEF ClientInit, McpClientAssumption
    <2>3. asked \in SUBSET Request /\ \A r \in asked : r.to = r.id
      BY DEF ClientInit
    <2>4. /\ isDead \in BOOLEAN
          /\ process \in {"running", "exited"}
          /\ reader \in {"reading", "done", "crashed"}
      BY DEF ClientInit
    <2>5. stop \in [Stoppers -> {"out", "stopping", "cleaning"}]
      BY DEF ClientInit
    <2> QED BY <2>1, <2>2, <2>3, <2>4, <2>5 DEF ServerInv
  <1>2. CallerInv
    BY McpClientAssumption DEF ClientInit, CallerInv, CallerTypes, Matched, PendingIsAwaited, Lost, McpClientAssumption, NoReply
  <1> QED BY <1>1, <1>2 DEF ClientInv

\* Once it crashed, the reader stays so.
CrashLasts == reader = "crashed" => reader' = "crashed"

\* A step that loses nobody keeps what PendingIsAwaited says of the lost.
LEMMA LostKept ==
  ASSUME PendingIsAwaited, CrashLasts, \A c \in Callers : Lost(c)' => Lost(c)
  PROVE  \A c \in Callers : Lost(c)' => reader' = "crashed" /\ \A d \in Callers : Lost(d)' => d = c
  BY DEF PendingIsAwaited, CrashLasts

\* A future is its caller's, and a caller's id leads to its own future or to none.
LEMMA OwnFuture ==
  ASSUME CallerInv, NEW c \in Callers, where[c] = "waiting"
  PROVE  myId[c] \in Ids /\ (pending[myId[c]] = c \/ Lost(c))
  <1>1. myId[c] \in Ids /\ myId[c] # Nobody
    BY McpClientAssumption DEF CallerInv, Matched, McpClientAssumption, Ids
  <1>2. CASE pending[myId[c]] = Nobody
    BY <1>1, <1>2 DEF Lost
  <1>3. CASE pending[myId[c]] # Nobody
    <2>1. PICK d \in Callers : pending[myId[c]] = d
      BY <1>1, <1>3 DEF CallerInv, CallerTypes
    <2>2. myId[d] = myId[c]
      BY <1>1, <2>1 DEF CallerInv, Matched, PendingIsAwaited
    <2> QED BY <1>1, <2>1, <2>2 DEF CallerInv, Matched
  <1> QED BY <1>2, <1>3

\* Whoever is failed was waiting, and only the lost wait afterwards.
LEMMA FailPendingKeeps ==
  ASSUME CallerInv, FailPending, CrashLasts, nextId \in Nat, nextId' \in Nat, nextId <= nextId'
  PROVE  CallerInv'
  <1>1. CallerTypes'
    BY McpClientAssumption DEF CallerInv, CallerTypes, FailPending, McpClientAssumption
  <1>2. ASSUME NEW c \in Callers, where'[c] = "waiting" PROVE where[c] = "waiting" /\ Lost(c)
    <2>1. where[c] = "waiting" /\ \A i \in Ids : pending[i] # c
      BY <1>2 DEF FailPending, CallerInv, CallerTypes
    <2> QED BY <2>1, OwnFuture
  <1>3. Matched'
    <2>1. \A i \in Ids : pending'[i] = Nobody
      BY DEF FailPending
    <2>2. \A c \in Callers : Lost(c)' => Lost(c)
      BY <1>2 DEF Lost
    <2>3. PendingIsAwaited'
      <3>1. \A c \in Callers : Lost(c)' => reader' = "crashed" /\ \A d \in Callers : Lost(d)' => d = c
        BY <2>2, LostKept DEF CallerInv, Matched
      <3>2. \A i \in Ids, c \in Callers : pending'[i] # c
        BY <2>1, McpClientAssumption DEF McpClientAssumption
      <3> QED BY <3>1, <3>2 DEF PendingIsAwaited
    <2>4. ASSUME NEW c \in Callers, reply[c] # NoReply
          PROVE  where'[c] = "woken"
      BY <2>4 DEF FailPending, CallerInv, CallerTypes, Matched
    <2>5. \A c \in Callers : where'[c] = "waiting" => myId'[c] \in Ids
      BY <1>2 DEF FailPending, CallerInv, Matched
    <2>6. \A c \in Callers : myId'[c] # Nobody => myId'[c] <= nextId'
      BY McpClientAssumption DEF FailPending, CallerInv, CallerTypes, Matched, McpClientAssumption, Ids
    <2>7. \A c \in Callers : reply'[c] # NoReply =>
            where'[c] = "woken" /\ reply'[c].id = myId'[c] /\ reply'[c].to = reply'[c].id
      BY <2>4 DEF FailPending, CallerInv, Matched
    <2>8. /\ \A c \in Callers : myId'[c] = mine'[c]
          /\ \A c, d \in Callers : myId'[c] = myId'[d] /\ myId'[c] # Nobody => c = d
      BY DEF FailPending, CallerInv, Matched
    <2> QED BY <2>1, <2>3, <2>5, <2>6, <2>7, <2>8 DEF Matched
  <1> QED BY <1>1, <1>3 DEF CallerInv

\* The end of a request frees its id and nobody else's.
LEMMA ReturnKeeps ==
  ASSUME CallerInv, NEW c \in Callers, Return(c), CrashLasts, nextId' = nextId
  PROVE  CallerInv'
  <1>1. CallerTypes'
    BY DEF CallerInv, CallerTypes, Return
  <1>2. ASSUME NEW d \in Callers, d # c
        PROVE  where'[d] = where[d] /\ myId'[d] = myId[d] /\ mine'[d] = mine[d] /\ reply'[d] = reply[d]
    BY <1>2 DEF Return, CallerInv, CallerTypes
  <1>3. where'[c] = "out" /\ myId'[c] = Nobody /\ mine'[c] = Nobody /\ reply'[c] = NoReply
    BY DEF Return, CallerInv, CallerTypes
  <1>4. \A i \in Ids : pending'[i] = IF i = myId[c] THEN Nobody ELSE pending[i]
    BY DEF Return
  <1>5. PendingIsAwaited'
    <2>1. ASSUME NEW i \in Ids, NEW d \in Callers, pending'[i] = d
          PROVE  where'[d] = "waiting" /\ myId'[d] = i
      <3>1. d # Nobody /\ i # Nobody
        BY McpClientAssumption DEF McpClientAssumption, Ids
      <3>2. pending[i] = d /\ i # myId[c]
        BY <1>4, <2>1, <3>1
      <3>3. where[d] = "waiting" /\ myId[d] = i
        BY <3>2 DEF CallerInv, Matched, PendingIsAwaited
      <3> QED BY <1>2, <3>2, <3>3
    <2>2. ASSUME NEW d \in Callers, Lost(d)' PROVE Lost(d)
      <3>1. d # c
        BY <1>3, <2>2 DEF Lost
      <3>2. where[d] = "waiting" /\ myId[d] \in Ids /\ myId[d] # myId[c]
        BY <1>2, <2>2, <3>1, McpClientAssumption
           DEF Lost, CallerInv, CallerTypes, Matched, McpClientAssumption, Ids
      <3> QED BY <1>2, <1>4, <2>2, <3>1, <3>2 DEF Lost
    <2>3. \A d \in Callers : Lost(d)' => reader' = "crashed" /\ \A e \in Callers : Lost(e)' => e = d
      BY <2>2, LostKept DEF CallerInv, Matched
    <2> QED BY <2>1, <2>3 DEF PendingIsAwaited
  <1>6. Matched'
    <2>1. \A i \in Ids : pending'[i] # Nobody => i <= nextId'
      BY <1>4 DEF CallerInv, Matched
    <2>2. \A d \in Callers : where'[d] = "waiting" => myId'[d] \in Ids
      BY <1>2, <1>3 DEF CallerInv, Matched
    <2>3. \A d \in Callers : myId'[d] # Nobody => myId'[d] <= nextId'
      BY <1>2, <1>3 DEF CallerInv, Matched
    <2>4. \A d, e \in Callers : myId'[d] = myId'[e] /\ myId'[d] # Nobody => d = e
      BY <1>2, <1>3 DEF CallerInv, Matched
    <2>5. \A d \in Callers : myId'[d] = mine'[d]
      BY <1>2, <1>3 DEF CallerInv, Matched
    <2>6. \A d \in Callers : reply'[d] # NoReply =>
            where'[d] = "woken" /\ reply'[d].id = myId'[d] /\ reply'[d].to = reply'[d].id
      BY <1>2, <1>3 DEF CallerInv, Matched
    <2> QED BY <1>5, <2>1, <2>2, <2>3, <2>4, <2>5, <2>6 DEF Matched
  <1> QED BY <1>1, <1>6 DEF CallerInv

\* A fresh id is one no caller has and no future is registered under.
LEMMA AskKeeps ==
  ASSUME ClientInv, NEW c \in Callers, Ask(c)
  PROVE  CallerInv'
  <1>1. nextId \in Nat /\ nextId + 1 \in Ids /\ nextId' = nextId + 1
    BY McpClientAssumption DEF Ask, ClientInv, ServerInv, Ids, McpClientAssumption
  <1>2. Nobody \notin Ids /\ Nobody \notin Callers
    BY McpClientAssumption DEF Ids, McpClientAssumption
  <1>3. CallerTypes'
    BY <1>1 DEF ClientInv, CallerInv, CallerTypes, Ask, FreshId
  <1>4. ASSUME NEW d \in Callers, d # c
        PROVE  where'[d] = where[d] /\ myId'[d] = myId[d] /\ mine'[d] = mine[d]
    BY <1>4 DEF Ask, ClientInv, CallerInv, CallerTypes
  <1>5. where'[c] = "waiting" /\ myId'[c] = nextId + 1 /\ mine'[c] = nextId + 1
    BY DEF Ask, ClientInv, CallerInv, CallerTypes, FreshId
  <1>6. \A i \in Ids : pending'[i] = IF i = nextId + 1 THEN c ELSE pending[i]
    BY <1>1 DEF Ask, ClientInv, CallerInv, CallerTypes, FreshId
  <1>7. \A d \in Callers : myId[d] # nextId + 1
    BY <1>1, <1>2 DEF ClientInv, CallerInv, Matched
  <1>8. where[c] = "out" /\ reply' = reply /\ reply[c] = NoReply
    BY DEF Ask, ClientInv, CallerInv, Matched
  <1>9. PendingIsAwaited'
    <2>1. ASSUME NEW i \in Ids, NEW d \in Callers, pending'[i] = d
          PROVE  where'[d] = "waiting" /\ myId'[d] = i
      <3>1. pending[i] = d => where[d] = "waiting" /\ myId[d] = i
        BY DEF ClientInv, CallerInv, Matched, PendingIsAwaited
      <3>2. CASE d = c
        BY <1>5, <1>6, <1>8, <2>1, <3>1, <3>2
      <3>3. CASE d # c
        BY <1>4, <1>6, <2>1, <3>1, <3>3
      <3> QED BY <3>2, <3>3
    <2>2. ASSUME NEW d \in Callers, Lost(d)' PROVE Lost(d)
      <3>1. d # c
        BY <1>1, <1>2, <1>5, <1>6, <2>2 DEF Lost
      <3>2. where[d] = "waiting" /\ myId[d] \in Ids /\ myId[d] # nextId + 1
        BY <1>4, <1>7, <2>2, <3>1 DEF Lost, ClientInv, CallerInv, Matched
      <3> QED BY <1>4, <1>6, <2>2, <3>1, <3>2 DEF Lost
    <2>3. CrashLasts
      BY DEF Ask, CrashLasts
    <2>4. \A d \in Callers : Lost(d)' => reader' = "crashed" /\ \A e \in Callers : Lost(e)' => e = d
      BY <2>2, <2>3, LostKept DEF ClientInv, CallerInv, Matched
    <2> QED BY <2>1, <2>4 DEF PendingIsAwaited
  <1>10. Matched'
    <2>1. \A i \in Ids : pending'[i] # Nobody => i <= nextId'
      BY <1>1, <1>6 DEF ClientInv, CallerInv, Matched, Ids
    <2>2. \A d \in Callers : where'[d] = "waiting" => myId'[d] \in Ids
      BY <1>1, <1>4, <1>5 DEF ClientInv, CallerInv, Matched
    <2>3. \A d \in Callers : myId'[d] # Nobody => myId'[d] <= nextId'
      <3> SUFFICES ASSUME NEW d \in Callers, d # c, myId[d] # Nobody PROVE myId[d] <= nextId + 1
        BY <1>1, <1>4, <1>5
      <3> QED BY <1>1 DEF ClientInv, CallerInv, CallerTypes, Matched, Ids
    <2>4. \A d, e \in Callers : myId'[d] = myId'[e] /\ myId'[d] # Nobody => d = e
      BY <1>4, <1>5, <1>7 DEF ClientInv, CallerInv, Matched
    <2>5. \A d \in Callers : myId'[d] = mine'[d]
      BY <1>4, <1>5 DEF ClientInv, CallerInv, Matched
    <2>6. \A d \in Callers : reply'[d] # NoReply =>
            where'[d] = "woken" /\ reply'[d].id = myId'[d] /\ reply'[d].to = reply'[d].id
      BY <1>4, <1>8 DEF ClientInv, CallerInv, Matched
    <2> QED BY <1>9, <2>1, <2>2, <2>3, <2>4, <2>5, <2>6 DEF Matched
  <1> QED BY <1>3, <1>10 DEF CallerInv

\* The reply handed out is the one to the caller's own request.
LEMMA ReadKeeps ==
  ASSUME ClientInv, Read
  PROVE  CallerInv'
  <1> DEFINE r == Head(stdout)
             c == pending[r.id]
  <1>1. r \in Request /\ r.to = r.id /\ r.id \in Ids
    <2>1. stdout \in Seq(Request) /\ stdout # <<>>
      BY DEF Read, ClientInv, ServerInv
    <2>2. r = stdout[1] /\ r \in Request /\ 1 \in 1..Len(stdout)
      BY <2>1, HeadTailProperties, EmptySeq
    <2> QED BY <2>2 DEF ClientInv, ServerInv, Request
  <1>2. Nobody \notin Ids /\ Nobody \notin Callers
    BY McpClientAssumption DEF Ids, McpClientAssumption
  <1>3. UNCHANGED <<nextId, myId, mine, reader>>
    BY DEF Read
  <1>4. CASE c = Nobody
    <2>1. UNCHANGED <<pending, where, reply>>
      BY <1>4 DEF Read
    <2> QED BY <1>3, <2>1 DEF ClientInv, CallerInv, CallerTypes, Matched, PendingIsAwaited, Lost
  <1>5. CASE c # Nobody
    <2>1. c \in Callers
      BY <1>1, <1>5 DEF ClientInv, CallerInv, CallerTypes
    <2>2. where[c] = "waiting" /\ myId[c] = r.id
      BY <1>1, <2>1 DEF ClientInv, CallerInv, Matched, PendingIsAwaited
    <2>3. /\ pending' = [pending EXCEPT ![r.id] = Nobody]
          /\ where' = [where EXCEPT ![c] = "woken"]
          /\ reply' = [reply EXCEPT ![c] = r]
      BY <1>5 DEF Read
    <2>4. CallerTypes'
      BY <1>1, <1>3, <2>1, <2>3 DEF ClientInv, CallerInv, CallerTypes
    <2>5. PendingIsAwaited'
      <3>1. \A i \in Ids : pending'[i] = IF i = r.id THEN Nobody ELSE pending[i]
        BY <1>1, <2>3 DEF ClientInv, CallerInv, CallerTypes
      <3>2. \A d \in Callers : where'[d] = IF d = c THEN "woken" ELSE where[d]
        BY <2>1, <2>3 DEF ClientInv, CallerInv, CallerTypes
      <3>3. ASSUME NEW i \in Ids, NEW d \in Callers, pending'[i] = d
            PROVE  where'[d] = "waiting" /\ myId'[d] = i
        <4>1. i # r.id /\ pending[i] = d
          BY <1>2, <3>1, <3>3
        <4>2. where[d] = "waiting" /\ myId[d] = i
          BY <4>1 DEF ClientInv, CallerInv, Matched, PendingIsAwaited
        <4> QED BY <1>3, <2>2, <3>2, <4>1, <4>2
      <3>4. ASSUME NEW d \in Callers, Lost(d)' PROVE Lost(d)
        <4>1. d # c /\ where[d] = "waiting" /\ pending'[myId[d]] = Nobody
          BY <1>3, <3>2, <3>4 DEF Lost
        <4>2. myId[d] \in Ids /\ myId[d] # r.id
          BY <1>2, <2>1, <2>2, <4>1 DEF ClientInv, CallerInv, Matched
        <4> QED BY <3>1, <4>1, <4>2 DEF Lost
      <3>5. \A d \in Callers : Lost(d)' => reader' = "crashed" /\ \A e \in Callers : Lost(e)' => e = d
        BY <1>3, <3>4, LostKept DEF ClientInv, CallerInv, Matched, CrashLasts
      <3> QED BY <3>3, <3>5 DEF PendingIsAwaited
    <2>6. \A i \in Ids : pending'[i] # Nobody => i <= nextId'
      BY <1>1, <1>3, <2>3 DEF ClientInv, CallerInv, CallerTypes, Matched
    <2>7. \A d \in Callers : where'[d] = "waiting" => myId'[d] \in Ids
      BY <1>3, <2>1, <2>3 DEF ClientInv, CallerInv, CallerTypes, Matched
    <2>8. ASSUME NEW d \in Callers, reply'[d] # NoReply
          PROVE  where'[d] = "woken" /\ reply'[d].id = myId'[d] /\ reply'[d].to = reply'[d].id
      <3>1. CASE d = c
        BY <1>1, <1>3, <2>1, <2>2, <2>3, <3>1 DEF ClientInv, CallerInv, CallerTypes
      <3>2. CASE d # c
        BY <1>3, <2>3, <2>8, <3>2 DEF ClientInv, CallerInv, CallerTypes, Matched
      <3> QED BY <3>1, <3>2
    <2>9. /\ \A d \in Callers : myId'[d] # Nobody => myId'[d] <= nextId'
          /\ \A d, e \in Callers : myId'[d] = myId'[e] /\ myId'[d] # Nobody => d = e
          /\ \A d \in Callers : myId'[d] = mine'[d]
      BY <1>3 DEF ClientInv, CallerInv, Matched
    <2>10. Matched'
      BY <2>5, <2>6, <2>7, <2>8, <2>9 DEF Matched
    <2> QED BY <2>4, <2>10 DEF CallerInv
  <1> QED BY <1>4, <1>5

\* A malformed error loses the one caller it was for: nobody was lost before, as
\* the reader was still reading.
LEMMA ReadRaisesKeeps ==
  ASSUME ClientInv, ReadRaises
  PROVE  CallerInv'
  <1> DEFINE r == Head(stdout)
             c == pending[r.id]
  <1>1. r.id \in Ids
    <2>1. stdout \in Seq(Request) /\ stdout # <<>>
      BY DEF ReadRaises, ClientInv, ServerInv
    <2>2. r \in Request
      BY <2>1, HeadTailProperties, EmptySeq
    <2> QED BY <2>2 DEF Request
  <1>2. Nobody \notin Ids /\ Nobody \notin Callers
    BY McpClientAssumption DEF Ids, McpClientAssumption
  <1>3. UNCHANGED <<nextId, where, myId, mine, reply>> /\ reader = "reading" /\ reader' = "crashed"
    BY DEF ReadRaises, callerVars
  <1>4. c \in Callers /\ where[c] = "waiting" /\ myId[c] = r.id
    BY <1>1 DEF ReadRaises, ClientInv, CallerInv, CallerTypes, Matched, PendingIsAwaited
  <1>5. \A i \in Ids : pending'[i] = IF i = r.id THEN Nobody ELSE pending[i]
    BY <1>1 DEF ReadRaises, ClientInv, CallerInv, CallerTypes
  <1>6. CallerTypes'
    BY <1>1, <1>3 DEF ReadRaises, ClientInv, CallerInv, CallerTypes
  <1> HIDE DEF r, c
  <1>7. PendingIsAwaited'
    <2>1. ASSUME NEW i \in Ids, NEW d \in Callers, pending'[i] = d
          PROVE  where'[d] = "waiting" /\ myId'[d] = i
      <3>1. pending[i] = d
        BY <1>2, <1>5, <2>1
      <3> QED BY <1>3, <3>1 DEF ClientInv, CallerInv, Matched, PendingIsAwaited
    <2>2. ASSUME NEW d \in Callers, Lost(d)' PROVE d = c
      <3>1. where[d] = "waiting" /\ ~Lost(d) /\ pending'[myId[d]] = Nobody
        BY <1>3, <2>2 DEF Lost, ClientInv, CallerInv, Matched, PendingIsAwaited
      <3>2. myId[d] \in Ids /\ pending[myId[d]] = d
        BY <3>1, OwnFuture DEF ClientInv
      <3>3. myId[d] = myId[c]
        BY <1>2, <1>4, <1>5, <3>1, <3>2
      <3> QED BY <1>2, <1>4, <3>2, <3>3 DEF ClientInv, CallerInv, Matched
    <2> QED BY <1>3, <2>1, <2>2 DEF PendingIsAwaited
  <1>8. \A i \in Ids : pending'[i] # Nobody => i <= nextId'
    BY <1>3, <1>5 DEF ClientInv, CallerInv, Matched
  <1>9. Matched'
    BY <1>3, <1>7, <1>8 DEF ClientInv, CallerInv, Matched
  <1> QED BY <1>6, <1>9 DEF CallerInv

\* What leaves the callers alone may make requests that came to nothing.
LEMMA IdleKeeps ==
  ASSUME CallerInv, CrashLasts, nextId \in Nat, nextId' \in Nat, nextId <= nextId',
         UNCHANGED <<pending, callerVars>>
  PROVE  CallerInv'
  <1>1. UNCHANGED <<pending, where, myId, mine, reply>>
    BY DEF callerVars
  <1>2. CallerTypes'
    BY <1>1 DEF CallerInv, CallerTypes
  <1>3. \A i \in Ids : pending'[i] # Nobody => i <= nextId'
    BY <1>1 DEF CallerInv, Matched, Ids
  <1>4. \A d \in Callers : myId'[d] # Nobody => myId'[d] <= nextId'
    BY <1>1 DEF CallerInv, CallerTypes, Matched, Ids
  <1>5. PendingIsAwaited'
    <2>1. \A c \in Callers : Lost(c)' => Lost(c)
      BY <1>1 DEF Lost
    <2>2. \A c \in Callers : Lost(c)' => reader' = "crashed" /\ \A d \in Callers : Lost(d)' => d = c
      BY <2>1, LostKept DEF CallerInv, Matched
    <2> QED BY <1>1, <2>2 DEF CallerInv, Matched, PendingIsAwaited
  <1>6. Matched'
    BY <1>1, <1>3, <1>4, <1>5 DEF CallerInv, Matched
  <1> QED BY <1>2, <1>6 DEF CallerInv

LEMMA MarkDeadKeeps ==
  ASSUME CallerInv, MarkDead, CrashLasts, nextId \in Nat, nextId' \in Nat, nextId <= nextId'
  PROVE  CallerInv'
  <1>1. CASE isDead
    BY <1>1, IdleKeeps DEF MarkDead
  <1>2. CASE ~isDead
    BY <1>2, FailPendingKeeps DEF MarkDead
  <1> QED BY <1>1, <1>2

LEMMA CallerStep == ClientInv /\ [ClientNext]_clientVars => CallerInv'
  <1> SUFFICES ASSUME ClientInv, [ClientNext]_clientVars PROVE CallerInv'
    OBVIOUS
  <1>1. CallerInv /\ nextId \in Nat /\ nextId + 1 \in Nat /\ nextId <= nextId + 1 /\ nextId <= nextId
    BY McpClientAssumption DEF ClientInv, ServerInv, McpClientAssumption
  <1>2. ASSUME NEW c \in Callers, Ask(c) PROVE CallerInv'
    BY <1>2, AskKeeps
  <1>3. ASSUME NEW c \in Callers, AskInVain(c) PROVE CallerInv'
    BY <1>1, <1>3, IdleKeeps DEF CrashLasts, AskInVain
  <1>4. ASSUME NEW c \in Callers, AskBroken(c) PROVE CallerInv'
    BY <1>1, <1>4, MarkDeadKeeps DEF CrashLasts, AskBroken
  <1>5. ASSUME NEW c \in Callers, Timeout(c) \/ Resume(c) PROVE CallerInv'
    BY <1>1, <1>5, ReturnKeeps DEF CrashLasts, Timeout, Resume
  <1>6. ASSUME NEW r \in asked, Answer(r) PROVE CallerInv'
    BY <1>1, <1>6, IdleKeeps DEF CrashLasts, Answer
  <1>7. CASE Exit
    BY <1>1, <1>7, IdleKeeps DEF CrashLasts, Exit
  <1>8. CASE Read
    BY <1>8, ReadKeeps
  <1>9. CASE ReadRaises
    BY <1>9, ReadRaisesKeeps
  <1>10. CASE ReadFails
    BY <1>1, <1>10, MarkDeadKeeps DEF CrashLasts, ReadFails
  <1>11. ASSUME NEW s \in Stoppers, StopBegin(s) PROVE CallerInv'
    BY <1>1, <1>11, IdleKeeps DEF CrashLasts, StopBegin
  <1>12. ASSUME NEW s \in Stoppers, StopRaises(s) PROVE CallerInv'
    BY <1>1, <1>12, IdleKeeps DEF CrashLasts, StopRaises
  <1>13. ASSUME NEW s \in Stoppers, StopEnd(s) PROVE CallerInv'
    BY <1>1, <1>13, FailPendingKeeps DEF CrashLasts, StopEnd
  <1>14. ASSUME NEW s \in Stoppers, StopAbandoned(s) PROVE CallerInv'
    BY <1>1, <1>14, IdleKeeps DEF CrashLasts, StopAbandoned
  <1>15. CASE UNCHANGED clientVars
    BY <1>1, <1>15, IdleKeeps DEF CrashLasts, clientVars
  <1> QED
    BY <1>2, <1>3, <1>4, <1>5, <1>6, <1>7, <1>8, <1>10, <1>11, <1>13, <1>14, <1>15, <1>9, <1>12 DEF ClientNext

-----------------------------------------------------------------------------
\* What the server was asked and what it answered only ever pairs an id with
\* the request that had it.
LEMMA HonestStep ==
  ASSUME ClientInv, [ClientNext]_clientVars
  PROVE  /\ asked' \in SUBSET Request /\ \A r \in asked' : r.to = r.id
         /\ stdout' \in Seq(Request) /\ \A k \in 1..Len(stdout') : stdout'[k].to = stdout'[k].id
  <1> DEFINE Asked == asked' \in SUBSET Request /\ \A r \in asked' : r.to = r.id
             Written == stdout' \in Seq(Request) /\ \A k \in 1..Len(stdout') : stdout'[k].to = stdout'[k].id
  <1>1. ASSUME asked' = asked PROVE Asked
    BY <1>1 DEF ClientInv, ServerInv
  <1>2. ASSUME stdout' = stdout PROVE Written
    BY <1>2 DEF ClientInv, ServerInv
  <1>3. ASSUME NEW c \in Callers, Ask(c) PROVE Asked /\ Written
    <2>1. nextId + 1 \in Ids
      BY <1>3, McpClientAssumption DEF Ask, ClientInv, ServerInv, Ids, McpClientAssumption
    <2>2. Asked
      BY <1>3, <2>1 DEF Ask, ClientInv, ServerInv, FreshId, Request
    <2> QED BY <1>2, <1>3, <2>2 DEF Ask
  <1>4. ASSUME NEW r \in asked, Answer(r) PROVE Asked /\ Written
    <2>1. r \in Request /\ r.to = r.id /\ stdout \in Seq(Request)
      BY DEF ClientInv, ServerInv
    <2>2. stdout' = Append(stdout, r)
      BY <1>4 DEF Answer
    <2>3. /\ stdout' \in Seq(Request) /\ Len(stdout') = Len(stdout) + 1
          /\ \A k \in 1..Len(stdout) : stdout'[k] = stdout[k]
          /\ stdout'[Len(stdout) + 1] = r
      BY <2>1, <2>2, AppendProperties
    <2>4. Written
      BY <2>1, <2>3, LenProperties DEF ClientInv, ServerInv
    <2> QED BY <1>1, <1>4, <2>4 DEF Answer
  <1>5. CASE Read \/ ReadRaises
    <2>1. stdout \in Seq(Request) /\ stdout # <<>> /\ stdout' = Tail(stdout)
      BY <1>5 DEF Read, ReadRaises, ClientInv, ServerInv
    <2>2. /\ stdout' \in Seq(Request) /\ Len(stdout') = Len(stdout) - 1
          /\ \A k \in 1..Len(stdout') : stdout'[k] = stdout[k + 1]
      BY <2>1, HeadTailProperties
    <2>3. Written
      BY <2>1, <2>2, LenProperties DEF ClientInv, ServerInv
    <2> QED BY <1>1, <1>5, <2>3 DEF Read, ReadRaises
  <1>6. ASSUME UNCHANGED serverVars PROVE Asked /\ Written
    BY <1>1, <1>2, <1>6 DEF serverVars
  <1>7. ASSUME NEW c \in Callers, AskInVain(c) \/ AskBroken(c) \/ Timeout(c) \/ Resume(c)
        PROVE  Asked /\ Written
    BY <1>6, <1>7 DEF AskInVain, AskBroken, Timeout, Resume
  <1>8. CASE Exit \/ ReadFails
    BY <1>6, <1>8 DEF Exit, ReadFails
  <1>9. ASSUME NEW s \in Stoppers, StopBegin(s) \/ StopRaises(s) \/ StopEnd(s) \/ StopAbandoned(s)
        PROVE  Asked /\ Written
    BY <1>6, <1>9 DEF StopBegin, StopRaises, StopEnd, StopAbandoned
  <1>10. CASE UNCHANGED clientVars
    BY <1>6, <1>10 DEF clientVars
  <1> QED BY <1>3, <1>4, <1>5, <1>7, <1>8, <1>9, <1>10 DEF ClientNext

\* The flags, the counter and the stoppers.
LEMMA FlagsStep ==
  ASSUME ClientInv, [ClientNext]_clientVars
  PROVE  /\ process' \in {"running", "exited"} /\ isDead' \in BOOLEAN /\ reader' \in {"reading", "done", "crashed"}
         /\ nextId' \in 0..MaxRequests
         /\ stop' \in [Stoppers -> {"out", "stopping", "cleaning"}]
  <1>1. process' \in {"running", "exited"}
    BY DEF ClientInv, ServerInv, ClientNext, clientVars, Ask, AskInVain, AskBroken, Timeout, Resume, Answer, Exit,
           Read, ReadRaises, ReadFails, StopBegin, StopRaises, StopEnd, StopAbandoned
  <1>2. isDead' = isDead \/ isDead' = TRUE
    BY DEF ClientNext, clientVars, Ask, AskInVain, AskBroken, MarkDead, Timeout, Resume, Answer, Exit,
           Read, ReadRaises, ReadFails, StopBegin, StopRaises, StopEnd, StopAbandoned
  <1>3. isDead' \in BOOLEAN
    BY <1>2 DEF ClientInv, ServerInv
  <1>4. reader' \in {"reading", "done", "crashed"}
    BY DEF ClientInv, ServerInv, ClientNext, clientVars, Ask, AskInVain, AskBroken, Timeout, Resume, Answer, Exit,
           Read, ReadRaises, ReadFails, StopBegin, StopRaises, StopEnd, StopAbandoned
  <1>5. nextId' = nextId \/ (nextId < MaxRequests /\ nextId' = nextId + 1)
    <2>1. CASE \E c \in Callers : Ask(c) \/ AskInVain(c) \/ AskBroken(c)
      BY <2>1 DEF Ask, AskInVain, AskBroken
    <2>2. CASE ~\E c \in Callers : Ask(c) \/ AskInVain(c) \/ AskBroken(c)
      BY <2>2 DEF ClientNext, clientVars, Timeout, Resume, Answer, Exit, Read, ReadRaises, ReadFails,
                  StopBegin, StopRaises, StopEnd, StopAbandoned
    <2> QED BY <2>1, <2>2
  <1>6. nextId' \in 0..MaxRequests
    BY <1>5, McpClientAssumption DEF ClientInv, ServerInv, McpClientAssumption
  <1>7. stop' = stop \/ \E s \in Stoppers, v \in {"out", "stopping", "cleaning"} : stop' = [stop EXCEPT ![s] = v]
    <2>1. ASSUME NEW s \in Stoppers, StopBegin(s) \/ StopEnd(s) \/ StopAbandoned(s)
          PROVE  \E v \in {"out", "stopping", "cleaning"} : stop' = [stop EXCEPT ![s] = v]
      <3>1. CASE StopBegin(s) /\ IsAlive
        BY <3>1 DEF StopBegin
      <3>2. CASE StopBegin(s) /\ ~IsAlive
        BY <3>2 DEF StopBegin
      <3>3. CASE StopEnd(s) \/ StopAbandoned(s)
        BY <3>3 DEF StopEnd, StopAbandoned
      <3> QED BY <2>1, <3>1, <3>2, <3>3
    <2>2. CASE \A s \in Stoppers : ~(StopBegin(s) \/ StopEnd(s) \/ StopAbandoned(s))
      BY <2>2 DEF ClientNext, clientVars, Ask, AskInVain, AskBroken, Timeout, Resume, Answer, Exit, Read,
                  ReadRaises, ReadFails, StopRaises
    <2> QED BY <2>1, <2>2
  <1>8. stop' \in [Stoppers -> {"out", "stopping", "cleaning"}]
    BY <1>7 DEF ClientInv, ServerInv
  <1> QED BY <1>1, <1>3, <1>4, <1>6, <1>8

LEMMA StepIInv == ClientInv /\ [ClientNext]_clientVars => ClientInv'
  <1> SUFFICES ASSUME ClientInv, [ClientNext]_clientVars PROVE ClientInv'
    OBVIOUS
  <1>1. ServerInv'
    BY HonestStep, FlagsStep DEF ServerInv
  <1> QED BY <1>1, CallerStep DEF ClientInv

LEMMA Inductive == ClientSpec => []ClientInv
  BY InitIInv, StepIInv, PTL DEF ClientSpec

-----------------------------------------------------------------------------
\* Flags, ids, futures, replies and the pipe keep their types (mcp/client.py).
THEOREM ClientTypeCorrect == ClientSpec => []ClientTypeOK
  <1>1. ClientInv => ClientTypeOK
    BY DEF ClientInv, ServerInv, CallerInv, CallerTypes, ClientTypeOK
  <1> QED BY <1>1, Inductive, PTL

\* A caller of _request resumes with the answer to its own request, whatever
\* came late, twice or out of order before.
THEOREM AnswersTheirOwn == ClientSpec => []OwnAnswer
  <1>1. ClientInv => OwnAnswer
    BY DEF ClientInv, CallerInv, Matched, OwnAnswer
  <1> QED BY <1>1, Inductive, PTL

\* Every future in _pending is one that its caller waits on, and every caller that
\* waits has its future there, but for the single one whose malformed error ended
\* the reader (PendingIsAwaited).
THEOREM NoneLeftPending == ClientSpec => []PendingIsAwaited
  <1>1. ClientInv => PendingIsAwaited
    BY DEF ClientInv, CallerInv, Matched
  <1> QED BY <1>1, Inductive, PTL

-----------------------------------------------------------------------------
(***************************************************************************)
(* The connections of the process: Spec of Mcp. Once two lifecycle         *)
(* operations crossed nothing is claimed but the types; until then the     *)
(* invariant says who is in flight, which object stands for which name,    *)
(* and how far the operation in flight has brought the table.              *)
(***************************************************************************)

\* At most one lifecycle operation is in flight: start() while the process boots,
\* shutdown() while it ends, and a resync in between.
Alone ==
  /\ \A t, u \in Tasks : InFlight(t) /\ InFlight(u) => t = u
  /\ \A t \in Resyncs : pc[t] # "out" => phase = "serving"
  /\ pc[Main] \in {"looping", "stopping", "starting"} <=> phase \in {"booting", "closing"}
  /\ pc[Main] \notin {"refreshing", "scheduled"}
  /\ pc[Main] = "stopping" => phase = "closing"
  /\ pc[Main] = "starting" => phase = "booting"

\* Only who awaits a stop or a start has an object in hand, and no call has the
\* one that starts.
Locals ==
  /\ \A t \in Tasks : cur[t] # None <=> pc[t] \in {"stopping", "starting"}
  /\ \A t \in Resyncs : pc[t] = "stopping" =>
       at[t] \in Servers \ visit[t] /\ table[at[t]] = cur[t]
  /\ \A t \in Tasks : pc[t] = "starting" =>
       /\ \A k \in Calls : on[k] # cur[t]
       /\ ~held[cur[t]] /\ ~dead[cur[t]]
       /\ srv[cur[t]] \in Servers /\ table[srv[cur[t]]] = cur[t]
       /\ cmd[cur[t]] = target[t][srv[cur[t]]]
       /\ jammed[cur[t]] => cur[t] \in mute
  /\ \A k \in Calls : on[k] # None <=> call[k] # "out"
  /\ \A k \in Calls : call[k] # "out" => phase = "serving"

\* The table files an object under its name, and a process is one the table leads to.
Filed == \A s \in Servers : table[s] # None => srv[table[s]] = s /\ cmd[table[s]] # Off
AllOwned == \A o \in Objects \ mute : proc[o] = "running" => Owned(o)

\* What a name is to be once a task has treated it.
Fits(w, s) ==
  /\ w[s] = Off => table[s] = None
  /\ table[s] # None /\ held[table[s]] => cmd[table[s]] = w[s]
Treated(t, s) ==
  /\ Fits(target[t], s)
  /\ table[s] # None /\ held[table[s]] /\ dead[table[s]] =>
       proc[table[s]] # "running" \/ table[s] \in mute

\* The settings a resync works towards are those in force, or another one will follow.
Aims ==
  \A t \in Resyncs : pc[t] \in {"scheduled", "looping", "stopping", "starting"} =>
    target[t] = wanted \/ \E u \in Resyncs : pc[u] = "refreshing"

\* How far a resync is.
ResyncInv ==
  \A t \in Resyncs : Working(t) =>
    /\ \A s \in visit[t] : table[s] # None
    /\ \A s \in Servers \ visit[t] : (pc[t] = "stopping" /\ at[t] = s) \/ Treated(t, s)
    /\ \A s \in Enabled(target[t]) \ fill[t] : table[s] # None
    /\ fill[t] \subseteq Enabled(target[t])
    /\ pc[t] = "starting" => visit[t] = {}

\* How far start() is.
BootInv ==
  phase = "booting" =>
    /\ target[Main] = wanted /\ visit[Main] = {} /\ fill[Main] \subseteq Enabled(wanted)
    /\ \A s \in Servers : wanted[s] = Off \/ s \in fill[Main] => table[s] = None
    /\ \A s \in Enabled(wanted) \ fill[Main] : table[s] # None
    /\ \A s \in Servers : Fits(wanted, s)

\* How far shutdown() is, and what start() left.
CloseInv ==
  /\ phase # "booting" => fill[Main] = {}
  /\ phase = "closing" =>
       /\ size = Cardinality(Names)
       /\ \A s \in Servers \ visit[Main] :
            table[s] # None /\ held[table[s]] => cur[Main] = table[s]
  /\ phase = "closed" => \A o \in Objects \ mute : proc[o] # "running"

Orderly ==
  /\ Alone /\ Locals /\ Filed /\ AllOwned
  /\ Aims /\ ResyncInv /\ BootInv /\ CloseInv /\ ConnectedAsConfigured

McpInv == TypeOK /\ (~crossed => Orderly)

-----------------------------------------------------------------------------
(* Types. *)

LEMMA NamesSize == Cardinality(Names) \in 0..Cardinality(Servers) /\ 0 \in 0..Cardinality(Servers)
<1>1. IsFiniteSet(Servers) /\ Names \subseteq Servers
  BY McpAssumption DEF McpAssumption, Names
<1>2. Cardinality(Names) \in Nat /\ Cardinality(Servers) \in Nat
      /\ Cardinality(Names) <= Cardinality(Servers)
  BY <1>1, FS_Subset, FS_CardinalityType
<1> QED BY <1>2

LEMMA OffTarget == [s \in Servers |-> Off] \in Targets
BY DEF Targets

LEMMA TypeInit == ASSUME NEW w \in Targets, Booted(w) PROVE TypeOK
<1>1. 0 \in 0..Cardinality(Servers)
  BY NamesSize
<1> QED BY <1>1, OffTarget DEF Booted, TypeOK, Enabled

LEMMA LeaveTypes ==
  ASSUME TypeOK, NEW t \in Tasks, Leave(t)
  PROVE  /\ pc' \in [Tasks -> {"out", "refreshing", "scheduled", "looping", "stopping", "starting"}]
         /\ target' \in [Tasks -> Targets]
         /\ visit' \in [Tasks -> SUBSET Servers] /\ fill' \in [Tasks -> SUBSET Servers]
         /\ at' \in [Tasks -> Servers \cup {None}] /\ cur' \in [Tasks -> Objects \cup {None}]
         /\ size' = size
BY OffTarget DEF Leave, TypeOK

LEMMA NewIsFree == Free # {} => NewObject \in Free
BY DEF NewObject

LEMMA TypeStep == TypeOK /\ [Next]_vars => TypeOK'
<1> SUFFICES ASSUME TypeOK, [Next]_vars PROVE TypeOK'
  OBVIOUS
<1> USE DEF objVars, taskVars, callVars, history, Tasks
<1>1. ASSUME NEW t \in Resyncs, Apply(t) PROVE TypeOK'
  BY <1>1 DEF Apply, TypeOK
<1>2. ASSUME NEW t \in Resyncs, DeferredCommit(t) PROVE TypeOK'
  <2>1. crossed' \in BOOLEAN
    BY <1>2 DEF DeferredCommit
  <2> QED BY <1>2, <2>1 DEF DeferredCommit, TypeOK
<1>3. ASSUME NEW t \in Tasks, Scheduled(t) PROVE TypeOK'
  BY <1>3 DEF Scheduled, BeginResync, TypeOK, Names, Enabled
<1>4. ASSUME NEW t \in Tasks, Refreshed(t) PROVE TypeOK'
  <2>1. crossed' \in BOOLEAN
    BY <1>4 DEF Refreshed
  <2> QED BY <1>4, <2>1 DEF Refreshed, BeginResync, TypeOK, Names, Enabled
<1>5. ASSUME NEW t \in Tasks, NEW s \in Servers, Sweep(t, s) PROVE TypeOK'
  <2>1. visit' \in [Tasks -> SUBSET Servers]
    BY <1>5 DEF Sweep, TypeOK
  <2>2. table' \in [Servers -> Objects \cup {None}]
    BY <1>5 DEF Sweep, Drop, TypeOK
  <2>3. table[s] \in Objects
    BY <1>5 DEF Sweep, TypeOK
  <2>4. \/ dead' = dead /\ pc' = pc /\ at' = at /\ cur' = cur
        \/ /\ dead' = [dead EXCEPT ![table[s]] = TRUE]
           /\ pc' = [pc EXCEPT ![t] = "stopping"]
           /\ at' = [at EXCEPT ![t] = s]
           /\ cur' = [cur EXCEPT ![t] = table[s]]
    BY <1>5 DEF Sweep
  <2>5. /\ dead' \in [Objects -> BOOLEAN]
        /\ pc' \in [Tasks -> {"out", "refreshing", "scheduled", "looping", "stopping", "starting"}]
        /\ at' \in [Tasks -> Servers \cup {None}] /\ cur' \in [Tasks -> Objects \cup {None}]
    <3>1. dead' \in [Objects -> BOOLEAN]
      BY <2>3, <2>4 DEF TypeOK
    <3>2. pc' \in [Tasks -> {"out", "refreshing", "scheduled", "looping", "stopping", "starting"}]
      BY <2>4 DEF TypeOK
    <3>3. at' \in [Tasks -> Servers \cup {None}]
      BY <2>4 DEF TypeOK
    <3>4. cur' \in [Tasks -> Objects \cup {None}]
      BY <2>3, <2>4 DEF TypeOK
    <3> QED BY <3>1, <3>2, <3>3, <3>4
  <2> QED BY <1>5, <2>1, <2>2, <2>5 DEF Sweep, TypeOK
<1>6. ASSUME NEW t \in Tasks, NEW s \in Servers, SweepRaises(t, s) PROVE TypeOK'
  BY <1>6, LeaveTypes DEF SweepRaises, TypeOK
<1>7. ASSUME NEW t \in Tasks, SweepStopped(t) PROVE TypeOK'
  <2>1. table' \in [Servers -> Objects \cup {None}]
    BY <1>7 DEF SweepStopped, Drop, TypeOK
  <2>2. /\ proc' \in [Objects -> {"none", "running", "exited"}] /\ held' \in [Objects -> BOOLEAN]
    BY <1>7 DEF SweepStopped, Stopped, TypeOK
  <2> QED BY <1>7, <2>1, <2>2, LeaveTypes DEF SweepStopped, Stopped, TypeOK
<1>8. ASSUME NEW t \in Tasks, NEW s \in Servers, Fill(t, s) PROVE TypeOK'
  <2> DEFINE Kept == table[s] # None /\ held[table[s]] /\ Alive(table[s])
  <2>1. CASE ~Kept
    <3>1. StartOne(t, s)
      BY <1>8, <2>1 DEF Fill
    <3>2. NewObject \in Objects /\ target[t][s] \in Commands \cup {Off}
      BY <3>1, NewIsFree DEF StartOne, Free, TypeOK, Targets
    <3> QED BY <1>8, <3>1, <3>2 DEF Fill, StartOne, TypeOK
  <2>2. CASE Kept
    <3>1. UNCHANGED <<table, srv, cmd, held, dead, proc, jammed, pc, cur, mute>>
      BY <1>8, <2>2 DEF Fill
    <3>2. fill' \in [Tasks -> SUBSET Servers]
      BY <1>8 DEF Fill, TypeOK
    <3>3. UNCHANGED <<phase, wanted, target, visit, at, size, call, on, crossed, raised>>
      BY <1>8 DEF Fill
    <3> QED BY <3>1, <3>2, <3>3 DEF TypeOK
  <2> QED BY <2>1, <2>2
<1>9. ASSUME NEW t \in Tasks, Started(t) PROVE TypeOK'
  BY <1>9 DEF Started, TypeOK
<1>10. ASSUME NEW t \in Tasks, StartFails(t) PROVE TypeOK'
  BY <1>10 DEF StartFails, TypeOK
<1>11. ASSUME NEW t \in Tasks, Done(t) PROVE TypeOK'
  BY <1>11, LeaveTypes DEF Done, TypeOK
<1>12. ASSUME NEW o \in Objects, Crash(o) PROVE TypeOK'
  BY <1>12 DEF Crash, TypeOK
<1>13. ASSUME NEW o \in Objects, Deafen(o) PROVE TypeOK'
  <2>1. mute' \in SUBSET Objects
    BY <1>13 DEF Deafen, TypeOK
  <2> QED BY <1>13, <2>1 DEF Deafen, TypeOK
<1>14. ASSUME NEW k \in Calls, NEW s \in Servers, Call(k, s) PROVE TypeOK'
  BY <1>14 DEF Call, TypeOK
<1>15. ASSUME NEW k \in Calls, CallReturns(k) \/ CallAbandoned(k) PROVE TypeOK'
  BY <1>15 DEF CallReturns, CallAbandoned, EndCall, TypeOK
<1>16. ASSUME NEW k \in Calls, CallFindsItDead(k) PROVE TypeOK'
  BY <1>16 DEF CallFindsItDead, TypeOK
<1>17. ASSUME NEW k \in Calls, CallCleans(k) PROVE TypeOK'
  BY <1>17 DEF CallCleans, Stopped, EndCall, TypeOK
<1>18. CASE BeginShutdown
  <2>1. crossed' \in BOOLEAN
    BY <1>18 DEF BeginShutdown
  <2> QED BY <1>18, <2>1, NamesSize DEF BeginShutdown, TypeOK, Names
<1>19. ASSUME NEW s \in Servers, Shutdown(s) PROVE TypeOK'
  <2>1. /\ visit' \in [Tasks -> SUBSET Servers]
        /\ UNCHANGED <<phase, wanted, table, srv, cmd, held, proc, jammed, target, fill, at, size, callVars, history>>
    BY <1>19 DEF Shutdown, TypeOK
  <2>2. CASE table[s] # None /\ held[table[s]]
    <3>1. table[s] \in Objects
      BY <2>2 DEF TypeOK
    <3>2. /\ dead' \in [Objects -> BOOLEAN] /\ cur' \in [Tasks -> Objects \cup {None}]
          /\ pc' \in [Tasks -> {"out", "refreshing", "scheduled", "looping", "stopping", "starting"}]
      BY <1>19, <2>2, <3>1 DEF Shutdown, TypeOK
    <3> QED BY <2>1, <3>2 DEF TypeOK
  <2>3. CASE ~(table[s] # None /\ held[table[s]])
    <3>1. UNCHANGED <<dead, pc, cur>>
      BY <1>19, <2>3 DEF Shutdown
    <3> QED BY <2>1, <3>1 DEF TypeOK
  <2> QED BY <2>2, <2>3
<1>20. CASE ShutdownStopped
  BY <1>20 DEF ShutdownStopped, Stopped, TypeOK
<1>21. CASE ShutdownOver
  BY <1>21, LeaveTypes DEF ShutdownOver, TypeOK
<1>22. CASE Reboot
  <2>1. 0 \in 0..Cardinality(Servers)
    BY NamesSize
  <2> QED BY <1>22, <2>1, OffTarget DEF Reboot, TypeOK, Enabled
<1>23. ASSUME NEW t \in Tasks, NEW s \in Servers, SweepCannotStop(t, s) PROVE TypeOK'
  BY <1>23, LeaveTypes DEF SweepCannotStop, TypeOK
<1>24. ASSUME NEW t \in Tasks, StartRaises(t) PROVE TypeOK'
  BY <1>24, LeaveTypes DEF StartRaises, TypeOK
<1>25. ASSUME NEW o \in Objects, Jam(o) PROVE TypeOK'
  <2>1. mute' \in SUBSET Objects
    BY <1>25 DEF Jam, TypeOK
  <2> QED BY <1>25, <2>1 DEF Jam, TypeOK
<1>26. ASSUME NEW k \in Calls, CallCannotStop(k) PROVE TypeOK'
  BY <1>26 DEF CallCannotStop, EndCall, TypeOK
<1>27. ASSUME NEW s \in Servers, ShutdownRaises(s) PROVE TypeOK'
  BY <1>27, LeaveTypes DEF ShutdownRaises, TypeOK
<1>28. CASE UNCHANGED vars
  BY <1>28 DEF vars, TypeOK
<1> QED
  BY <1>1, <1>2, <1>3, <1>4, <1>5, <1>6, <1>7, <1>8, <1>9, <1>10, <1>11, <1>12, <1>13, <1>14,
     <1>15, <1>16, <1>17, <1>18, <1>19, <1>20, <1>21, <1>22, <1>23, <1>24, <1>25, <1>26, <1>27, <1>28
  DEF Next, LoopStep, ShutdownStep

-----------------------------------------------------------------------------
(* Commits. *)

LEMMA ApplyKeeps ==
  ASSUME TypeOK, TypeOK', Orderly, ~crossed', NEW t \in Resyncs, Apply(t)
  PROVE  Orderly'
<1> USE McpAssumption DEF McpAssumption, Apply, Orderly, TypeOK, Tasks,
           objVars, taskVars, callVars, history
<1>1. Alone'
  BY DEF Alone, InFlight
<1>2. Locals'
  BY DEF Locals, Alone, InFlight
<1>3. Filed' /\ AllOwned'
  BY DEF Filed, AllOwned, Owned, Locals
<1>4. Aims' /\ ResyncInv'
  BY DEF Aims, ResyncInv, Treated, Fits, Working, Alone, InFlight, Locals, Filed
<1>5. BootInv'
  BY DEF BootInv, Fits, Alone, InFlight, Locals, Filed
<1>6. CloseInv'
  <2>1. Names' = Names
    BY DEF Names
  <2> QED BY <2>1 DEF CloseInv, Alone, Locals, InFlight
<1>7. ConnectedAsConfigured'
  BY DEF ConnectedAsConfigured
<1> QED BY <1>1, <1>2, <1>3, <1>4, <1>5, <1>6, <1>7

LEMMA DeferredKeeps ==
  ASSUME TypeOK, TypeOK', Orderly, ~crossed', NEW t \in Resyncs, DeferredCommit(t)
  PROVE  Orderly'
<1> USE McpAssumption DEF McpAssumption, DeferredCommit, OthersInFlight, Orderly, TypeOK, Tasks,
           objVars, taskVars, callVars, history
<1>1. Alone'
  BY DEF Alone, InFlight
<1>2. Locals'
  BY DEF Locals, Alone, InFlight
<1>3. Filed' /\ AllOwned'
  BY DEF Filed, AllOwned, Owned, Locals
<1>4. Aims'
  BY DEF Aims, Alone, InFlight
<1>5. ResyncInv'
  BY DEF ResyncInv, Treated, Fits, Working, Alone, InFlight, Locals, Filed
<1>6. BootInv'
  BY DEF BootInv, Fits, Alone, InFlight, Locals, Filed
<1>7. CloseInv'
  <2>1. Names' = Names
    BY DEF Names
  <2> QED BY <2>1 DEF CloseInv, Alone, Locals, InFlight
<1>8. ConnectedAsConfigured'
  BY DEF ConnectedAsConfigured
<1> QED BY <1>1, <1>2, <1>3, <1>4, <1>5, <1>6, <1>7, <1>8

LEMMA ScheduledKeeps ==
  ASSUME TypeOK, TypeOK', Orderly, ~crossed', NEW t \in Tasks, Scheduled(t)
  PROVE  Orderly'
<1> USE McpAssumption DEF McpAssumption, Scheduled, BeginResync, Enabled, Names, Orderly, TypeOK, Tasks,
           objVars, taskVars, callVars, history
<1>1. Alone'
  BY DEF Alone, InFlight
<1>2. Locals'
  BY DEF Locals, Alone, InFlight
<1>3. Filed' /\ AllOwned'
  BY DEF Filed, AllOwned, Owned, Locals
<1>4. Aims' /\ ResyncInv'
  BY DEF Aims, ResyncInv, Treated, Fits, Working, Alone, InFlight, Locals, Filed
<1>5. BootInv'
  BY DEF BootInv, Fits, Alone, InFlight, Locals, Filed
<1>6. CloseInv'
  <2>1. Names' = Names
    BY DEF Names
  <2> QED BY <2>1 DEF CloseInv, Alone, Locals, InFlight
<1>7. ConnectedAsConfigured'
  BY DEF ConnectedAsConfigured
<1> QED BY <1>1, <1>2, <1>3, <1>4, <1>5, <1>6, <1>7

LEMMA RefreshedKeeps ==
  ASSUME TypeOK, TypeOK', Orderly, ~crossed', NEW t \in Tasks, Refreshed(t)
  PROVE  Orderly'
<1> USE McpAssumption DEF McpAssumption, Refreshed, BeginResync, OthersInFlight, Enabled, Names, Orderly, TypeOK, Tasks,
           objVars, taskVars, callVars, history
<1>1. Alone'
  BY DEF Alone, InFlight
<1>2. Locals'
  BY DEF Locals, Alone, InFlight
<1>3. Filed' /\ AllOwned'
  BY DEF Filed, AllOwned, Owned, Locals
<1>4. Aims' /\ ResyncInv'
  BY DEF Aims, ResyncInv, Treated, Fits, Working, Alone, InFlight, Locals, Filed
<1>5. BootInv'
  BY DEF BootInv, Fits, Alone, InFlight, Locals, Filed
<1>6. CloseInv'
  <2>1. Names' = Names
    BY DEF Names
  <2> QED BY <2>1 DEF CloseInv, Alone, Locals, InFlight
<1>7. ConnectedAsConfigured'
  BY DEF ConnectedAsConfigured
<1> QED BY <1>1, <1>2, <1>3, <1>4, <1>5, <1>6, <1>7

-----------------------------------------------------------------------------
(* The loops. *)

LEMMA SweepKeeps ==
  ASSUME TypeOK, TypeOK', Orderly, ~crossed', NEW t \in Tasks, NEW s \in Servers, Sweep(t, s)
  PROVE  Orderly'
<1> USE McpAssumption DEF McpAssumption, Orderly, TypeOK, Tasks, objVars, taskVars, callVars, history
<1> DEFINE o == table[s]
<1>1. /\ t \in Resyncs /\ pc[t] = "looping" /\ phase = "serving" /\ s \in visit[t] /\ o \in Objects
      /\ \A u \in Tasks : cur[u] = None
      /\ \A u \in Tasks \ {t} : ~InFlight(u) /\ ~InFlight(u)'
  BY DEF Sweep, Alone, Locals, InFlight
<1>2. /\ visit' = [visit EXCEPT ![t] = @ \ {s}]
      /\ UNCHANGED <<phase, wanted, srv, cmd, held, proc, jammed, target, fill, size, call, on, mute, raised>>
  BY DEF Sweep
<1>3. CASE UNCHANGED <<table, dead, pc, at, cur>> /\ Unchanged(t, s, o) /\ Alive(o)
  <2>1. Alone' /\ Locals' /\ Filed' /\ AllOwned'
    BY <1>1, <1>2, <1>3 DEF Alone, Locals, Filed, AllOwned, Owned, InFlight
  <2>2. Treated(t, s)
    BY <1>1, <1>3 DEF Treated, Fits, Unchanged, Alive, Filed
  <2>3. ResyncInv'
    BY <1>1, <1>2, <1>3, <2>2 DEF ResyncInv, Treated, Fits, Working, InFlight
  <2>4. Aims' /\ BootInv' /\ ConnectedAsConfigured'
    BY <1>1, <1>2, <1>3 DEF Aims, BootInv, ConnectedAsConfigured
  <2>5. CloseInv'
    BY <1>1, <1>2, <1>3 DEF CloseInv
  <2> QED BY <2>1, <2>3, <2>4, <2>5
<1>4. CASE /\ held[o] /\ table' = table
           /\ dead' = [dead EXCEPT ![o] = TRUE]
           /\ pc' = [pc EXCEPT ![t] = "stopping"]
           /\ at' = [at EXCEPT ![t] = s]
           /\ cur' = [cur EXCEPT ![t] = o]
  <2>1. Alone' /\ Filed' /\ AllOwned'
    BY <1>1, <1>2, <1>4 DEF Alone, Filed, AllOwned, Owned, InFlight
  <2>2. Locals'
    BY <1>1, <1>2, <1>4 DEF Locals, InFlight
  <2>3. \A x \in Servers \ {s} : table[x] # o
    BY <1>1 DEF Filed
  <2>4. ResyncInv'
    BY <1>1, <1>2, <1>4, <2>3 DEF ResyncInv, Treated, Fits, Working, InFlight
  <2>5. Aims' /\ BootInv' /\ CloseInv' /\ ConnectedAsConfigured'
    BY <1>1, <1>2, <1>4 DEF Aims, BootInv, CloseInv, ConnectedAsConfigured
  <2> QED BY <2>1, <2>2, <2>4, <2>5
<1>5. CASE ~held[o] /\ Drop(t, s) /\ UNCHANGED <<dead, pc, at, cur>>
  <2>1. /\ table' \in [Servers -> Objects \cup {None}]
        /\ \A x \in Servers \ {s} : table'[x] = table[x]
        /\ target[t][s] = Off => table'[s] = None
        /\ target[t][s] # Off => table'[s] = o
    BY <1>1, <1>5 DEF Drop
  <2>2. Alone' /\ Locals' /\ Filed'
    BY <1>1, <1>2, <1>5, <2>1 DEF Alone, Locals, Filed, InFlight
  <2>3. proc[o] # "running" \/ o \in mute
    BY <1>1, <1>5 DEF AllOwned, Owned
  <2>4. AllOwned'
    BY <1>1, <1>2, <1>5, <2>1, <2>3 DEF AllOwned, Owned
  <2>5. Treated(t, s)'
    BY <1>1, <1>2, <1>5, <2>1 DEF Treated, Fits
  <2>6. ResyncInv'
    BY <1>1, <1>2, <1>5, <2>1, <2>5 DEF ResyncInv, Treated, Fits, Working, InFlight, Enabled
  <2>7. Aims' /\ BootInv' /\ CloseInv' /\ ConnectedAsConfigured'
    BY <1>1, <1>2, <1>5 DEF Aims, BootInv, CloseInv, ConnectedAsConfigured
  <2> QED BY <2>2, <2>4, <2>6, <2>7
<1> QED BY <1>3, <1>4, <1>5 DEF Sweep

LEMMA SweepCannotStopKeeps ==
  ASSUME TypeOK, TypeOK', Orderly, ~crossed', NEW t \in Tasks, NEW s \in Servers, SweepCannotStop(t, s)
  PROVE  Orderly'
<1> USE McpAssumption DEF McpAssumption, SweepCannotStop, CannotStop, Leave, Orderly, TypeOK, Tasks,
           objVars, taskVars, callVars, history
<1>1. Alone'
  BY DEF Alone, InFlight
<1>2. Locals'
  BY DEF Locals, Alone, InFlight
<1>3. Filed' /\ AllOwned'
  BY DEF Filed, AllOwned, Owned, Locals
<1>4. Aims' /\ ResyncInv'
  BY DEF Aims, ResyncInv, Treated, Fits, Working, Alone, InFlight, Locals, Filed
<1>5. BootInv'
  BY DEF BootInv, Fits, Alone, InFlight, Locals, Filed
<1>6. CloseInv'
  <2>1. Names' = Names
    BY DEF Names
  <2> QED BY <2>1 DEF CloseInv, Alone, Locals, InFlight
<1>7. ConnectedAsConfigured'
  BY DEF ConnectedAsConfigured
<1> QED BY <1>1, <1>2, <1>3, <1>4, <1>5, <1>6, <1>7

LEMMA SweepStoppedKeeps ==
  ASSUME TypeOK, TypeOK', Orderly, ~crossed', NEW t \in Tasks, SweepStopped(t)
  PROVE  Orderly'
<1> USE McpAssumption DEF McpAssumption, Orderly, TypeOK, Tasks, objVars, taskVars, callVars, history
<1>0. PICK s \in Servers, o \in Objects : s = at[t] /\ o = cur[t]
  BY DEF SweepStopped, Locals
<1>1. /\ t \in Resyncs /\ pc[t] = "stopping" /\ phase = "serving"
      /\ s \in Servers \ visit[t] /\ table[s] = o
      /\ \A u \in Tasks \ {t} : ~InFlight(u)
  BY <1>0 DEF SweepStopped, Alone, Locals, InFlight
<1>2. /\ pc' = [pc EXCEPT ![t] = "looping"] /\ at' = [at EXCEPT ![t] = None]
      /\ cur' = [cur EXCEPT ![t] = None]
      /\ UNCHANGED <<phase, wanted, srv, cmd, dead, jammed, target, visit, fill, size, call, on, mute, raised>>
  BY <1>0, <1>1 DEF SweepStopped, Stopped
<1>3. /\ proc' = [proc EXCEPT ![o] = "exited"] /\ held' = [held EXCEPT ![o] = FALSE]
  BY <1>0 DEF SweepStopped, Stopped
<1>4. /\ \A x \in Servers \ {s} : table'[x] = table[x] /\ table[x] # o
      /\ target[t][s] = Off => table'[s] = None
      /\ target[t][s] # Off => table'[s] = o
  BY <1>0, <1>1 DEF SweepStopped, Drop, Filed
<1>5. Alone' /\ Locals'
  BY <1>1, <1>2, <1>3, <1>4 DEF Alone, Locals, InFlight
<1>6. Filed' /\ AllOwned'
  BY <1>0, <1>1, <1>2, <1>3, <1>4 DEF Filed, AllOwned, Owned, Locals, InFlight
<1>7. Treated(t, s)'
  BY <1>1, <1>2, <1>3, <1>4 DEF Treated, Fits
<1>8. ASSUME NEW x \in Servers \ visit[t], x # s PROVE Treated(t, x)'
  BY <1>0, <1>1, <1>2, <1>3, <1>4, <1>8 DEF ResyncInv, Treated, Fits, Working
<1>9. ResyncInv'
  BY <1>1, <1>2, <1>4, <1>7, <1>8 DEF ResyncInv, Working, InFlight, Enabled
<1>10. Aims' /\ BootInv' /\ CloseInv'
  BY <1>1, <1>2 DEF Aims, BootInv, CloseInv
<1>11. pc'[t] # "out"
  BY <1>2
<1>12. ConnectedAsConfigured'
  BY <1>11 DEF ConnectedAsConfigured
<1> QED BY <1>5, <1>6, <1>9, <1>10, <1>12

\* The name is free or its object holds no process, so a new one may take it.
LEMMA FillKeeps ==
  ASSUME TypeOK, TypeOK', Orderly, ~crossed', NEW t \in Tasks, NEW s \in Servers, Fill(t, s)
  PROVE  Orderly'
<1> USE McpAssumption DEF McpAssumption, Orderly, TypeOK, Tasks, objVars, taskVars, callVars, history
<1>1. /\ pc[t] = "looping" /\ visit[t] = {} /\ s \in fill[t]
      /\ fill' = [fill EXCEPT ![t] = @ \ {s}]
      /\ UNCHANGED <<phase, wanted, target, visit, at, size, call, on, raised>>
  BY DEF Fill
<1>2. /\ \A u \in Tasks : cur[u] = None
      /\ \A u \in Tasks \ {t} : ~InFlight(u)
      /\ t = Main => phase = "booting"
      /\ t \in Resyncs => phase = "serving"
  BY <1>1 DEF Alone, Locals, InFlight, CloseInv
<1>3. CASE /\ table[s] # None /\ held[table[s]] /\ UNCHANGED <<table, srv, cmd, held, dead, proc, jammed, pc, cur, mute>>
  <2>1. Alone' /\ Locals' /\ Filed' /\ AllOwned' /\ Aims'
    BY <1>1, <1>3 DEF Alone, Locals, Filed, AllOwned, Owned, Aims, InFlight
  <2>2. ResyncInv'
    BY <1>1, <1>2, <1>3 DEF ResyncInv, Treated, Fits, Working, InFlight
  <2>3. BootInv'
    BY <1>1, <1>2, <1>3 DEF BootInv, Fits
  <2>4. CloseInv' /\ ConnectedAsConfigured'
    BY <1>1, <1>2, <1>3 DEF CloseInv, ConnectedAsConfigured
  <2> QED BY <2>1, <2>2, <2>3, <2>4
<1>4. CASE ~(table[s] # None /\ held[table[s]] /\ Alive(table[s])) /\ StartOne(t, s)
  <2> DEFINE n == NewObject
  <2>1. n \in Free
    BY <1>4, NewIsFree DEF StartOne
  <2>2. /\ n \in Objects /\ proc[n] # "running" /\ \A x \in Servers : table[x] # n
        /\ \A k \in Calls : on[k] # n
    BY <2>1 DEF Free
  <2>3. /\ table' = [table EXCEPT ![s] = n] /\ srv' = [srv EXCEPT ![n] = s]
        /\ cmd' = [cmd EXCEPT ![n] = target[t][s]]
        /\ held' = [held EXCEPT ![n] = FALSE] /\ dead' = [dead EXCEPT ![n] = FALSE]
        /\ proc' = [proc EXCEPT ![n] = "running"]
        /\ jammed' = [jammed EXCEPT ![n] = FALSE] /\ mute' = mute \ {n}
        /\ pc' = [pc EXCEPT ![t] = "starting"] /\ cur' = [cur EXCEPT ![t] = n]
    BY <1>4 DEF StartOne
  <2>4. s \in Enabled(target[t])
    BY <1>1, <1>2 DEF ResyncInv, BootInv, Working
  <2>5. \A o \in Objects \ mute : proc[o] = "running" => table[s] # o
    <3>1. CASE t = Main
      BY <1>1, <1>2, <3>1 DEF BootInv
    <3>2. CASE t \in Resyncs
      BY <1>1, <1>2, <1>4, <3>2 DEF ResyncInv, Treated, Working, AllOwned, Owned, Alive
    <3> QED BY <3>1, <3>2
  <2> HIDE DEF n
  <2>6. Alone' /\ Aims'
    BY <1>1, <1>2, <2>3 DEF Alone, Aims, InFlight
  <2>7. Locals'
    <3>1. \A u \in Tasks \ {t} : cur'[u] = None /\ pc'[u] = pc[u] /\ pc[u] \in {"out", "refreshing"}
      BY <1>2, <2>3 DEF InFlight
    <3>2. cur'[t] = n /\ n # None /\ pc'[t] = "starting"
      BY <2>2, <2>3
    <3>3. /\ \A k \in Calls : on[k] # n
          /\ ~held'[n] /\ ~dead'[n] /\ srv'[n] = s /\ table'[s] = n
          /\ cmd'[n] = target'[t][s] /\ ~jammed'[n]
      BY <1>1, <2>2, <2>3
    <3>4. \A k \in Calls : (on'[k] # None <=> call'[k] # "out") /\ (call'[k] # "out" => phase' = "serving")
      BY <1>1 DEF Locals
    <3> QED BY <1>1, <3>1, <3>2, <3>3, <3>4 DEF Locals
  <2>8. Filed'
    <3>1. table'[s] = n /\ srv'[n] = s /\ cmd'[n] # Off
      BY <1>1, <2>2, <2>3, <2>4 DEF Enabled
    <3>2. ASSUME NEW x \in Servers, x # s, table'[x] # None
          PROVE  srv'[table'[x]] = x /\ cmd'[table'[x]] # Off
      <4>1. table'[x] = table[x] /\ table[x] # n /\ table[x] \in Objects
        BY <2>2, <2>3, <3>2
      <4>2. srv'[table[x]] = srv[table[x]] /\ cmd'[table[x]] = cmd[table[x]]
        BY <2>3, <4>1
      <4> QED BY <3>2, <4>1, <4>2 DEF Filed
    <3> QED BY <3>1, <3>2 DEF Filed
  <2>9. AllOwned'
    BY <1>1, <1>2, <2>2, <2>3, <2>5 DEF AllOwned, Owned
  <2>10. ResyncInv'
    <3>1. ASSUME t \in Resyncs PROVE \A x \in Servers : Treated(t, x)'
      BY <1>1, <2>2, <2>3, <2>4, <3>1 DEF ResyncInv, Treated, Fits, Working, Enabled
    <3> QED BY <1>1, <1>2, <2>2, <2>3, <3>1 DEF ResyncInv, Working, InFlight, Enabled
  <2>11. BootInv'
    <3>1. ASSUME t = Main PROVE \A x \in Servers : Fits(wanted, x)'
      BY <1>1, <1>2, <2>2, <2>3, <2>4, <3>1 DEF BootInv, Fits, Enabled
    <3> QED BY <1>1, <1>2, <2>2, <2>3, <2>4, <3>1 DEF BootInv, Enabled
  <2>12. CloseInv' /\ ConnectedAsConfigured'
    BY <1>1, <1>2, <2>3 DEF CloseInv, ConnectedAsConfigured
  <2> QED BY <2>6, <2>7, <2>8, <2>9, <2>10, <2>11, <2>12
<1> QED BY <1>3, <1>4 DEF Fill

LEMMA StartedKeeps ==
  ASSUME TypeOK, TypeOK', Orderly, ~crossed', NEW t \in Tasks, Started(t)
  PROVE  Orderly'
<1> USE McpAssumption DEF McpAssumption, Started, Orderly, TypeOK, Tasks,
           objVars, taskVars, callVars, history
<1>1. Alone'
  BY DEF Alone, InFlight
<1>2. Locals'
  BY DEF Locals, Alone, InFlight
<1>3. Filed' /\ AllOwned'
  BY DEF Filed, AllOwned, Owned, Locals
<1>4. Aims' /\ ResyncInv'
  BY DEF Aims, ResyncInv, Treated, Fits, Working, Alone, InFlight, Locals, Filed
<1>5. BootInv'
  BY DEF BootInv, Fits, Alone, InFlight, Locals, Filed
<1>6. CloseInv'
  <2>1. Names' = Names
    BY DEF Names
  <2> QED BY <2>1 DEF CloseInv, Alone, Locals, InFlight
<1>7. ConnectedAsConfigured'
  BY DEF ConnectedAsConfigured
<1> QED BY <1>1, <1>2, <1>3, <1>4, <1>5, <1>6, <1>7

LEMMA StartFailsKeeps ==
  ASSUME TypeOK, TypeOK', Orderly, ~crossed', NEW t \in Tasks, StartFails(t)
  PROVE  Orderly'
<1> USE McpAssumption DEF McpAssumption, StartFails, Orderly, TypeOK, Tasks,
           objVars, taskVars, callVars, history
<1>1. Alone'
  BY DEF Alone, InFlight
<1>2. Locals'
  BY DEF Locals, Alone, InFlight
<1>3. Filed' /\ AllOwned'
  BY DEF Filed, AllOwned, Owned, Locals
<1>4. Aims' /\ ResyncInv'
  BY DEF Aims, ResyncInv, Treated, Fits, Working, Alone, InFlight, Locals, Filed
<1>5. BootInv'
  BY DEF BootInv, Fits, Alone, InFlight, Locals, Filed
<1>6. CloseInv'
  <2>1. Names' = Names
    BY DEF Names
  <2> QED BY <2>1 DEF CloseInv, Alone, Locals, InFlight
<1>7. ConnectedAsConfigured'
  BY DEF ConnectedAsConfigured
<1> QED BY <1>1, <1>2, <1>3, <1>4, <1>5, <1>6, <1>7

LEMMA StartRaisesKeeps ==
  ASSUME TypeOK, TypeOK', Orderly, ~crossed', NEW t \in Tasks, StartRaises(t)
  PROVE  Orderly'
<1> USE McpAssumption DEF McpAssumption, StartRaises, Leave, Orderly, TypeOK, Tasks,
           objVars, taskVars, callVars, history
<1>1. Alone'
  BY DEF Alone, InFlight
<1>2. Locals'
  BY DEF Locals, Alone, InFlight
<1>3. Filed' /\ AllOwned'
  BY DEF Filed, AllOwned, Owned, Locals
<1>4. Aims' /\ ResyncInv'
  BY DEF Aims, ResyncInv, Treated, Fits, Working, Alone, InFlight, Locals, Filed
<1>5. BootInv'
  BY DEF BootInv, Fits, Alone, InFlight, Locals, Filed
<1>6. CloseInv'
  <2>1. Names' = Names
    BY DEF Names
  <2> QED BY <2>1 DEF CloseInv, Alone, Locals, InFlight
<1>7. ConnectedAsConfigured'
  BY DEF ConnectedAsConfigured
<1> QED BY <1>1, <1>2, <1>3, <1>4, <1>5, <1>6, <1>7

LEMMA DoneKeeps ==
  ASSUME TypeOK, TypeOK', Orderly, ~crossed', NEW t \in Tasks, Done(t)
  PROVE  Orderly'
<1> USE McpAssumption DEF McpAssumption, Orderly, TypeOK, Tasks, objVars, taskVars, callVars, history
<1>1. /\ pc[t] = "looping" /\ visit[t] = {} /\ fill[t] = {}
      /\ \A u \in Tasks : cur[u] = None
      /\ \A u \in Tasks \ {t} : ~InFlight(u)
      /\ t = Main => phase = "booting"
      /\ t \in Resyncs => phase = "serving"
      /\ phase' = "serving"
  BY DEF Done, Alone, Locals, InFlight
<1>2. /\ \A u \in Tasks \ {t} : pc'[u] = pc[u] /\ target'[u] = target[u] /\ visit'[u] = visit[u]
                              /\ fill'[u] = fill[u] /\ at'[u] = at[u] /\ cur'[u] = cur[u]
      /\ pc'[t] = "out" /\ cur'[t] = None /\ visit'[t] = {} /\ fill'[t] = {}
      /\ UNCHANGED <<wanted, table, srv, cmd, held, dead, proc, jammed, call, on, mute>>
  BY DEF Done, Leave
<1>3. Alone'
  BY <1>1, <1>2 DEF Alone, InFlight
<1>4. Locals'
  BY <1>1, <1>2 DEF Locals, Alone, InFlight
<1>5. Filed' /\ AllOwned'
  BY <1>1, <1>2 DEF Filed, AllOwned, Owned
<1>6. Aims' /\ ResyncInv'
  BY <1>1, <1>2 DEF Aims, ResyncInv, Working, InFlight
<1>7. BootInv' /\ CloseInv'
  BY <1>1, <1>2 DEF BootInv, CloseInv
<1>8. ConnectedAsConfigured'
  <2> SUFFICES ASSUME \A u \in Tasks : pc'[u] = "out", NEW s \in Servers
               PROVE  /\ wanted[s] = Off <=> table[s] = None
                      /\ table[s] # None /\ held[table[s]] => cmd[table[s]] = wanted[s]
    BY <1>2 DEF ConnectedAsConfigured
  <2>1. CASE t = Main
    BY <1>1, <2>1 DEF BootInv, Fits, Enabled
  <2>2. CASE t \in Resyncs
    <3>1. \A u \in Resyncs : pc[u] # "refreshing"
      BY <1>1, <1>2
    <3>2. target[t] = wanted
      BY <1>1, <2>2, <3>1 DEF Aims
    <3> QED BY <1>1, <2>2, <3>2 DEF ResyncInv, Treated, Fits, Working, Enabled
  <2> QED BY <2>1, <2>2
<1> QED BY <1>3, <1>4, <1>5, <1>6, <1>7, <1>8

-----------------------------------------------------------------------------
(* Servers and calls. *)

LEMMA CrashKeeps ==
  ASSUME TypeOK, TypeOK', Orderly, ~crossed', NEW o \in Objects, Crash(o)
  PROVE  Orderly'
<1> USE McpAssumption DEF McpAssumption, Crash, Orderly, TypeOK, Tasks,
           objVars, taskVars, callVars, history
<1>1. Alone'
  BY DEF Alone, InFlight
<1>2. Locals'
  BY DEF Locals, Alone, InFlight
<1>3. Filed' /\ AllOwned'
  BY DEF Filed, AllOwned, Owned, Locals
<1>4. Aims' /\ ResyncInv'
  BY DEF Aims, ResyncInv, Treated, Fits, Working, Alone, InFlight, Locals, Filed
<1>5. BootInv'
  BY DEF BootInv, Fits, Alone, InFlight, Locals, Filed
<1>6. CloseInv'
  <2>1. Names' = Names
    BY DEF Names
  <2> QED BY <2>1 DEF CloseInv, Alone, Locals, InFlight
<1>7. ConnectedAsConfigured'
  BY DEF ConnectedAsConfigured
<1> QED BY <1>1, <1>2, <1>3, <1>4, <1>5, <1>6, <1>7

LEMMA DeafenKeeps ==
  ASSUME TypeOK, TypeOK', Orderly, ~crossed', NEW o \in Objects, Deafen(o)
  PROVE  Orderly'
<1> USE McpAssumption DEF McpAssumption, Deafen, Alive, Working, Orderly, TypeOK, Tasks,
           objVars, taskVars, callVars, history
<1>1. Alone'
  BY DEF Alone, InFlight
<1>2. Locals'
  BY DEF Locals, Alone, InFlight
<1>3. Filed' /\ AllOwned'
  BY DEF Filed, AllOwned, Owned, Locals
<1>4. Aims' /\ ResyncInv'
  BY DEF Aims, ResyncInv, Treated, Fits, Working, Alone, InFlight, Locals, Filed
<1>5. BootInv'
  BY DEF BootInv, Fits, Alone, InFlight, Locals, Filed
<1>6. CloseInv'
  <2>1. Names' = Names
    BY DEF Names
  <2> QED BY <2>1 DEF CloseInv, Alone, Locals, InFlight
<1>7. ConnectedAsConfigured'
  BY DEF ConnectedAsConfigured
<1> QED BY <1>1, <1>2, <1>3, <1>4, <1>5, <1>6, <1>7

LEMMA JamKeeps ==
  ASSUME TypeOK, TypeOK', Orderly, ~crossed', NEW o \in Objects, Jam(o)
  PROVE  Orderly'
<1> USE McpAssumption DEF McpAssumption, Jam, Alive, Orderly, TypeOK, Tasks,
           objVars, taskVars, callVars, history
<1>1. Alone'
  BY DEF Alone, InFlight
<1>2. Locals'
  BY DEF Locals, Alone, InFlight
<1>3. Filed' /\ AllOwned'
  BY DEF Filed, AllOwned, Owned, Locals
<1>4. Aims' /\ ResyncInv'
  BY DEF Aims, ResyncInv, Treated, Fits, Working, Alone, InFlight, Locals, Filed
<1>5. BootInv'
  BY DEF BootInv, Fits, Alone, InFlight, Locals, Filed
<1>6. CloseInv'
  <2>1. Names' = Names
    BY DEF Names
  <2> QED BY <2>1 DEF CloseInv, Alone, Locals, InFlight
<1>7. ConnectedAsConfigured'
  BY DEF ConnectedAsConfigured
<1> QED BY <1>1, <1>2, <1>3, <1>4, <1>5, <1>6, <1>7

LEMMA CallKeeps ==
  ASSUME TypeOK, TypeOK', Orderly, ~crossed', NEW k \in Calls, NEW s \in Servers, Call(k, s)
  PROVE  Orderly'
<1> USE McpAssumption DEF McpAssumption, Call, Orderly, TypeOK, Tasks,
           objVars, taskVars, callVars, history
<1>1. Alone'
  BY DEF Alone, InFlight
<1>2. Locals'
  BY DEF Locals, Alone, InFlight
<1>3. Filed' /\ AllOwned'
  BY DEF Filed, AllOwned, Owned, Locals
<1>4. Aims' /\ ResyncInv'
  BY DEF Aims, ResyncInv, Treated, Fits, Working, Alone, InFlight, Locals, Filed
<1>5. BootInv'
  BY DEF BootInv, Fits, Alone, InFlight, Locals, Filed
<1>6. CloseInv'
  <2>1. Names' = Names
    BY DEF Names
  <2> QED BY <2>1 DEF CloseInv, Alone, Locals, InFlight
<1>7. ConnectedAsConfigured'
  BY DEF ConnectedAsConfigured
<1> QED BY <1>1, <1>2, <1>3, <1>4, <1>5, <1>6, <1>7

LEMMA CallReturnsKeeps ==
  ASSUME TypeOK, TypeOK', Orderly, ~crossed', NEW k \in Calls, CallReturns(k) \/ CallAbandoned(k)
  PROVE  Orderly'
<1> USE McpAssumption DEF McpAssumption, CallReturns, CallAbandoned, EndCall, Orderly, TypeOK, Tasks,
           objVars, taskVars, callVars, history
<1>1. Alone'
  BY DEF Alone, InFlight
<1>2. Locals'
  BY DEF Locals, Alone, InFlight
<1>3. Filed' /\ AllOwned'
  BY DEF Filed, AllOwned, Owned, Locals
<1>4. Aims' /\ ResyncInv'
  BY DEF Aims, ResyncInv, Treated, Fits, Working, Alone, InFlight, Locals, Filed
<1>5. BootInv'
  BY DEF BootInv, Fits, Alone, InFlight, Locals, Filed
<1>6. CloseInv'
  <2>1. Names' = Names
    BY DEF Names
  <2> QED BY <2>1 DEF CloseInv, Alone, Locals, InFlight
<1>7. ConnectedAsConfigured'
  BY DEF ConnectedAsConfigured
<1> QED BY <1>1, <1>2, <1>3, <1>4, <1>5, <1>6, <1>7

LEMMA CallFindsItDeadKeeps ==
  ASSUME TypeOK, TypeOK', Orderly, ~crossed', NEW k \in Calls, CallFindsItDead(k)
  PROVE  Orderly'
<1> USE McpAssumption DEF McpAssumption, CallFindsItDead, Alive, Orderly, TypeOK, Tasks,
           objVars, taskVars, callVars, history
<1>1. Alone'
  BY DEF Alone, InFlight
<1>2. Locals'
  BY DEF Locals, Alone, InFlight
<1>3. Filed' /\ AllOwned'
  BY DEF Filed, AllOwned, Owned, Locals
<1>4. Aims' /\ ResyncInv'
  BY DEF Aims, ResyncInv, Treated, Fits, Working, Alone, InFlight, Locals, Filed
<1>5. BootInv'
  BY DEF BootInv, Fits, Alone, InFlight, Locals, Filed
<1>6. CloseInv'
  <2>1. Names' = Names
    BY DEF Names
  <2> QED BY <2>1 DEF CloseInv, Alone, Locals, InFlight
<1>7. ConnectedAsConfigured'
  BY DEF ConnectedAsConfigured
<1> QED BY <1>1, <1>2, <1>3, <1>4, <1>5, <1>6, <1>7

LEMMA CallCannotStopKeeps ==
  ASSUME TypeOK, TypeOK', Orderly, ~crossed', NEW k \in Calls, CallCannotStop(k)
  PROVE  Orderly'
<1> USE McpAssumption DEF McpAssumption, CallCannotStop, Alive, EndCall, Orderly, TypeOK, Tasks,
           objVars, taskVars, callVars, history
<1>1. Alone'
  BY DEF Alone, InFlight
<1>2. Locals'
  BY DEF Locals, Alone, InFlight
<1>3. Filed' /\ AllOwned'
  BY DEF Filed, AllOwned, Owned, Locals
<1>4. Aims' /\ ResyncInv'
  BY DEF Aims, ResyncInv, Treated, Fits, Working, Alone, InFlight, Locals, Filed
<1>5. BootInv'
  BY DEF BootInv, Fits, Alone, InFlight, Locals, Filed
<1>6. CloseInv'
  <2>1. Names' = Names
    BY DEF Names
  <2> QED BY <2>1 DEF CloseInv, Alone, Locals, InFlight
<1>7. ConnectedAsConfigured'
  BY DEF ConnectedAsConfigured
<1> QED BY <1>1, <1>2, <1>3, <1>4, <1>5, <1>6, <1>7

LEMMA CallCleansKeeps ==
  ASSUME TypeOK, TypeOK', Orderly, ~crossed', NEW k \in Calls, CallCleans(k)
  PROVE  Orderly'
<1> USE McpAssumption DEF McpAssumption, CallCleans, Stopped, EndCall, Orderly, TypeOK, Tasks,
           objVars, taskVars, callVars, history
<1>1. Alone'
  BY DEF Alone, InFlight
<1>2. Locals'
  BY DEF Locals, Alone, InFlight
<1>3. Filed' /\ AllOwned'
  BY DEF Filed, AllOwned, Owned, Locals
<1>4. Aims' /\ ResyncInv'
  BY DEF Aims, ResyncInv, Treated, Fits, Working, Alone, InFlight, Locals, Filed
<1>5. BootInv'
  BY DEF BootInv, Fits, Alone, InFlight, Locals, Filed
<1>6. CloseInv'
  <2>1. Names' = Names
    BY DEF Names
  <2> QED BY <2>1 DEF CloseInv, Alone, Locals, InFlight
<1>7. ConnectedAsConfigured'
  BY DEF ConnectedAsConfigured
<1> QED BY <1>1, <1>2, <1>3, <1>4, <1>5, <1>6, <1>7

-----------------------------------------------------------------------------
(* The end of the process. *)

LEMMA BeginShutdownKeeps ==
  ASSUME TypeOK, TypeOK', Orderly, ~crossed', BeginShutdown
  PROVE  Orderly'
<1> USE McpAssumption DEF McpAssumption, BeginShutdown, OthersInFlight, Orderly, TypeOK, Tasks,
           objVars, taskVars, callVars, history
<1>1. Alone'
  BY DEF Alone, InFlight
<1>2. Locals'
  <2>1. \A t \in Tasks : pc'[t] \in {"stopping", "starting"} => t # Main /\ pc[t] = pc'[t]
    OBVIOUS
  <2>2. pc[Main] \notin {"stopping", "starting"}
    BY DEF Alone
  <2>3. \A t \in Tasks : pc[t] \in {"stopping", "starting"} => t # Main /\ pc[t] = pc'[t]
    BY <2>2
  <2>4. /\ \A k \in Calls : call'[k] = "out" /\ on'[k] = None
        /\ UNCHANGED <<table, srv, cmd, held, dead, cur, at, target>>
        /\ \A t \in Resyncs : visit'[t] = visit[t]
    OBVIOUS
  <2>5. \A t \in Tasks : cur'[t] # None <=> pc'[t] \in {"stopping", "starting"}
    BY <2>1, <2>3, <2>4 DEF Locals
  <2>6. \A t \in Tasks : pc'[t] \notin {"stopping", "starting"}
    BY DEF Alone, InFlight
  <2> QED BY <2>4, <2>5, <2>6 DEF Locals
<1>3. Filed' /\ AllOwned'
  BY DEF Filed, AllOwned, Owned, Locals
<1>4. Aims' /\ ResyncInv'
  BY DEF Aims, ResyncInv, Treated, Fits, Working, Alone, InFlight, Locals, Filed
<1>5. BootInv'
  BY DEF BootInv, Fits, Alone, InFlight, Locals, Filed
<1>6. CloseInv'
  <2>1. Names' = Names
    BY DEF Names
  <2> QED BY <2>1 DEF CloseInv, Alone, Locals, InFlight, Names
<1>7. ConnectedAsConfigured'
  BY DEF ConnectedAsConfigured
<1> QED BY <1>1, <1>2, <1>3, <1>4, <1>5, <1>6, <1>7

LEMMA ShutdownKeeps ==
  ASSUME TypeOK, TypeOK', Orderly, ~crossed', NEW s \in Servers, Shutdown(s)
  PROVE  Orderly'
<1> USE McpAssumption DEF McpAssumption, Shutdown, Orderly, TypeOK, Tasks,
           objVars, taskVars, callVars, history
<1>1. Alone'
  BY DEF Alone, InFlight
<1>2. Locals'
  BY DEF Locals, Alone, InFlight
<1>3. Filed' /\ AllOwned'
  BY DEF Filed, AllOwned, Owned, Locals
<1>4. Aims' /\ ResyncInv'
  BY DEF Aims, ResyncInv, Treated, Fits, Working, Alone, InFlight, Locals, Filed
<1>5. BootInv'
  BY DEF BootInv, Fits, Alone, InFlight, Locals, Filed
<1>6. CloseInv'
  <2>1. Names' = Names
    BY DEF Names
  <2> QED BY <2>1 DEF CloseInv, Alone, Locals, InFlight
<1>7. ConnectedAsConfigured'
  BY DEF ConnectedAsConfigured
<1> QED BY <1>1, <1>2, <1>3, <1>4, <1>5, <1>6, <1>7

LEMMA ShutdownRaisesKeeps ==
  ASSUME TypeOK, TypeOK', Orderly, ~crossed', NEW s \in Servers, ShutdownRaises(s)
  PROVE  Orderly'
<1> USE McpAssumption DEF McpAssumption, ShutdownRaises, Unstoppable, Leave, Orderly, TypeOK, Tasks,
           objVars, taskVars, callVars, history
<1>1. Alone'
  BY DEF Alone, InFlight
<1>2. Locals'
  BY DEF Locals, Alone, InFlight
<1>3. Filed' /\ AllOwned'
  BY DEF Filed, AllOwned, Owned, Locals
<1>4. Aims' /\ ResyncInv'
  BY DEF Aims, ResyncInv, Treated, Fits, Working, Alone, InFlight, Locals, Filed
<1>5. BootInv'
  BY DEF BootInv, Fits, Alone, InFlight, Locals, Filed
<1>6. CloseInv'
  <2>1. Names' = Names
    BY DEF Names
  <2> QED BY <2>1 DEF CloseInv, Alone, Locals, InFlight
<1>7. ConnectedAsConfigured'
  BY DEF ConnectedAsConfigured
<1> QED BY <1>1, <1>2, <1>3, <1>4, <1>5, <1>6, <1>7

LEMMA ShutdownStoppedKeeps ==
  ASSUME TypeOK, TypeOK', Orderly, ~crossed', ShutdownStopped
  PROVE  Orderly'
<1> USE McpAssumption DEF McpAssumption, ShutdownStopped, Stopped, Orderly, TypeOK, Tasks,
           objVars, taskVars, callVars, history
<1>1. Alone'
  BY DEF Alone, InFlight
<1>2. Locals'
  BY DEF Locals, Alone, InFlight
<1>3. Filed' /\ AllOwned'
  BY DEF Filed, AllOwned, Owned, Locals
<1>4. Aims' /\ ResyncInv'
  BY DEF Aims, ResyncInv, Treated, Fits, Working, Alone, InFlight, Locals, Filed
<1>5. BootInv'
  BY DEF BootInv, Fits, Alone, InFlight, Locals, Filed
<1>6. CloseInv'
  <2>1. Names' = Names
    BY DEF Names
  <2> QED BY <2>1 DEF CloseInv, Alone, Locals, InFlight
<1>7. ConnectedAsConfigured'
  BY DEF ConnectedAsConfigured
<1> QED BY <1>1, <1>2, <1>3, <1>4, <1>5, <1>6, <1>7

\* Every name has been treated, so nothing is held, so nothing runs.
LEMMA ShutdownOverKeeps ==
  ASSUME TypeOK, TypeOK', Orderly, ~crossed', ShutdownOver
  PROVE  Orderly'
<1> USE McpAssumption DEF McpAssumption, Orderly, TypeOK, Tasks, objVars, taskVars, callVars, history
<1>1. /\ phase = "closing" /\ pc[Main] = "looping" /\ phase' = "closed" /\ ~crossed
      /\ \A u \in Tasks : cur[u] = None
      /\ \A t \in Resyncs : pc[t] = "out"
  BY DEF ShutdownOver, Alone, Locals, InFlight
<1>2. visit[Main] = {}
  BY <1>1 DEF ShutdownOver, CloseInv
<1>3. /\ \A u \in Resyncs : pc'[u] = pc[u]
      /\ \A u \in Tasks : cur'[u] = None
      /\ pc'[Main] = "out" /\ fill'[Main] = {}
      /\ UNCHANGED <<wanted, table, srv, cmd, held, dead, proc, jammed, call, on, mute, raised>>
  BY <1>1 DEF ShutdownOver, Leave
<1>4. \A o \in Objects \ mute : proc[o] # "running"
  BY <1>1, <1>2 DEF AllOwned, Owned, CloseInv
<1>5. Alone' /\ Locals'
  BY <1>1, <1>3 DEF Alone, Locals, InFlight
<1>6. Filed' /\ AllOwned' /\ Aims' /\ ResyncInv'
  BY <1>1, <1>3, <1>4 DEF Filed, AllOwned, Owned, Aims, ResyncInv, Working
<1>7. BootInv' /\ CloseInv' /\ ConnectedAsConfigured'
  BY <1>1, <1>3, <1>4 DEF BootInv, CloseInv, ConnectedAsConfigured
<1> QED BY <1>5, <1>6, <1>7

\* A process that has just booted is in order; Init and Reboot lead there.
JustBooted == \E w \in Targets : Booted(w)

LEMMA BootedIsOrderly == TypeOK /\ JustBooted => Orderly
<1> SUFFICES ASSUME TypeOK, NEW w \in Targets, Booted(w) PROVE Orderly
  BY DEF JustBooted
<1> USE McpAssumption DEF McpAssumption, TypeOK, Tasks
<1>1. Alone /\ Locals
  BY DEF Booted, Alone, Locals, InFlight
<1>2. Filed /\ AllOwned /\ Aims
  BY DEF Booted, Filed, AllOwned, Owned, Aims
<1>3. ResyncInv
  BY DEF Booted, ResyncInv, Working
<1>4. BootInv
  BY DEF Booted, BootInv, Fits, Enabled
<1>5. CloseInv /\ ConnectedAsConfigured
  BY DEF Booted, CloseInv, ConnectedAsConfigured
<1> QED BY <1>1, <1>2, <1>3, <1>4, <1>5 DEF Orderly

LEMMA RebootIsOrderly == TypeOK' /\ Reboot => Orderly'
<1>1. TypeOK' /\ Reboot => JustBooted'
  <2> SUFFICES ASSUME TypeOK', Reboot PROVE JustBooted'
    OBVIOUS
  <2>1. PICK w \in Targets : w = wanted'
    BY DEF TypeOK
  <2>2. Booted(w)'
    BY <2>1 DEF Reboot, Booted, Enabled
  <2> QED BY <2>2 DEF JustBooted
<1>2. TypeOK' /\ JustBooted' => Orderly'
  BY BootedIsOrderly, PTL
<1> QED BY <1>1, <1>2

-----------------------------------------------------------------------------
LEMMA StepKeepsOrder == TypeOK /\ TypeOK' /\ Orderly /\ ~crossed' /\ [Next]_vars => Orderly'
<1> SUFFICES ASSUME TypeOK, TypeOK', Orderly, ~crossed', [Next]_vars PROVE Orderly'
  OBVIOUS
<1>1. ASSUME NEW t \in Resyncs, Apply(t) \/ DeferredCommit(t) PROVE Orderly'
  BY <1>1, ApplyKeeps, DeferredKeeps
<1>2. ASSUME NEW t \in Tasks, LoopStep(t) PROVE Orderly'
  <2>1. ASSUME NEW s \in Servers, Sweep(t, s) \/ SweepCannotStop(t, s) \/ Fill(t, s) PROVE Orderly'
    BY <2>1, SweepKeeps, SweepCannotStopKeeps, FillKeeps
  <2>2. ASSUME NEW s \in Servers, SweepRaises(t, s) PROVE Orderly'
    BY <2>2 DEF SweepRaises, Orderly, ResyncInv, Working
  <2> QED BY <1>2, <2>1, <2>2, ScheduledKeeps, RefreshedKeeps, SweepStoppedKeeps, DoneKeeps DEF LoopStep
<1>3. ASSUME NEW t \in Tasks, Started(t) \/ StartFails(t) \/ StartRaises(t) PROVE Orderly'
  BY <1>3, StartedKeeps, StartFailsKeeps, StartRaisesKeeps
<1>4. ASSUME NEW o \in Objects, Crash(o) \/ Deafen(o) \/ Jam(o) PROVE Orderly'
  BY <1>4, CrashKeeps, DeafenKeeps, JamKeeps
<1>5. ASSUME NEW k \in Calls, NEW s \in Servers, Call(k, s) PROVE Orderly'
  BY <1>5, CallKeeps
<1>6. ASSUME NEW k \in Calls,
             CallReturns(k) \/ CallFindsItDead(k) \/ CallCannotStop(k) \/ CallCleans(k) \/ CallAbandoned(k)
      PROVE  Orderly'
  BY <1>6, CallReturnsKeeps, CallFindsItDeadKeeps, CallCannotStopKeeps, CallCleansKeeps
<1>7. CASE BeginShutdown \/ ShutdownStopped \/ ShutdownOver
  BY <1>7, BeginShutdownKeeps, ShutdownStoppedKeeps, ShutdownOverKeeps
<1>8. ASSUME NEW s \in Servers, Shutdown(s) \/ ShutdownRaises(s) PROVE Orderly'
  BY <1>8, ShutdownKeeps, ShutdownRaisesKeeps
<1>9. CASE Reboot
  BY <1>9, RebootIsOrderly
<1>10. CASE UNCHANGED vars
  BY <1>10 DEF vars, objVars, taskVars, callVars, history, Orderly, Alone, Locals, Filed, AllOwned, Owned, Aims, ResyncInv,
               BootInv, CloseInv, ConnectedAsConfigured, InFlight, Treated, Fits, Working, Enabled, Names
<1>11. CASE Next
  <2>1. ASSUME NEW k \in Calls,
               \/ \E s \in Servers : Call(k, s)
               \/ CallReturns(k) \/ CallFindsItDead(k) \/ CallCannotStop(k) \/ CallCleans(k) \/ CallAbandoned(k)
        PROVE  Orderly'
    BY <2>1, <1>5, <1>6
  <2>2. CASE BeginShutdown \/ ShutdownStep
    BY <2>2, <1>7, <1>8 DEF ShutdownStep
  <2>3. ASSUME NEW t \in Tasks, LoopStep(t) \/ Started(t) \/ StartFails(t) \/ StartRaises(t) PROVE Orderly'
    BY <2>3, <1>2, <1>3
  <2> QED BY <1>11, <1>1, <2>3, <1>4, <2>1, <2>2, <1>9 DEF Next
<1> QED BY <1>10, <1>11

\* What crossed stays crossed until the process ends.
LEMMA CrossedStays == [Next]_vars /\ crossed => crossed' \/ Reboot
<1> SUFFICES ASSUME [Next]_vars, crossed PROVE crossed' \/ Reboot
  OBVIOUS
<1>1. ASSUME NEW t \in Tasks, LoopStep(t) \/ Started(t) \/ StartFails(t) \/ StartRaises(t) PROVE crossed'
  BY <1>1 DEF LoopStep, Scheduled, Refreshed, Sweep, SweepCannotStop, SweepRaises, SweepStopped, Fill, Done, Started,
              StartFails, StartRaises, StartOne, history
<1>2. ASSUME NEW t \in Resyncs, Apply(t) \/ DeferredCommit(t) PROVE crossed'
  BY <1>2 DEF Apply, DeferredCommit, history
<1>3. ASSUME NEW o \in Objects, Crash(o) \/ Deafen(o) \/ Jam(o) PROVE crossed'
  BY <1>3 DEF Crash, Deafen, Jam, history
<1>4. ASSUME NEW k \in Calls,
             \/ \E s \in Servers : Call(k, s)
             \/ CallReturns(k) \/ CallFindsItDead(k) \/ CallCannotStop(k) \/ CallCleans(k) \/ CallAbandoned(k)
      PROVE  crossed'
  BY <1>4 DEF Call, CallReturns, CallFindsItDead, CallCannotStop, CallCleans, CallAbandoned,
              history
<1>5. BeginShutdown \/ ShutdownStep => crossed'
  BY DEF BeginShutdown, ShutdownStep, Shutdown, ShutdownRaises, ShutdownStopped, ShutdownOver,
         history
<1>6. UNCHANGED vars => crossed'
  BY DEF vars, history
<1> QED BY <1>1, <1>2, <1>3, <1>4, <1>5, <1>6 DEF Next

LEMMA McpInductive == Spec => []McpInv
<1>1. Init => McpInv
  BY TypeInit, BootedIsOrderly DEF Init, McpInv, JustBooted
<1>2. McpInv /\ [Next]_vars => McpInv'
  <2> SUFFICES ASSUME McpInv, [Next]_vars PROVE McpInv'
    OBVIOUS
  <2>1. TypeOK /\ TypeOK'
    BY TypeStep DEF McpInv
  <2>2. ASSUME ~crossed' PROVE Orderly'
    <3>1. CASE ~crossed
      BY <2>1, <2>2, <3>1, StepKeepsOrder DEF McpInv
    <3>2. CASE crossed
      <4>1. Reboot
        BY <2>2, <3>2, CrossedStays
      <4> QED BY <2>1, <4>1, RebootIsOrderly
    <3> QED BY <3>1, <3>2
  <2> QED BY <2>1, <2>2 DEF McpInv
<1> QED BY <1>1, <1>2, PTL DEF Spec

\* Names, objects, tasks, calls and what they hold keep their types, for any servers,
\* commands, resyncs and calls, crossed or not.
THEOREM McpTypeCorrect == Spec => []TypeOK
<1>1. McpInv => TypeOK
  BY DEF McpInv
<1> QED BY <1>1, McpInductive, PTL

\* As long as no two lifecycle operations cross, every MCP server process is in the
\* table and held or being started, and after a shutdown none is left, but for the
\* servers that fell silent under a resync or whose reader raised while they started
\* (ServersAreOwned): for any servers, commands and calls, through crashes, failed
\* starts and cancelled calls.
THEOREM NoneIsOrphaned == Spec => []ServersAreOwned
<1>1. McpInv => ServersAreOwned
  BY DEF McpInv, Orderly, AllOwned, Owned, CloseInv, ServersAreOwned
<1> QED BY <1>1, McpInductive, PTL

\* Once the resyncs are over, none crossed and the last did not raise, the table is
\* that of the settings in force: the enabled servers, with the commands of the
\* settings where they are connected.
THEOREM TableFollowsSettings == Spec => []ConnectedAsConfigured
<1>1. McpInv => ConnectedAsConfigured
  BY DEF McpInv, Orderly, ConnectedAsConfigured
<1> QED BY <1>1, McpInductive, PTL

=============================================================================

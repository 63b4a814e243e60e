---------------------------- MODULE SpmIpcProofs ----------------------------
(* Safety of the IPC backend for every set of partitions, services,        *)
(* clients and connections, and of the connection pool under it.           *)
EXTENDS SpmIpcRefinement, ConnPool, FiniteSetTheorems, TLAPS

-----------------------------------------------------------------------------
(* The lists of the SPM, as sequences.                                     *)

(* The empty list holds nothing, and no list holds more than its elements. *)
LEMMA EmptyList ==
    /\ Range(<< >>) = {}
    /\ IsInjective(<< >>)
    /\ \A S : \A seq \in Seq(S) : Range(seq) \subseteq S
BY DEF Range, IsInjective

(* UNI_LIST_INSERT_AFTER: the new node is on the list, once.               *)
LEMMA AppendList ==
    ASSUME NEW S, NEW seq \in Seq(S), NEW c \in S
    PROVE  /\ Append(seq, c) \in Seq(S)
           /\ Append(seq, c) # << >>
           /\ Range(Append(seq, c)) = Range(seq) \cup {c}
           /\ IsInjective(seq) /\ c \notin Range(seq) => IsInjective(Append(seq, c))
<1> DEFINE app == Append(seq, c)
<1>1. /\ app \in Seq(S)
      /\ Len(app) = Len(seq) + 1
      /\ DOMAIN app = 1 .. Len(seq) + 1
      /\ DOMAIN seq = 1 .. Len(seq)
      /\ Len(seq) \in Nat
      /\ \A i \in 1 .. Len(seq) : app[i] = seq[i]
      /\ app[Len(seq) + 1] = c
  OBVIOUS
<1>2. Range(app) = Range(seq) \cup {c}
  <2>1. ASSUME NEW x \in Range(app) PROVE x \in Range(seq) \cup {c}
    <3>1. PICK i \in DOMAIN app : x = app[i]
      BY <2>1 DEF Range
    <3>2. CASE i = Len(seq) + 1
      BY <3>1, <3>2, <1>1
    <3>3. CASE i \in 1 .. Len(seq)
      BY <3>1, <3>3, <1>1 DEF Range
    <3> QED BY <3>2, <3>3, <1>1
  <2>2. ASSUME NEW x \in Range(seq) PROVE x \in Range(app)
    <3>1. PICK i \in DOMAIN seq : x = seq[i]
      BY <2>2 DEF Range
    <3>2. i \in DOMAIN app /\ x = app[i]
      BY <3>1, <1>1
    <3> QED BY <3>2 DEF Range
  <2>3. c \in Range(app)
    <3>1. Len(seq) + 1 \in DOMAIN app
      BY <1>1
    <3> QED BY <3>1, <1>1 DEF Range
  <2> QED BY <2>1, <2>2, <2>3
<1>3. ASSUME IsInjective(seq), c \notin Range(seq) PROVE IsInjective(app)
  <2>1. \A i \in 1 .. Len(seq) : seq[i] # c
    BY <1>3, <1>1 DEF Range
  <2> QED BY <2>1, <1>1, <1>3 DEF IsInjective
<1>4. app # << >>
  BY <1>1
<1> QED BY <1>1, <1>2, <1>3, <1>4

(* UNI_LIST_REMOVE_NODE_BY_PNODE: the node is gone, the others are not.    *)
LEMMA RemoveList ==
    ASSUME NEW S, NEW seq \in Seq(S), IsInjective(seq), NEW i \in 1 .. Len(seq)
    PROVE  /\ RemoveNode(seq, i) \in Seq(S)
           /\ Range(RemoveNode(seq, i)) = Range(seq) \ {seq[i]}
           /\ IsInjective(RemoveNode(seq, i))
<1> DEFINE rem == RemoveNode(seq, i)
<1>1. /\ Len(seq) \in Nat
      /\ DOMAIN seq = 1 .. Len(seq)
      /\ \A j \in 1 .. Len(seq) : seq[j] \in S
  OBVIOUS
<1>2. rem \in Seq(S) /\ DOMAIN rem = 1 .. Len(seq) - 1
  BY <1>1 DEF RemoveNode
<1>3. \A j \in 1 .. Len(seq) - 1 :
          rem[j] = IF j < i THEN seq[j] ELSE seq[j + 1]
  BY DEF RemoveNode
<1>4. IsInjective(rem)
  <2> SUFFICES ASSUME NEW a \in 1 .. Len(seq) - 1, NEW b \in 1 .. Len(seq) - 1,
                      rem[a] = rem[b]
               PROVE  a = b
    BY <1>2 DEF IsInjective
  <2> DEFINE at(j) == IF j < i THEN j ELSE j + 1
  <2>1. at(a) \in DOMAIN seq /\ at(b) \in DOMAIN seq
    BY <1>1
  <2>2. seq[at(a)] = seq[at(b)]
    BY <1>3
  <2>3. at(a) = at(b)
    <3> HIDE DEF at
    <3> QED BY <2>1, <2>2 DEF IsInjective
  <2> QED BY <2>3, <1>1
<1>5. ASSUME NEW x \in Range(rem) PROVE x \in Range(seq) \ {seq[i]}
  <2>1. PICK j \in 1 .. Len(seq) - 1 : x = rem[j]
    BY <1>5, <1>2 DEF Range
  <2>2. PICK k \in 1 .. Len(seq) : x = seq[k] /\ k # i
    BY <2>1, <1>1, <1>3
  <2> QED BY <2>2, <1>1 DEF Range, IsInjective
<1>6. ASSUME NEW x \in Range(seq) \ {seq[i]} PROVE x \in Range(rem)
  <2>1. PICK k \in 1 .. Len(seq) : x = seq[k]
    BY <1>6, <1>1 DEF Range
  <2>2. k # i
    BY <2>1, <1>6
  <2>3. \E j \in 1 .. Len(seq) - 1 : x = rem[j]
    <3>1. CASE k < i
      BY <3>1, <2>1, <1>1, <1>3
    <3>2. CASE k > i
      <4>1. k - 1 \in 1 .. Len(seq) - 1 /\ ~(k - 1 < i) /\ (k - 1) + 1 = k
        BY <3>2, <1>1
      <4> QED BY <4>1, <2>1, <1>3
    <3> QED BY <3>1, <3>2, <2>2, <1>1
  <2> QED BY <2>3, <1>2 DEF Range
<1> QED BY <1>2, <1>4, <1>5, <1>6

(* The oldest node of a list, and the rest.                                *)
LEMMA TailList ==
    ASSUME NEW S, NEW seq \in Seq(S), seq # << >>, IsInjective(seq)
    PROVE  /\ Head(seq) \in Range(seq)
           /\ Tail(seq) \in Seq(S)
           /\ Range(Tail(seq)) = Range(seq) \ {Head(seq)}
           /\ IsInjective(Tail(seq))
<1>1. /\ Len(seq) \in Nat \ {0}
      /\ DOMAIN seq = 1 .. Len(seq)
      /\ Head(seq) = seq[1]
      /\ Tail(seq) \in Seq(S)
      /\ DOMAIN Tail(seq) = 1 .. Len(seq) - 1
      /\ \A j \in 1 .. Len(seq) - 1 : Tail(seq)[j] = seq[j + 1]
  OBVIOUS
<1>2. Head(seq) \in Range(seq)
  BY <1>1 DEF Range
<1>3. IsInjective(Tail(seq))
  BY <1>1 DEF IsInjective
<1>4. ASSUME NEW x \in Range(Tail(seq)) PROVE x \in Range(seq) \ {Head(seq)}
  <2>1. PICK j \in 1 .. Len(seq) - 1 : x = seq[j + 1]
    BY <1>4, <1>1 DEF Range
  <2>2. j + 1 \in DOMAIN seq /\ 1 \in DOMAIN seq /\ j + 1 # 1
    BY <1>1
  <2> QED BY <2>1, <2>2, <1>1 DEF Range, IsInjective
<1>5. ASSUME NEW x \in Range(seq) \ {Head(seq)} PROVE x \in Range(Tail(seq))
  <2>1. PICK k \in 1 .. Len(seq) : x = seq[k]
    BY <1>5, <1>1 DEF Range
  <2>2. k - 1 \in 1 .. Len(seq) - 1 /\ (k - 1) + 1 = k
    BY <2>1, <1>5, <1>1
  <2>3. k - 1 \in DOMAIN Tail(seq) /\ x = Tail(seq)[k - 1]
    BY <2>1, <2>2, <1>1
  <2> QED BY <2>3 DEF Range
<1> QED BY <1>1, <1>2, <1>3, <1>4, <1>5

-----------------------------------------------------------------------------
(* The inductive invariant.                                                *)

(* An allocated chunk holds a connection that one of its client's ids made.*)
Allocated ==
    \A c \in Conns \ pool :
        /\ conn[c] \in Connection
        /\ conn[c].client_id \in ClientIds(conn[c].p_client)

(* A request that its service has not answered, or whose answer the Agent  *)
(* has not handled, is not idle: its client cannot use the handle.         *)
NotIdle ==
    /\ \A p \in Partitions : \A c \in Range(reqs[p]) \cup served[p] :
          conn[c].status # "IDLE"
    /\ \A c \in Range(replied[Agent]) : conn[c].status # "IDLE"
    /\ collecting # NoConn => conn[collecting].status # "IDLE"

(* A client that waits for an answer has one request in flight; any other  *)
(* client but the Agent has none.                                          *)
OneCall ==
    \A c \in Conns \ pool :
        InFlight(c) /\ conn[c].p_client # Agent =>
            /\ waiting[conn[c].p_client] = {ASYNC}
            /\ \A d \in Conns \ pool :
                  InFlight(d) /\ conn[d].p_client = conn[c].p_client => c = d

RunningAwake == ~pendsv => waiting[cur] = {}

IndInv ==
    /\ Types
    /\ Allocated
    /\ OnePlace
    /\ ReplySignalMatchesList
    /\ NotIdle
    /\ OneCall
    /\ RunningAwake

(* The state tfm_spm_init leaves satisfies the invariant.                  *)
LEMMA InitInv == Init => IndInv
<1> SUFFICES ASSUME Init PROVE IndInv
  OBVIOUS
<1> USE PartitionAssumption, ServiceAssumption
<1>1. Types
  BY DEF Init, Types, Signals
<1>2. Allocated
  BY DEF Init, Allocated
<1>3. OnePlace
  BY EmptyList DEF Init, OnePlace
<1>4. ReplySignalMatchesList
  BY DEF Init, ReplySignalMatchesList
<1>5. NotIdle
  BY EmptyList DEF Init, NotIdle
<1>6. OneCall
  BY DEF Init, OneCall
<1>7. RunningAwake
  BY DEF Init, RunningAwake
<1> QED BY <1>1, <1>2, <1>3, <1>4, <1>5, <1>6, <1>7 DEF IndInv

(* A client's new message: backend_messaging on a connection that is not   *)
(* in flight, whatever the connection was before.                          *)
LEMMA MessagingInv ==
    ASSUME IndInv,
           NEW p \in Partitions \ {Idle}, NEW s \in Services, NEW c \in Conns,
           NEW r \in Connection,
           Running(p), ~InFlight(c),
           r.status # "IDLE", r.p_client = p, r.client_id \in ClientIds(p),
           r.service = s,
           pool' = pool \ {c},
           conn' = [conn EXCEPT ![c] = r],
           held' \in [Clients -> SUBSET Conns],
           Messaging(p, c, s)
    PROVE  IndInv'
<1> USE PartitionAssumption, ServiceAssumption
<1> DEFINE o == Owner[s]
<1>1. /\ o \in Partitions
      /\ Types
      /\ waiting[p] = {}
      /\ cur = p
      /\ ~pendsv
  BY DEF IndInv, RunningAwake, Running, Types
<1>2. /\ reqs' = [reqs EXCEPT ![o] = Append(@, c)]
      /\ asserted' = [asserted EXCEPT ![o] = @ \cup {s}]
      /\ UNCHANGED <<replied, cur, enabled, served, collecting>>
  BY <1>1 DEF Messaging, Types
<1>3. c \notin Range(reqs[o])
  BY <1>1 DEF InFlight
<1>4. /\ \A q \in Partitions : IsInjective(reqs[q])
      /\ reqs' \in [Partitions -> Seq(Conns)]
      /\ Range(reqs'[o]) = Range(reqs[o]) \cup {c}
      /\ \A q \in Partitions \ {o} : Range(reqs'[q]) = Range(reqs[q])
      /\ \A q \in Partitions : IsInjective(reqs'[q])
  BY <1>1, <1>2, <1>3, AppendList, SMTT(30) DEF IndInv, Types, OnePlace
<1>5. /\ conn'[c] = r
      /\ \A d \in Conns \ {c} : conn'[d] = conn[d]
      /\ conn' \in [Conns -> Connection \cup {Freed}]
  BY <1>1 DEF Types
<1>6. /\ waiting' \in [Partitions -> SUBSET Signals]
      /\ pendsv' \in BOOLEAN
  BY <1>1 DEF Messaging, Types, Signals
<1>7. Types'
  BY <1>1, <1>2, <1>4, <1>5, <1>6 DEF Types, Signals
<1>8. Allocated'
  BY <1>5 DEF IndInv, Allocated
<1>9. \A q \in Partitions : /\ Range(reqs[q]) \subseteq Conns \ {c}
                            /\ Range(replied[q]) \subseteq Conns \ {c}
                            /\ served[q] \subseteq Conns \ {c}
  BY <1>1, EmptyList, SMTT(40) DEF Types, InFlight
<1>10. collecting # c
  BY DEF InFlight
<1>11. OnePlace'
  <2>1. \A q \in Partitions :
          /\ IsInjective(reqs'[q])
          /\ IsInjective(replied'[q])
          /\ \A d \in Range(reqs'[q]) \cup served'[q] :
               d \notin pool' /\ q = Owner[conn'[d].service]
          /\ \A d \in Range(replied'[q]) : d \notin pool' /\ q = conn'[d].p_client
    BY <1>2, <1>4, <1>5, <1>9 DEF IndInv, OnePlace
  <2>2. \A q, t \in Partitions :
          /\ Range(reqs'[q]) \cap served'[t] = {}
          /\ Range(reqs'[q]) \cap Range(replied'[t]) = {}
          /\ served'[q] \cap Range(replied'[t]) = {}
    <3> SUFFICES ASSUME NEW q \in Partitions, NEW t \in Partitions
                 PROVE  /\ Range(reqs'[q]) \cap served'[t] = {}
                        /\ Range(reqs'[q]) \cap Range(replied'[t]) = {}
                        /\ served'[q] \cap Range(replied'[t]) = {}
      OBVIOUS
    <3>1. /\ Range(reqs[q]) \cap served[t] = {}
          /\ Range(reqs[q]) \cap Range(replied[t]) = {}
          /\ served[q] \cap Range(replied[t]) = {}
      BY DEF IndInv, OnePlace
    <3>2. Range(reqs'[q]) \subseteq Range(reqs[q]) \cup {c}
      BY <1>4
    <3> QED BY <3>1, <3>2, <1>2, <1>9
  <2>3. collecting' # NoConn =>
          /\ collecting' \notin pool'
          /\ conn'[collecting'].p_client = Agent
          /\ \A q \in Partitions : collecting' \notin Range(reqs'[q])
                                   \cup served'[q] \cup Range(replied'[q])
    BY <1>1, <1>2, <1>4, <1>5, <1>10, SMTT(40) DEF IndInv, OnePlace, Types
  <2> QED BY <2>1, <2>2, <2>3 DEF OnePlace
<1>12. ReplySignalMatchesList'
  BY <1>1, <1>2 DEF IndInv, ReplySignalMatchesList, Types
<1>13. NotIdle'
  BY <1>1, <1>2, <1>4, <1>5, <1>9, <1>10, SMTT(30) DEF IndInv, NotIdle, Types
<1>14. /\ \A d \in Conns : InFlight(d)' <=> InFlight(d) \/ d = c
  BY <1>1, <1>2, <1>4 DEF InFlight
<1>15. p # Agent => ASYNC \notin asserted[p] /\ waiting' = [waiting EXCEPT ![p] = {ASYNC}] /\ pendsv'
  <2> SUFFICES ASSUME p # Agent PROVE ASYNC \notin asserted[p]
    BY DEF Messaging
  <2>1. SUFFICES ASSUME replied[p] # << >> PROVE FALSE
    BY DEF IndInv, ReplySignalMatchesList
  <2>2. IsInjective(replied[p]) /\ replied[p] \in Seq(Conns)
    BY <1>1 DEF IndInv, OnePlace, Types
  <2>3. PICK d : d \in Range(replied[p])
    BY <2>1, <2>2, TailList
  <2>4. d \in Conns \ pool /\ conn[d].p_client = p /\ InFlight(d)
    BY <2>2, <2>3, EmptyList DEF IndInv, OnePlace, InFlight
  <2> QED BY <2>4, <1>1, ZenonT(40) DEF IndInv, OneCall
<1>16. p = Agent => waiting' = waiting /\ pendsv' = FALSE
  BY DEF Messaging
<1>17. ASSUME NEW d \in Conns \ pool, InFlight(d), p # Agent PROVE conn[d].p_client # p
  <2>1. conn[d].p_client = p => waiting[p] = {ASYNC}
    BY <1>17 DEF IndInv, OneCall
  <2> QED BY <2>1, <1>1
<1>18. OneCall'
  <2> SUFFICES ASSUME NEW d \in Conns \ pool', InFlight(d)', conn'[d].p_client # Agent
               PROVE  /\ waiting'[conn'[d].p_client] = {ASYNC}
                      /\ \A e \in Conns \ pool' :
                           InFlight(e)' /\ conn'[e].p_client = conn'[d].p_client => d = e
    BY DEF OneCall
  <2>1. CASE d = c
    <3>1. conn'[d].p_client = p /\ p # Agent
      BY <2>1, <1>5
    <3>2. waiting'[p] = {ASYNC}
      BY <3>1, <1>1, <1>15 DEF Types
    <3>3. ASSUME NEW e \in Conns \ pool', InFlight(e)', conn'[e].p_client = p, e # c
          PROVE  FALSE
      <4>1. e \in Conns \ pool /\ InFlight(e) /\ conn[e].p_client = p
        BY <3>3, <1>5, <1>14
      <4> QED BY <4>1, <3>1, <1>17
    <3> QED BY <3>1, <3>2, <3>3, <2>1
  <2>2. CASE d # c
    <3>1. d \in Conns \ pool /\ InFlight(d) /\ conn'[d] = conn[d]
      BY <2>2, <1>5, <1>14
    <3>2. conn[d].p_client # p \/ p = Agent
      BY <3>1, <1>17
    <3>3. conn[d].p_client # p
      BY <3>1, <3>2
    <3>4. waiting'[conn[d].p_client] = waiting[conn[d].p_client]
      <4>1. conn[d].p_client \in Partitions
        BY <3>1 DEF IndInv, Allocated, Connection
      <4> QED BY <4>1, <3>3, <1>1, <1>15, <1>16 DEF Types
    <3>5. waiting[conn[d].p_client] = {ASYNC}
      BY <3>1 DEF IndInv, OneCall
    <3>6. ASSUME NEW e \in Conns \ pool', InFlight(e)',
                 conn'[e].p_client = conn'[d].p_client
          PROVE  d = e
      <4>1. e # c
        BY <3>1, <3>3, <3>6, <1>5
      <4>2. e \in Conns \ pool /\ InFlight(e) /\ conn[e].p_client = conn[d].p_client
        BY <4>1, <3>1, <3>6, <1>5, <1>14
      <4> QED BY <4>2, <3>1 DEF IndInv, OneCall
    <3> QED BY <3>1, <3>4, <3>5, <3>6
  <2> QED BY <2>1, <2>2
<1>19. RunningAwake'
  BY <1>1, <1>2, <1>15, <1>16 DEF RunningAwake
<1> QED BY <1>7, <1>8, <1>11, <1>12, <1>13, <1>18, <1>19 DEF IndInv

(* A running client has no request in flight on a handle that passes the   *)
(* checks of spm_get_idle_connection.                                      *)
LEMMA IdleNotInFlight ==
    ASSUME IndInv,
           NEW p \in Partitions \ {Idle}, NEW k \in ClientIds(p), NEW c \in Conns,
           Running(p), IdleConnection(c, k)
    PROVE  /\ ~InFlight(c)
           /\ conn[c] \in Connection
           /\ conn[c].p_client = p
<1> USE PartitionAssumption, ServiceAssumption
<1>1. /\ c \in Conns \ pool
      /\ conn[c] \in Connection
      /\ conn[c].client_id = k
      /\ conn[c].status = "IDLE"
      /\ waiting[p] = {}
  BY DEF IndInv, Allocated, IdleConnection, RunningAwake, Running
<1>2. conn[c].p_client = p
  BY <1>1, ZenonT(40) DEF IndInv, Allocated, ClientIds, Connection
<1>3. CASE p # Agent
  BY <1>1, <1>2, <1>3, SMTT(30) DEF IndInv, OneCall
<1>4. CASE p = Agent
  <2>1. \A q \in Partitions : c \notin Range(reqs[q]) \cup served[q]
    BY <1>1 DEF IndInv, NotIdle
  <2>2. \A q \in Partitions : c \notin Range(replied[q])
    BY <1>1, <1>2, <1>4 DEF IndInv, NotIdle, OnePlace
  <2>3. c # collecting
    BY <1>1 DEF IndInv, NotIdle
  <2> QED BY <1>1, <1>2, <2>1, <2>2, <2>3 DEF InFlight
<1> QED BY <1>1, <1>2, <1>3, <1>4

(* psa_connect, psa_call and psa_close preserve the invariant.             *)
LEMMA ClientInv ==
    ASSUME IndInv, NEW p \in Partitions \ {Idle}, ClientStep(p)
    PROVE  IndInv'
<1> USE PartitionAssumption, ServiceAssumption
<1> PICK k \in ClientIds(p) :
        \/ \E s \in Services : PsaConnect(p, k, s) \/ PsaCallStateless(p, k, s)
        \/ \E c \in Conns : PsaCall(p, k, c) \/ PsaClose(p, k, c)
  BY DEF ClientStep
<1>1. k \in Clients
  BY DEF ClientIds, Clients
<1>2. Types
  BY DEF IndInv
<1>3. ASSUME NEW s \in Services, NEW type \in {"CONNECT", "CALL"}, Running(p),
             NewConnection(p, k, s, type)
      PROVE  IndInv'
  <2>1. PICK c \in pool :
          /\ pool' = pool \ {c}
          /\ conn' = [conn EXCEPT ![c] =
               [status |-> "ACTIVE", p_client |-> p, client_id |-> k,
                service |-> s, type |-> type, replied_value |-> "NONE"]]
          /\ Messaging(p, c, s)
          /\ UNCHANGED held
    BY <1>3 DEF NewConnection
  <2> DEFINE r == [status |-> "ACTIVE", p_client |-> p, client_id |-> k,
                   service |-> s, type |-> type, replied_value |-> "NONE"]
  <2>2. /\ r \in Connection
        /\ r.status # "IDLE"
        /\ r.p_client = p
        /\ r.client_id \in ClientIds(p)
        /\ r.service = s
    BY <1>1 DEF Connection
  <2>3. conn' = [conn EXCEPT ![c] = r]
    BY <2>1
  <2>4. c \in Conns /\ ~InFlight(c)
    <3>1. c \in Conns /\ NoConn \notin Conns
      BY <1>2 DEF Types
    <3>2. \A q \in Partitions : c \notin Range(reqs[q]) \cup served[q]
      BY DEF IndInv, OnePlace
    <3>3. \A q \in Partitions : c \notin Range(replied[q])
      BY DEF IndInv, OnePlace
    <3>4. c # collecting
      BY <3>1 DEF IndInv, OnePlace
    <3> QED BY <3>1, <3>2, <3>3, <3>4 DEF InFlight
  <2>5. held' \in [Clients -> SUBSET Conns]
    BY <2>1, <1>2 DEF Types
  <2> HIDE DEF r
  <2> QED BY <2>1, <2>2, <2>3, <2>4, <2>5, <1>3, MessagingInv
<1>4. ASSUME NEW c \in Conns, NEW type \in {"CALL", "DISCONNECT"},
             NEW status \in {"ACTIVE", "TO_FREE"},
             Running(p), IdleConnection(c, k),
             conn' = [conn EXCEPT ![c].type = type, ![c].status = status],
             held' \in [Clients -> SUBSET Conns],
             Messaging(p, c, conn[c].service),
             UNCHANGED pool
      PROVE  IndInv'
  <2> DEFINE r == [conn[c] EXCEPT !.type = type, !.status = status]
  <2>1. ~InFlight(c) /\ conn[c] \in Connection /\ conn[c].p_client = p
    BY <1>4, IdleNotInFlight
  <2>2. /\ r \in Connection
        /\ r.status # "IDLE"
        /\ r.p_client = p
        /\ r.client_id \in ClientIds(p)
        /\ r.service = conn[c].service
        /\ conn[c].service \in Services
    BY <1>4, <2>1 DEF Connection, IdleConnection
  <2>3. conn' = [conn EXCEPT ![c] = r]
    BY <1>4, <1>2 DEF Types
  <2>4. pool' = pool \ {c}
    BY <1>4 DEF IdleConnection
  <2> HIDE DEF r
  <2> QED BY <2>1, <2>2, <2>3, <2>4, <1>4, MessagingInv
<1>5. ASSUME NEW s \in Services, PsaConnect(p, k, s) PROVE IndInv'
  BY <1>3, <1>5 DEF PsaConnect
<1>6. ASSUME NEW s \in Services, PsaCallStateless(p, k, s) PROVE IndInv'
  BY <1>3, <1>6 DEF PsaCallStateless
<1>7. ASSUME NEW c \in Conns, PsaCall(p, k, c) PROVE IndInv'
  <2>1. held' \in [Clients -> SUBSET Conns]
    BY <1>2, <1>7 DEF PsaCall, Types
  <2> QED BY <1>4, <1>7, <2>1 DEF PsaCall
<1>8. ASSUME NEW c \in Conns, PsaClose(p, k, c) PROVE IndInv'
  <2>1. held' \in [Clients -> SUBSET Conns]
    BY <1>1, <1>2, <1>8 DEF PsaClose, Types
  <2> QED BY <1>4, <1>8, <2>1 DEF PsaClose
<1> QED BY <1>5, <1>6, <1>7, <1>8

(* Steps that only touch signals other than ASYNC_MSG_REPLY, the enabled   *)
(* interrupts and PendSV.                                                  *)
LEMMA SignalInv ==
    ASSUME IndInv,
           UNCHANGED <<pool, conn, reqs, replied, waiting, cur, served,
                       collecting, held>>,
           asserted' \in [Partitions -> SUBSET Signals],
           \A q \in Partitions : ASYNC \in asserted'[q] <=> ASYNC \in asserted[q],
           enabled' \subseteq Irqs,
           pendsv' \in BOOLEAN,
           pendsv => pendsv'
    PROVE  IndInv'
<1>1. Types'
  BY DEF IndInv, Types
<1>2. Allocated' /\ OnePlace' /\ NotIdle'
  BY DEF IndInv, Allocated, OnePlace, NotIdle
<1>3. ReplySignalMatchesList'
  BY DEF IndInv, ReplySignalMatchesList
<1>4. OneCall'
  BY DEF IndInv, OneCall, InFlight
<1>5. RunningAwake'
  BY DEF IndInv, RunningAwake, Types
<1> QED BY <1>1, <1>2, <1>3, <1>4, <1>5 DEF IndInv

(* A connection leaves flight: its answer c has been taken from the        *)
(* replied lists, the connection is freed or given back.                   *)
LEMMA ReplyTakenInv ==
    ASSUME IndInv,
           NEW c \in Conns \ pool,
           pool' \in {pool, pool \cup {c}},
           conn' \in [Conns -> Connection \cup {Freed}],
           \A d \in Conns \ {c} : conn'[d] = conn[d],
           c \notin pool' => /\ conn'[c] \in Connection
                            /\ conn'[c].client_id = conn[c].client_id
                            /\ conn'[c].p_client = conn[c].p_client,
           UNCHANGED <<reqs, served>>,
           replied' \in [Partitions -> Seq(Conns)],
           \A q \in Partitions : /\ IsInjective(replied'[q])
                                 /\ Range(replied'[q]) = Range(replied[q]) \ {c},
           collecting' = NoConn \/ (collecting' = collecting /\ collecting # c),
           \A q \in Partitions : c \notin Range(reqs[q]) \cup served[q]
    PROVE  /\ Allocated'
           /\ OnePlace'
           /\ NotIdle'
           /\ \A d \in Conns : InFlight(d)' => InFlight(d) /\ d # c
<1> USE PartitionAssumption, ServiceAssumption
<1>1. Types
  BY DEF IndInv
<1>2. Allocated'
  BY DEF IndInv, Allocated
<1>3. \A q \in Partitions : /\ Range(reqs[q]) \subseteq Conns \ {c}
                            /\ Range(replied'[q]) \subseteq Conns \ {c}
                            /\ served[q] \subseteq Conns \ {c}
  BY <1>1, EmptyList, SMTT(30) DEF Types
<1>4. OnePlace'
  <2>1. \A q \in Partitions :
          /\ IsInjective(reqs'[q])
          /\ IsInjective(replied'[q])
          /\ \A d \in Range(reqs'[q]) \cup served'[q] :
               d \notin pool' /\ q = Owner[conn'[d].service]
          /\ \A d \in Range(replied'[q]) : d \notin pool' /\ q = conn'[d].p_client
    <3> SUFFICES ASSUME NEW q \in Partitions
                 PROVE  /\ IsInjective(reqs'[q])
                        /\ IsInjective(replied'[q])
                        /\ \A d \in Range(reqs'[q]) \cup served'[q] :
                             d \notin pool' /\ q = Owner[conn'[d].service]
                        /\ \A d \in Range(replied'[q]) :
                             d \notin pool' /\ q = conn'[d].p_client
      OBVIOUS
    <3>1. /\ IsInjective(reqs[q])
          /\ \A d \in Range(reqs[q]) \cup served[q] :
               d \notin pool /\ q = Owner[conn[d].service]
          /\ \A d \in Range(replied[q]) : d \notin pool /\ q = conn[d].p_client
      BY DEF IndInv, OnePlace
    <3>2. Range(replied'[q]) = Range(replied[q]) \ {c}
      OBVIOUS
    <3> QED BY <3>1, <3>2, <1>3
  <2>2. \A q, t \in Partitions :
          /\ Range(reqs'[q]) \cap served'[t] = {}
          /\ Range(reqs'[q]) \cap Range(replied'[t]) = {}
          /\ served'[q] \cap Range(replied'[t]) = {}
    <3> SUFFICES ASSUME NEW q \in Partitions, NEW t \in Partitions
                 PROVE  /\ Range(reqs'[q]) \cap served'[t] = {}
                        /\ Range(reqs'[q]) \cap Range(replied'[t]) = {}
                        /\ served'[q] \cap Range(replied'[t]) = {}
      OBVIOUS
    <3>1. /\ Range(reqs[q]) \cap served[t] = {}
          /\ Range(reqs[q]) \cap Range(replied[t]) = {}
          /\ served[q] \cap Range(replied[t]) = {}
      BY DEF IndInv, OnePlace
    <3>2. Range(replied'[t]) \subseteq Range(replied[t])
      OBVIOUS
    <3> QED BY <3>1, <3>2
  <2>3. collecting' # NoConn =>
          /\ collecting' \notin pool'
          /\ conn'[collecting'].p_client = Agent
          /\ \A q \in Partitions : collecting' \notin Range(reqs'[q])
                                   \cup served'[q] \cup Range(replied'[q])
    BY <1>1 DEF IndInv, OnePlace, Types
  <2> QED BY <2>1, <2>2, <2>3 DEF OnePlace
<1>5. NotIdle'
  BY <1>1, <1>3, SMTT(30) DEF IndInv, NotIdle, Types
<1>6. ASSUME NEW d \in Conns, InFlight(d)' PROVE InFlight(d) /\ d # c
  BY <1>6, <1>3 DEF InFlight
<1> QED BY <1>2, <1>4, <1>5, <1>6

(* query_state hands a synchronous client the answer of its one request.   *)
LEMMA TakeReplyInv ==
    ASSUME IndInv, NEW p \in Partitions, p # Agent,
           waiting[p] \cap asserted[p] = {ASYNC},
           TakeReply(p),
           cur' = p,
           waiting' = [waiting EXCEPT ![p] = {}],
           pendsv' = FALSE,
           UNCHANGED <<reqs, enabled, served, collecting>>
    PROVE  IndInv'
<1> USE PartitionAssumption, ServiceAssumption
<1> DEFINE c == replied[p][Len(replied[p])]
<1>1. Types
  BY DEF IndInv
<1>2. replied[p] \in Seq(Conns) /\ replied[p] # << >>
  BY <1>1 DEF IndInv, Types, ReplySignalMatchesList
<1>3. c \in Range(replied[p])
  <2>1. Len(replied[p]) \in DOMAIN replied[p]
    BY <1>2
  <2> QED BY <2>1 DEF Range
<1>4. /\ c \in Conns \ pool
      /\ conn[c].p_client = p
      /\ InFlight(c)
      /\ conn[c] \in Connection
  BY <1>2, <1>3, EmptyList DEF IndInv, OnePlace, InFlight, Allocated
<1>5. \A d \in Conns \ pool : InFlight(d) /\ conn[d].p_client = p => d = c
  BY <1>4 DEF IndInv, OneCall
<1>6. Range(replied[p]) = {c}
  <2> SUFFICES ASSUME NEW d \in Range(replied[p]) PROVE d = c
    BY <1>3
  <2>1. d \in Conns
    BY <1>2, EmptyList
  <2>2. d \notin pool /\ conn[d].p_client = p
    BY DEF IndInv, OnePlace
  <2>3. InFlight(d)
    BY DEF InFlight
  <2> QED BY <2>1, <2>2, <2>3, <1>5
<1>7. /\ asserted' = [asserted EXCEPT ![p] = @ \ {ASYNC}]
      /\ replied' = [replied EXCEPT ![p] = << >>]
      /\ pool' \in {pool, pool \cup {c}}
      /\ conn' = IF conn[c].status = "TO_FREE"
                 THEN [conn EXCEPT ![c] = Freed] ELSE conn
      /\ conn[c].status = "TO_FREE" <=> c \in pool'
      /\ held' = HeldAfterReply(c)
  BY <1>1, <1>4 DEF TakeReply, SignalsAfterReply, PoolAfterReply, Types
<1> HIDE DEF c
<1>8. \A q \in Partitions : /\ IsInjective(replied'[q])
                            /\ Range(replied'[q]) = Range(replied[q]) \ {c}
  <2> SUFFICES ASSUME NEW q \in Partitions
               PROVE  /\ IsInjective(replied'[q])
                      /\ Range(replied'[q]) = Range(replied[q]) \ {c}
    OBVIOUS
  <2>1. CASE q = p
    BY <2>1, <1>1, <1>6, <1>7, EmptyList DEF Types
  <2>2. CASE q # p
    <3>1. replied'[q] = replied[q]
      BY <2>2, <1>1, <1>7 DEF Types
    <3>2. c \notin Range(replied[q])
      BY <2>2, <1>4 DEF IndInv, OnePlace
    <3> QED BY <3>1, <3>2 DEF IndInv, OnePlace
  <2> QED BY <2>1, <2>2
<1>9. replied' \in [Partitions -> Seq(Conns)]
  BY <1>1, <1>7 DEF Types
<1>10. /\ conn' \in [Conns -> Connection \cup {Freed}]
       /\ \A d \in Conns \ {c} : conn'[d] = conn[d]
       /\ c \notin pool' => conn'[c] = conn[c]
  BY <1>1, <1>7 DEF Types
<1>11. \A q \in Partitions : c \notin Range(reqs[q]) \cup served[q]
  BY <1>3 DEF IndInv, OnePlace
<1>12. collecting # c
  BY <1>3, <1>4 DEF IndInv, OnePlace
<1>13. /\ Allocated'
       /\ OnePlace'
       /\ NotIdle'
       /\ \A d \in Conns : InFlight(d)' => InFlight(d) /\ d # c
  BY <1>4, <1>7, <1>8, <1>9, <1>10, <1>11, <1>12, ReplyTakenInv
<1>14. Types'
  <2>1. held' \in [Clients -> SUBSET Conns]
    BY <1>1, <1>4, <1>7, SMTT(30) DEF Types, HeldAfterReply, Connection
  <2> QED BY <1>1, <1>4, <1>7, <1>9, <1>10, <2>1, ZenonT(40) DEF Types
<1>15. ReplySignalMatchesList'
  BY <1>1, <1>7 DEF IndInv, ReplySignalMatchesList, Types
<1>16. OneCall'
  <2> SUFFICES ASSUME NEW d \in Conns \ pool', InFlight(d)', conn'[d].p_client # Agent
               PROVE  /\ waiting'[conn'[d].p_client] = {ASYNC}
                      /\ \A e \in Conns \ pool' :
                           InFlight(e)' /\ conn'[e].p_client = conn'[d].p_client => d = e
    BY DEF OneCall
  <2>1. d \in Conns \ pool /\ d # c /\ InFlight(d) /\ conn'[d] = conn[d]
    BY <1>7, <1>10, <1>13
  <2>2. conn[d].p_client # p
    BY <2>1, <1>5
  <2>3. waiting'[conn'[d].p_client] = {ASYNC}
    BY <2>1, <2>2, <1>1 DEF IndInv, OneCall, Allocated, Connection, Types
  <2>4. ASSUME NEW e \in Conns \ pool', InFlight(e)',
               conn'[e].p_client = conn'[d].p_client
        PROVE  d = e
    BY <2>1, <2>4, <1>7, <1>10, <1>13 DEF IndInv, OneCall
  <2> QED BY <2>3, <2>4
<1>17. RunningAwake'
  BY <1>1 DEF RunningAwake, Types
<1> QED BY <1>13, <1>14, <1>15, <1>16, <1>17 DEF IndInv

(* A context switch in PendSV preserves the invariant.                     *)
LEMMA ScheduleInv ==
    ASSUME IndInv, Schedule
    PROVE  IndInv'
<1> USE PartitionAssumption, ServiceAssumption
<1>1. Types
  BY DEF IndInv
<1>2. PICK p \in Partitions :
        /\ IsNextThread(p)
        /\ cur' = p
        /\ waiting' = [waiting EXCEPT ![p] = {}]
        /\ IF /\ waiting[p] \cap asserted[p] = {ASYNC}
              /\ ASYNC \notin SignalsAllowed(p)
           THEN TakeReply(p)
           ELSE UNCHANGED <<asserted, replied, pool, conn, held>>
  BY DEF Schedule
<1>3. ASYNC \notin SignalsAllowed(p) <=> p # Agent
  BY DEF SignalsAllowed
<1>4. CASE waiting[p] \cap asserted[p] = {ASYNC} /\ p # Agent
  BY <1>2, <1>3, <1>4, TakeReplyInv DEF Schedule
<1>5. CASE ~(waiting[p] \cap asserted[p] = {ASYNC} /\ p # Agent)
  <2>1. /\ UNCHANGED <<asserted, replied, pool, conn, held>>
        /\ UNCHANGED <<reqs, enabled, served, collecting>>
        /\ pendsv' = FALSE
    BY <1>2, <1>3, <1>5 DEF Schedule
  <2>2. Types'
    BY <1>1, <1>2, <2>1 DEF Types
  <2>3. Allocated' /\ OnePlace' /\ NotIdle' /\ ReplySignalMatchesList'
    BY <2>1, ZenonT(40) DEF IndInv, Allocated, OnePlace, NotIdle, ReplySignalMatchesList
  <2>4. \A d \in Conns \ pool : InFlight(d) /\ conn[d].p_client = p => p = Agent
    <3> SUFFICES ASSUME NEW d \in Conns \ pool, InFlight(d), conn[d].p_client = p,
                        p # Agent
                 PROVE  FALSE
      OBVIOUS
    <3>1. waiting[p] = {ASYNC}
      BY DEF IndInv, OneCall
    <3>2. waiting[p] \cap asserted[p] # {}
      BY <1>2, <3>1 DEF IsNextThread, Runnable
    <3> QED BY <3>1, <3>2, <1>5
  <2>5. OneCall'
    BY <1>1, <1>2, <2>1, <2>4 DEF IndInv, OneCall, InFlight, Allocated, Connection, Types
  <2>6. RunningAwake'
    BY <1>1, <1>2 DEF RunningAwake, Types
  <2> QED BY <2>2, <2>3, <2>5, <2>6 DEF IndInv
<1> QED BY <1>4, <1>5

(* psa_wait blocks the running partition only.                             *)
LEMMA WaitInv ==
    ASSUME IndInv, NEW p \in Partitions \ {Idle}, NEW mask \in WaitMasks(p),
           PsaWait(p, mask)
    PROVE  IndInv'
<1> USE PartitionAssumption, ServiceAssumption
<1>1. Types /\ waiting[p] = {} /\ pendsv'
  BY DEF IndInv, RunningAwake, Running, PsaWait
<1>2. mask \subseteq Signals
  BY DEF WaitMasks, SignalsAllowed, Signals
<1>3. Types'
  BY <1>1, <1>2 DEF PsaWait, Types
<1>4. Allocated' /\ OnePlace' /\ NotIdle' /\ ReplySignalMatchesList'
  BY ZenonT(40) DEF PsaWait, IndInv, Allocated, OnePlace, NotIdle, ReplySignalMatchesList
<1>5. \A d \in Conns \ pool : InFlight(d) /\ conn[d].p_client = p => p = Agent
  BY <1>1 DEF IndInv, OneCall
<1>6. OneCall'
  BY <1>1, <1>5, SMTT(40) DEF PsaWait, IndInv, OneCall, InFlight, Allocated, Connection, Types
<1>7. RunningAwake'
  BY <1>1 DEF RunningAwake
<1> QED BY <1>3, <1>4, <1>6, <1>7 DEF IndInv

(* psa_get moves the oldest request for a signal from the queue to its     *)
(* service.                                                                *)
LEMMA GetInv ==
    ASSUME IndInv, NEW p \in Partitions \ {Idle}, NEW s \in Services, PsaGet(p, s)
    PROVE  IndInv'
<1> USE PartitionAssumption, ServiceAssumption
<1>1. Types
  BY DEF IndInv
<1>2. PICK i \in 1 .. Len(reqs[p]) :
        /\ reqs' = [reqs EXCEPT ![p] = RemoveNode(@, i)]
        /\ asserted' = IF OnlyOneFor(p, s, i)
                       THEN [asserted EXCEPT ![p] = @ \ {s}] ELSE asserted
        /\ served' = [served EXCEPT ![p] = @ \cup {reqs[p][i]}]
  BY DEF PsaGet
<1> DEFINE c == reqs[p][i]
<1>3. reqs[p] \in Seq(Conns) /\ IsInjective(reqs[p])
  BY <1>1 DEF IndInv, Types, OnePlace
<1>4. c \in Range(reqs[p]) /\ c \in Conns
  BY <1>3 DEF Range
<1>5. /\ RemoveNode(reqs[p], i) \in Seq(Conns)
      /\ Range(RemoveNode(reqs[p], i)) = Range(reqs[p]) \ {c}
      /\ IsInjective(RemoveNode(reqs[p], i))
  BY <1>3, RemoveList
<1> HIDE DEF c
<1>6. /\ reqs' \in [Partitions -> Seq(Conns)]
      /\ \A q \in Partitions : IsInjective(reqs'[q])
      /\ Range(reqs'[p]) = Range(reqs[p]) \ {c}
      /\ \A q \in Partitions \ {p} : Range(reqs'[q]) = Range(reqs[q])
  <2>1. /\ reqs'[p] = RemoveNode(reqs[p], i)
        /\ \A q \in Partitions \ {p} : reqs'[q] = reqs[q]
        /\ reqs' \in [Partitions -> Seq(Conns)]
    BY <1>1, <1>2, <1>5 DEF Types
  <2> QED BY <2>1, <1>5, ZenonT(40) DEF IndInv, OnePlace
<1>7. /\ served'[p] = served[p] \cup {c}
      /\ \A q \in Partitions \ {p} : served'[q] = served[q]
      /\ served' \in [Partitions -> SUBSET Conns]
  BY <1>1, <1>2, <1>4 DEF Types, c
<1>8. UNCHANGED <<pool, conn, replied, waiting, cur, pendsv, enabled, collecting, held>>
  BY DEF PsaGet
<1>9. Types'
  <2>1. asserted' \in [Partitions -> SUBSET Signals]
    BY <1>1, <1>2 DEF Types
  <2> QED BY <2>1, <1>1, <1>6, <1>7, <1>8 DEF Types
<1>10. /\ c \notin pool
       /\ p = Owner[conn[c].service]
       /\ \A q \in Partitions : c \notin Range(replied[q]) /\ c \notin served[q]
       /\ collecting # NoConn => collecting # c
       /\ conn[c].status # "IDLE"
       /\ \A q \in Partitions \ {p} : c \notin Range(reqs[q])
  <2>1. c \notin pool /\ p = Owner[conn[c].service] /\ conn[c].status # "IDLE"
    BY <1>4 DEF IndInv, OnePlace, NotIdle
  <2>2. \A q \in Partitions : c \notin Range(replied[q]) /\ c \notin served[q]
    BY <1>4 DEF IndInv, OnePlace
  <2>3. collecting # NoConn => collecting # c
    BY <1>4 DEF IndInv, OnePlace
  <2>4. \A q \in Partitions \ {p} : c \notin Range(reqs[q])
    BY <2>1 DEF IndInv, OnePlace
  <2> QED BY <2>1, <2>2, <2>3, <2>4
<1>11. OnePlace'
  <2>1. \A q \in Partitions :
          /\ IsInjective(reqs'[q])
          /\ IsInjective(replied'[q])
          /\ \A d \in Range(reqs'[q]) \cup served'[q] :
               d \notin pool' /\ q = Owner[conn'[d].service]
          /\ \A d \in Range(replied'[q]) : d \notin pool' /\ q = conn'[d].p_client
    <3> SUFFICES ASSUME NEW q \in Partitions
                 PROVE  /\ IsInjective(replied'[q])
                        /\ \A d \in Range(reqs'[q]) \cup served'[q] :
                             d \notin pool' /\ q = Owner[conn'[d].service]
                        /\ \A d \in Range(replied'[q]) :
                             d \notin pool' /\ q = conn'[d].p_client
      BY <1>6
    <3>1. /\ IsInjective(replied[q])
          /\ \A d \in Range(reqs[q]) \cup served[q] :
               d \notin pool /\ q = Owner[conn[d].service]
          /\ \A d \in Range(replied[q]) : d \notin pool /\ q = conn[d].p_client
      BY DEF IndInv, OnePlace
    <3>2. Range(reqs'[q]) \subseteq Range(reqs[q])
      BY <1>6
    <3>3. CASE q = p
      BY <3>1, <3>2, <3>3, <1>7, <1>8, <1>10
    <3>4. CASE q # p
      BY <3>1, <3>2, <3>4, <1>7, <1>8
    <3> QED BY <3>3, <3>4
  <2>2. \A q, t \in Partitions :
          /\ Range(reqs'[q]) \cap served'[t] = {}
          /\ Range(reqs'[q]) \cap Range(replied'[t]) = {}
          /\ served'[q] \cap Range(replied'[t]) = {}
    <3> SUFFICES ASSUME NEW q \in Partitions, NEW t \in Partitions
                 PROVE  /\ Range(reqs'[q]) \cap served'[t] = {}
                        /\ Range(reqs'[q]) \cap Range(replied'[t]) = {}
                        /\ served'[q] \cap Range(replied'[t]) = {}
      OBVIOUS
    <3>1. /\ Range(reqs[q]) \cap served[t] = {}
          /\ Range(reqs[q]) \cap Range(replied[t]) = {}
          /\ served[q] \cap Range(replied[t]) = {}
      BY DEF IndInv, OnePlace
    <3>2. /\ Range(reqs'[q]) \subseteq Range(reqs[q]) \ {c}
          /\ served'[q] \subseteq served[q] \cup {c}
          /\ served'[t] \subseteq served[t] \cup {c}
      <4>1. Range(reqs'[q]) \subseteq Range(reqs[q]) \ {c}
        <5>1. CASE q = p
          BY <5>1, <1>6
        <5>2. CASE q # p
          BY <5>2, <1>6, <1>10
        <5> QED BY <5>1, <5>2
      <4>2. \A u \in Partitions : served'[u] \subseteq served[u] \cup {c}
        BY <1>7
      <4> QED BY <4>1, <4>2
    <3> QED BY <3>1, <3>2, <1>8, <1>10
  <2>3. collecting' # NoConn =>
          /\ collecting' \notin pool'
          /\ conn'[collecting'].p_client = Agent
          /\ \A q \in Partitions : collecting' \notin Range(reqs'[q])
                                   \cup served'[q] \cup Range(replied'[q])
    BY <1>6, <1>7, <1>8, <1>10 DEF IndInv, OnePlace
  <2> QED BY <2>1, <2>2, <2>3 DEF OnePlace
<1>12. Allocated'
  BY <1>8 DEF IndInv, Allocated
<1>13. ReplySignalMatchesList'
  BY <1>1, <1>2, <1>8 DEF IndInv, ReplySignalMatchesList, Types
<1>14. NotIdle'
  BY <1>6, <1>7, <1>8, <1>10, ZenonT(40) DEF IndInv, NotIdle
<1>15. ASSUME NEW d \in Conns, InFlight(d)' PROVE InFlight(d)
  <2>1. CASE d = c
    BY <2>1, <1>4 DEF InFlight
  <2>2. CASE d # c
    <3>1. \A q \in Partitions : /\ d \in Range(reqs'[q]) => d \in Range(reqs[q])
                                /\ d \in served'[q] => d \in served[q]
      BY <2>2, <1>6, <1>7
    <3> QED BY <3>1, <1>8, <1>15 DEF InFlight
  <2> QED BY <2>1, <2>2
<1>16. OneCall'
  BY <1>8, <1>15 DEF IndInv, OneCall
<1>17. RunningAwake'
  BY <1>8 DEF IndInv, RunningAwake
<1> QED BY <1>9, <1>11, <1>12, <1>13, <1>14, <1>16, <1>17 DEF IndInv

(* psa_reply mounts the answer on the client's list and raises             *)
(* ASYNC_MSG_REPLY for it.                                                 *)
LEMMA ReplyInv ==
    ASSUME IndInv, NEW p \in Partitions \ {Idle}, NEW c \in Conns, NEW ok \in BOOLEAN,
           PsaReply(p, c, ok)
    PROVE  IndInv'
<1> USE PartitionAssumption, ServiceAssumption
<1> DEFINE q == conn[c].p_client
<1>1. Types /\ c \in served[p]
  BY DEF IndInv, PsaReply
<1>2. /\ c \in Conns \ pool
      /\ conn[c] \in Connection
      /\ q \in Partitions
      /\ conn[c].status # "IDLE"
      /\ InFlight(c)
  BY <1>1 DEF IndInv, OnePlace, Allocated, Connection, NotIdle, InFlight
<1>3. /\ \A t \in Partitions : c \notin Range(reqs[t]) /\ c \notin Range(replied[t])
      /\ \A t \in Partitions \ {p} : c \notin served[t]
      /\ collecting # NoConn => collecting # c
  <2>1. \A t \in Partitions : c \notin Range(reqs[t]) /\ c \notin Range(replied[t])
    BY <1>1 DEF IndInv, OnePlace
  <2>2. \A t \in Partitions \ {p} : c \notin served[t]
    BY <1>1 DEF IndInv, OnePlace
  <2>3. collecting # NoConn => collecting # c
    BY <1>1 DEF IndInv, OnePlace
  <2> QED BY <2>1, <2>2, <2>3
<1> DEFINE r == [conn[c] EXCEPT !.replied_value = ReplyValue(c, ok),
                                !.status = ReplyStatus(c, ok)]
<1>4. /\ ReplyValue(c, ok) \in {"NONE", "HANDLE", "REFUSED", "STATUS"}
      /\ ReplyStatus(c, ok) \in {"IDLE", "ACTIVE", "TO_FREE"}
      /\ q = Agent => ReplyStatus(c, ok) # "IDLE"
  BY <1>2 DEF ReplyValue, ReplyStatus, Connection
<1>5. /\ r \in Connection
      /\ r.p_client = q
      /\ r.client_id = conn[c].client_id
      /\ r.service = conn[c].service
      /\ q = Agent => r.status # "IDLE"
  BY <1>2, <1>4 DEF Connection
<1>6. /\ conn' = [conn EXCEPT ![c] = r]
      /\ conn'[c] = r
      /\ conn' \in [Conns -> Connection \cup {Freed}]
      /\ \A d \in Conns \ {c} : conn'[d] = conn[d]
  <2>1. conn' = [conn EXCEPT ![c] = r]
    BY <1>1 DEF PsaReply, Types
  <2> HIDE DEF r
  <2> QED BY <2>1, <1>1, <1>5 DEF Types
<1> HIDE DEF r
<1>7. /\ replied' = [replied EXCEPT ![q] = Append(@, c)]
      /\ asserted' = [asserted EXCEPT ![q] = asserted[q] \cup {ASYNC}]
      /\ pendsv' = NeedSchedule(q, asserted[q] \cup {ASYNC})
      /\ served' = [served EXCEPT ![p] = @ \ {c}]
      /\ ~pendsv
      /\ UNCHANGED <<pool, reqs, waiting, cur, enabled, collecting, held>>
  BY DEF PsaReply, Running
<1> HIDE DEF q
<1>8. /\ replied' \in [Partitions -> Seq(Conns)]
      /\ replied'[q] # << >>
      /\ \A t \in Partitions \ {q} : replied'[t] = replied[t]
      /\ Range(replied'[q]) = Range(replied[q]) \cup {c}
      /\ \A t \in Partitions : IsInjective(replied'[t])
  <2>1. replied[q] \in Seq(Conns) /\ IsInjective(replied[q]) /\ c \notin Range(replied[q])
    BY <1>1, <1>2, <1>3 DEF IndInv, OnePlace, Types
  <2>2. /\ Append(replied[q], c) \in Seq(Conns)
        /\ Append(replied[q], c) # << >>
        /\ Range(Append(replied[q], c)) = Range(replied[q]) \cup {c}
        /\ IsInjective(Append(replied[q], c))
    BY <2>1, AppendList
  <2>3. /\ replied'[q] = Append(replied[q], c)
        /\ \A t \in Partitions \ {q} : replied'[t] = replied[t]
        /\ replied' \in [Partitions -> Seq(Conns)]
    BY <2>2, <1>1, <1>2, <1>7 DEF Types
  <2> QED BY <2>2, <2>3, ZenonT(40) DEF IndInv, OnePlace
<1>9. /\ served'[p] = served[p] \ {c}
      /\ \A t \in Partitions \ {p} : served'[t] = served[t]
      /\ served' \in [Partitions -> SUBSET Conns]
  BY <1>1, <1>7 DEF Types
<1>10. /\ asserted' \in [Partitions -> SUBSET Signals]
       /\ asserted'[q] = asserted[q] \cup {ASYNC}
       /\ \A t \in Partitions \ {q} : asserted'[t] = asserted[t]
  BY <1>1, <1>2, <1>7 DEF Types, Signals
<1>11. Types'
  <2>1. pendsv' \in BOOLEAN
    BY <1>7 DEF NeedSchedule
  <2> QED BY <2>1, <1>1, <1>6, <1>7, <1>8, <1>9, <1>10 DEF Types
<1>12. Allocated'
  BY <1>5, <1>6, <1>7 DEF IndInv, Allocated, q
<1>13. \A t \in Partitions : /\ Range(reqs[t]) \subseteq Conns \ {c}
                             /\ Range(replied[t]) \subseteq Conns \ {c}
                             /\ served'[t] \subseteq served[t] \ {c}
                             /\ served[t] \subseteq Conns
                             /\ Range(replied'[t]) \subseteq Range(replied[t]) \cup {c}
  <2>1. \A t \in Partitions : /\ Range(reqs[t]) \subseteq Conns \ {c}
                              /\ Range(replied[t]) \subseteq Conns \ {c}
                              /\ served[t] \subseteq Conns
    BY <1>1, <1>3, EmptyList, SMTT(30) DEF Types
  <2>2. \A t \in Partitions : served'[t] \subseteq served[t] \ {c}
    BY <1>3, <1>9
  <2>3. \A t \in Partitions : Range(replied'[t]) \subseteq Range(replied[t]) \cup {c}
    BY <1>8
  <2> QED BY <2>1, <2>2, <2>3
<1>14. OnePlace'
  <2>1. ASSUME NEW t \in Partitions
        PROVE  /\ IsInjective(reqs'[t])
               /\ IsInjective(replied'[t])
               /\ \A d \in Range(reqs'[t]) \cup served'[t] :
                    d \notin pool' /\ t = Owner[conn'[d].service]
               /\ \A d \in Range(replied'[t]) : d \notin pool' /\ t = conn'[d].p_client
    <3>1. /\ IsInjective(reqs[t])
          /\ \A d \in Range(reqs[t]) \cup served[t] :
               d \notin pool /\ t = Owner[conn[d].service]
          /\ \A d \in Range(replied[t]) : d \notin pool /\ t = conn[d].p_client
      BY DEF IndInv, OnePlace
    <3>2. \A d \in Range(reqs'[t]) \cup served'[t] :
            d \notin pool' /\ t = Owner[conn'[d].service]
      BY <3>1, <1>6, <1>7, <1>13
    <3>3. \A d \in Range(replied'[t]) : d \notin pool' /\ t = conn'[d].p_client
      <4>1. CASE t = q
        BY <4>1, <3>1, <1>2, <1>5, <1>6, <1>7, <1>8, <1>13
      <4>2. CASE t # q
        BY <4>2, <3>1, <1>6, <1>7, <1>8, <1>13
      <4> QED BY <4>1, <4>2
    <3> QED BY <3>1, <3>2, <3>3, <1>7, <1>8
  <2>2. ASSUME NEW t \in Partitions, NEW u \in Partitions
        PROVE  /\ Range(reqs'[t]) \cap served'[u] = {}
               /\ Range(reqs'[t]) \cap Range(replied'[u]) = {}
               /\ served'[t] \cap Range(replied'[u]) = {}
    <3>1. /\ Range(reqs[t]) \cap served[u] = {}
          /\ Range(reqs[t]) \cap Range(replied[u]) = {}
          /\ served[t] \cap Range(replied[u]) = {}
      BY DEF IndInv, OnePlace
    <3>2. /\ served'[u] \subseteq served[u]
          /\ served'[t] \subseteq served[t] \ {c}
          /\ Range(replied'[u]) \subseteq Range(replied[u]) \cup {c}
          /\ reqs' = reqs
          /\ c \notin Range(reqs[t])
      BY <1>3, <1>7, <1>13
    <3> QED BY <3>1, <3>2
  <2>3. collecting' # NoConn =>
          /\ collecting' \notin pool'
          /\ conn'[collecting'].p_client = Agent
          /\ \A t \in Partitions : collecting' \notin Range(reqs'[t])
                                   \cup served'[t] \cup Range(replied'[t])
    BY <1>1, <1>3, <1>6, <1>7, <1>13, SMTT(40) DEF IndInv, OnePlace, Types
  <2> QED BY <2>1, <2>2, <2>3 DEF OnePlace
<1>15. ReplySignalMatchesList'
  BY <1>8, <1>10, <1>2 DEF IndInv, ReplySignalMatchesList
<1>16. NotIdle'
  <2>1. \A t \in Partitions : \A d \in Range(reqs'[t]) \cup served'[t] :
          conn'[d].status # "IDLE"
    BY <1>6, <1>7, <1>13 DEF IndInv, NotIdle
  <2>2. \A d \in Range(replied'[Agent]) : conn'[d].status # "IDLE"
    <3>1. CASE q = Agent
      BY <3>1, <1>5, <1>6, <1>8, <1>13 DEF IndInv, NotIdle
    <3>2. CASE q # Agent
      BY <3>2, <1>6, <1>8, <1>13 DEF IndInv, NotIdle
    <3> QED BY <3>1, <3>2
  <2>3. collecting' # NoConn => conn'[collecting'].status # "IDLE"
    BY <1>1, <1>3, <1>6, <1>7 DEF IndInv, NotIdle, Types
  <2> QED BY <2>1, <2>2, <2>3 DEF NotIdle
<1>17. ASSUME NEW d \in Conns, InFlight(d)' PROVE InFlight(d)
  <2>1. CASE d = c
    BY <2>1, <1>2
  <2>2. CASE d # c
    BY <2>2, <1>7, <1>13, <1>17 DEF InFlight
  <2> QED BY <2>1, <2>2
<1>18. \A d \in Conns : conn'[d].p_client = conn[d].p_client
  BY <1>5, <1>6 DEF q
<1>19. OneCall'
  BY <1>7, <1>17, <1>18, ZenonT(40) DEF IndInv, OneCall
<1>20. RunningAwake'
  BY <1>7 DEF IndInv, RunningAwake
<1> QED BY <1>11, <1>12, <1>14, <1>15, <1>16, <1>19, <1>20 DEF IndInv

(* The Agent's psa_get takes the oldest answer; the connection stays in    *)
(* flight until the Agent has handled it.                                  *)
LEMMA AgentGetInv ==
    ASSUME IndInv, AgentGetReply
    PROVE  IndInv'
<1> USE PartitionAssumption, ServiceAssumption
<1> PICK c : c = Head(replied[Agent])
  OBVIOUS
<1>1. /\ Types
      /\ replied[Agent] \in Seq(Conns)
      /\ replied[Agent] # << >>
      /\ IsInjective(replied[Agent])
      /\ collecting = NoConn
  BY DEF IndInv, Types, OnePlace, AgentGetReply, Running
<1>2. /\ c \in Range(replied[Agent])
      /\ Tail(replied[Agent]) \in Seq(Conns)
      /\ Range(Tail(replied[Agent])) = Range(replied[Agent]) \ {c}
      /\ IsInjective(Tail(replied[Agent]))
  BY <1>1, TailList
<1>3. /\ collecting' = c
      /\ replied' = [replied EXCEPT ![Agent] = Tail(@)]
      /\ asserted' = [asserted EXCEPT ![Agent] =
             IF Tail(replied[Agent]) = << >> THEN @ \ {ASYNC} ELSE @]
      /\ ASYNC \in asserted[Agent]
      /\ UNCHANGED <<pool, conn, reqs, waiting, cur, pendsv, enabled, served, held>>
  BY <1>1 DEF AgentGetReply, SignalsAfterReply, Types
<1>4. /\ c \in Conns \ pool
      /\ c # NoConn
      /\ conn[c].p_client = Agent
      /\ conn[c].status # "IDLE"
      /\ \A q \in Partitions : c \notin Range(reqs[q]) /\ c \notin served[q]
      /\ \A q \in Partitions \ {Agent} : c \notin Range(replied[q])
  <2>1. c \in Conns \ pool /\ c # NoConn
    BY <1>1, <1>2, EmptyList DEF IndInv, OnePlace
  <2>2. conn[c].p_client = Agent /\ conn[c].status # "IDLE"
    BY <1>2 DEF IndInv, OnePlace, NotIdle
  <2>3. \A q \in Partitions : c \notin Range(reqs[q]) /\ c \notin served[q]
    BY <1>2 DEF IndInv, OnePlace
  <2>4. \A q \in Partitions \ {Agent} : c \notin Range(replied[q])
    BY <2>2 DEF IndInv, OnePlace
  <2> QED BY <2>1, <2>2, <2>3, <2>4
<1>5. /\ replied'[Agent] = Tail(replied[Agent])
      /\ \A q \in Partitions \ {Agent} : replied'[q] = replied[q]
      /\ replied' \in [Partitions -> Seq(Conns)]
  BY <1>1, <1>2, <1>3 DEF Types
<1>6. \A q \in Partitions : /\ IsInjective(replied'[q])
                            /\ Range(replied'[q]) = Range(replied[q]) \ {c}
  <2> SUFFICES ASSUME NEW q \in Partitions
               PROVE  /\ IsInjective(replied'[q])
                      /\ Range(replied'[q]) = Range(replied[q]) \ {c}
    OBVIOUS
  <2>1. CASE q = Agent
    BY <2>1, <1>2, <1>5
  <2>2. CASE q # Agent
    <3>1. replied'[q] = replied[q] /\ c \notin Range(replied[q])
      BY <2>2, <1>4, <1>5
    <3> QED BY <3>1 DEF IndInv, OnePlace
  <2> QED BY <2>1, <2>2
<1>7. Types'
  <2>1. asserted' \in [Partitions -> SUBSET Signals]
    BY <1>1, <1>3 DEF Types
  <2> QED BY <2>1, <1>1, <1>3, <1>4, <1>5 DEF Types
<1>8. Allocated'
  BY <1>3 DEF IndInv, Allocated
<1>9. OnePlace'
  <2>1. ASSUME NEW q \in Partitions
        PROVE  /\ IsInjective(reqs'[q])
               /\ IsInjective(replied'[q])
               /\ \A d \in Range(reqs'[q]) \cup served'[q] :
                    d \notin pool' /\ q = Owner[conn'[d].service]
               /\ \A d \in Range(replied'[q]) : d \notin pool' /\ q = conn'[d].p_client
    <3>1. /\ IsInjective(reqs[q])
          /\ \A d \in Range(reqs[q]) \cup served[q] :
               d \notin pool /\ q = Owner[conn[d].service]
          /\ \A d \in Range(replied[q]) : d \notin pool /\ q = conn[d].p_client
      BY DEF IndInv, OnePlace
    <3>2. Range(replied'[q]) \subseteq Range(replied[q])
      BY <1>6
    <3> QED BY <3>1, <3>2, <1>3, <1>6
  <2>2. ASSUME NEW q \in Partitions, NEW t \in Partitions
        PROVE  /\ Range(reqs'[q]) \cap served'[t] = {}
               /\ Range(reqs'[q]) \cap Range(replied'[t]) = {}
               /\ served'[q] \cap Range(replied'[t]) = {}
    <3>1. /\ Range(reqs[q]) \cap served[t] = {}
          /\ Range(reqs[q]) \cap Range(replied[t]) = {}
          /\ served[q] \cap Range(replied[t]) = {}
      BY DEF IndInv, OnePlace
    <3>2. Range(replied'[t]) \subseteq Range(replied[t])
      BY <1>6
    <3> QED BY <3>1, <3>2, <1>3
  <2>3. collecting' # NoConn =>
          /\ collecting' \notin pool'
          /\ conn'[collecting'].p_client = Agent
          /\ \A q \in Partitions : collecting' \notin Range(reqs'[q])
                                   \cup served'[q] \cup Range(replied'[q])
    <3>1. \A q \in Partitions : c \notin Range(replied'[q])
      BY <1>6, SMTT(30)
    <3>2. c \notin pool /\ conn[c].p_client = Agent
      BY <1>4
    <3> QED BY <3>1, <3>2, <1>3, <1>4
  <2> QED BY <2>1, <2>2, <2>3 DEF OnePlace
<1>10. ReplySignalMatchesList'
  <2>1. \A q \in Partitions \ {Agent} : asserted'[q] = asserted[q]
    BY <1>1, <1>3 DEF Types
  <2>2. ASYNC \in asserted'[Agent] <=> Tail(replied[Agent]) # << >>
    BY <1>1, <1>3 DEF Types
  <2> QED BY <2>1, <2>2, <1>5 DEF IndInv, ReplySignalMatchesList
<1>11. NotIdle'
  BY <1>3, <1>4, <1>6 DEF IndInv, NotIdle
<1>12. ASSUME NEW d \in Conns, InFlight(d)' PROVE InFlight(d)
  <2>1. CASE d = c
    BY <2>1, <1>2 DEF InFlight
  <2>2. CASE d # c
    BY <2>2, <1>3, <1>6, <1>12 DEF InFlight
  <2> QED BY <2>1, <2>2
<1>13. OneCall'
  BY <1>3, <1>12 DEF IndInv, OneCall
<1>14. RunningAwake'
  BY <1>3 DEF IndInv, RunningAwake
<1> QED BY <1>7, <1>8, <1>9, <1>10, <1>11, <1>13, <1>14 DEF IndInv

(* tfm_rpc_client_call_reply frees the connection or makes it idle again.  *)
LEMMA AgentHandleInv ==
    ASSUME IndInv, AgentHandleReply
    PROVE  IndInv'
<1> USE PartitionAssumption, ServiceAssumption
<1> PICK c : c = collecting
  OBVIOUS
<1>1. /\ Types
      /\ c \in Conns \ pool
      /\ conn[c].p_client = Agent
      /\ \A q \in Partitions : c \notin Range(reqs[q]) \cup served[q]
      /\ \A q \in Partitions : c \notin Range(replied[q])
  BY DEF IndInv, Types, OnePlace, AgentHandleReply
<1>2. conn[c] \in Connection
  BY <1>1 DEF IndInv, Allocated
<1>3. /\ pool' = IF conn[c].status = "TO_FREE" THEN pool \cup {c} ELSE pool
      /\ conn' = IF conn[c].status = "TO_FREE"
                 THEN [conn EXCEPT ![c] = Freed]
                 ELSE [conn EXCEPT ![c].status = "IDLE"]
      /\ held' = HeldAfterReply(c)
      /\ collecting' = NoConn
      /\ UNCHANGED <<reqs, replied, asserted, waiting, cur, pendsv, enabled, served>>
  BY DEF AgentHandleReply, PoolAfterReply
<1>4. held' \in [Clients -> SUBSET Conns]
  BY <1>1, <1>2, <1>3 DEF HeldAfterReply, Types, Connection
<1>5. /\ conn' \in [Conns -> Connection \cup {Freed}]
      /\ \A d \in Conns \ {c} : conn'[d] = conn[d]
      /\ c \notin pool' => /\ conn'[c] \in Connection
                           /\ conn'[c].client_id = conn[c].client_id
                           /\ conn'[c].p_client = conn[c].p_client
  BY <1>1, <1>2, <1>3 DEF Types, Connection
<1>6. Types'
  BY <1>1, <1>3, <1>4, <1>5 DEF Types
<1>7. \A q \in Partitions : /\ IsInjective(replied'[q])
                            /\ Range(replied'[q]) = Range(replied[q]) \ {c}
  BY <1>1, <1>3 DEF IndInv, OnePlace
<1>8. /\ Allocated'
      /\ OnePlace'
      /\ NotIdle'
      /\ \A d \in Conns : InFlight(d)' => InFlight(d) /\ d # c
  <2>1. pool' \in {pool, pool \cup {c}}
    BY <1>3
  <2>2. replied' \in [Partitions -> Seq(Conns)]
    BY <1>6 DEF Types
  <2>3. collecting' = NoConn \/ (collecting' = collecting /\ collecting # c)
    BY <1>3
  <2>4. UNCHANGED <<reqs, served>>
    BY <1>3
  <2> QED BY <2>1, <2>2, <2>3, <2>4, <1>1, <1>5, <1>7, ReplyTakenInv
<1>9. ReplySignalMatchesList'
  BY <1>3 DEF IndInv, ReplySignalMatchesList
<1>10. pool \subseteq pool'
  BY <1>3
<1>11. OneCall'
  BY <1>3, <1>5, <1>8, <1>10 DEF IndInv, OneCall
<1>12. RunningAwake'
  BY <1>3 DEF IndInv, RunningAwake
<1> QED BY <1>6, <1>8, <1>9, <1>11, <1>12 DEF IndInv

(* Doorbells and interrupts preserve the invariant: none of them touches   *)
(* ASYNC_MSG_REPLY.                                                        *)
LEMMA SignalStepsInv ==
    ASSUME IndInv,
           \/ \E i \in Irqs : Interrupt(i)
           \/ \E p \in Partitions \ {Idle} :
                \/ \E q \in Partitions : PsaNotify(p, q)
                \/ PsaClear(p)
                \/ \E i \in Irqs : \/ PsaEoi(p, i)
                                   \/ PsaResetSignal(p, i)
                                   \/ PsaIrqEnable(p, i)
                                   \/ PsaIrqDisable(p, i)
    PROVE  IndInv'
<1> USE PartitionAssumption, ServiceAssumption
<1>1. Types
  BY DEF IndInv
<1>2. ASSUME NEW i \in Irqs, Interrupt(i) PROVE IndInv'
  <2>1. IrqOwner[i] \in Partitions /\ i \in Signals /\ i # ASYNC
    BY DEF Signals
  <2>2. /\ asserted' \in [Partitions -> SUBSET Signals]
        /\ \A q \in Partitions : ASYNC \in asserted'[q] <=> ASYNC \in asserted[q]
    <3>1. asserted' = [asserted EXCEPT ![IrqOwner[i]] = @ \cup {i}]
      BY <1>2, <1>1, <2>1 DEF Interrupt, Types
    <3> QED BY <1>1, <2>1, <3>1, SMTT(30) DEF Types
  <2>3. enabled' \subseteq Irqs
    BY <1>1, <1>2 DEF Interrupt, Types
  <2>4. pendsv' \in BOOLEAN /\ (pendsv => pendsv')
    BY <1>1, <1>2 DEF Interrupt, NeedSchedule
  <2> QED BY <1>2, <2>2, <2>3, <2>4, SignalInv DEF Interrupt
<1>3. ASSUME NEW p \in Partitions, NEW q \in Partitions, PsaNotify(p, q) PROVE IndInv'
  <2>1. DOORBELL \in Signals /\ DOORBELL # ASYNC
    BY DEF Signals
  <2>2. /\ asserted' \in [Partitions -> SUBSET Signals]
        /\ \A t \in Partitions : ASYNC \in asserted'[t] <=> ASYNC \in asserted[t]
    <3>1. asserted' = [asserted EXCEPT ![q] = @ \cup {DOORBELL}]
      BY <1>3 DEF PsaNotify
    <3>2. /\ asserted'[q] = asserted[q] \cup {DOORBELL}
          /\ \A t \in Partitions \ {q} : asserted'[t] = asserted[t]
          /\ asserted' \in [Partitions -> SUBSET Signals]
      BY <1>1, <2>1, <3>1, SMTT(30) DEF Types
    <3> QED BY <2>1, <3>2
  <2>3. enabled' \subseteq Irqs
    BY <1>1, <1>3 DEF PsaNotify, Types
  <2>4. pendsv' \in BOOLEAN /\ (pendsv => pendsv')
    BY <1>3 DEF PsaNotify, NeedSchedule, Running
  <2> QED BY <1>3, <2>2, <2>3, <2>4, SignalInv DEF PsaNotify
<1>4. ASSUME NEW p \in Partitions, PsaClear(p) PROVE IndInv'
  <2>1. /\ asserted' \in [Partitions -> SUBSET Signals]
        /\ \A t \in Partitions : ASYNC \in asserted'[t] <=> ASYNC \in asserted[t]
    BY <1>1, <1>4 DEF PsaClear, Types
  <2>2. enabled' \subseteq Irqs /\ pendsv' \in BOOLEAN /\ (pendsv => pendsv')
    BY <1>1, <1>4 DEF PsaClear, Types
  <2> QED BY <1>4, <2>1, <2>2, SignalInv DEF PsaClear
<1>5. ASSUME NEW p \in Partitions, NEW i \in Irqs,
             PsaEoi(p, i) \/ PsaResetSignal(p, i)
      PROVE  IndInv'
  <2>1. /\ asserted' \in [Partitions -> SUBSET Signals]
        /\ \A t \in Partitions : ASYNC \in asserted'[t] <=> ASYNC \in asserted[t]
    <3>1. asserted' = [asserted EXCEPT ![p] = @ \ {i}] /\ i # ASYNC
      BY <1>5 DEF PsaEoi, PsaResetSignal
    <3> QED BY <1>1, <3>1 DEF Types
  <2>2. enabled' \subseteq Irqs /\ pendsv' \in BOOLEAN /\ (pendsv => pendsv')
    BY <1>1, <1>5 DEF PsaEoi, PsaResetSignal, Types
  <2> QED BY <1>5, <2>1, <2>2, SignalInv DEF PsaEoi, PsaResetSignal
<1>6. ASSUME NEW p \in Partitions, NEW i \in Irqs,
             PsaIrqEnable(p, i) \/ PsaIrqDisable(p, i)
      PROVE  IndInv'
  <2>1. enabled' \subseteq Irqs /\ asserted' = asserted /\ pendsv' = pendsv
    BY <1>1, <1>6 DEF PsaIrqEnable, PsaIrqDisable, Types
  <2>2. asserted' \in [Partitions -> SUBSET Signals] /\ pendsv' \in BOOLEAN
    BY <1>1, <2>1 DEF Types
  <2> QED BY <1>6, <2>1, <2>2, SignalInv DEF PsaIrqEnable, PsaIrqDisable
<1> QED BY <1>2, <1>3, <1>4, <1>5, <1>6

(* Every step of the system preserves the invariant.                       *)
LEMMA NextInv == IndInv /\ [Next]_vars => IndInv'
<1> SUFFICES ASSUME IndInv, [Next]_vars PROVE IndInv'
  OBVIOUS
<1>1. CASE UNCHANGED vars
  <2>1. /\ asserted' \in [Partitions -> SUBSET Signals]
        /\ enabled' \subseteq Irqs
        /\ pendsv' \in BOOLEAN
    BY <1>1 DEF vars, IndInv, Types
  <2> QED BY <1>1, <2>1, SignalInv DEF vars
<1>2. CASE Schedule
  BY <1>2, ScheduleInv
<1>3. CASE \E i \in Irqs : Interrupt(i)
  BY <1>3, SignalStepsInv
<1>4. ASSUME NEW p \in Partitions \ {Idle}, ClientStep(p) PROVE IndInv'
  BY <1>4, ClientInv
<1>5. ASSUME NEW p \in Partitions \ {Idle}, ServiceStep(p) PROVE IndInv'
  <2>1. CASE \E mask \in WaitMasks(p) : PsaWait(p, mask)
    BY <2>1, WaitInv
  <2>2. CASE \E s \in Services : PsaGet(p, s)
    BY <2>2, GetInv
  <2>3. CASE \E c \in Conns, ok \in BOOLEAN : PsaReply(p, c, ok)
    BY <2>3, ReplyInv
  <2>4. CASE \/ \E q \in Partitions : PsaNotify(p, q)
             \/ PsaClear(p)
             \/ \E i \in Irqs : \/ PsaEoi(p, i)
                                \/ PsaResetSignal(p, i)
                                \/ PsaIrqEnable(p, i)
                                \/ PsaIrqDisable(p, i)
    BY <2>4, SignalStepsInv
  <2> QED BY <1>5, <2>1, <2>2, <2>3, <2>4 DEF ServiceStep
<1>6. CASE AgentGetReply
  BY <1>6, AgentGetInv
<1>7. CASE AgentHandleReply
  BY <1>7, AgentHandleInv
<1>8. ASSUME NEW p \in Partitions, NEW mask \in WaitMasks(p), PsaPoll(p, mask) PROVE IndInv'
  <2>1. asserted' \in [Partitions -> SUBSET Signals] /\ enabled' \subseteq Irqs
    BY <1>8 DEF PsaPoll, IndInv, Types
  <2>2. pendsv' \in BOOLEAN /\ (pendsv => pendsv')
    BY <1>8 DEF PsaPoll
  <2> QED BY <1>8, <2>1, <2>2, SignalInv DEF PsaPoll
<1> QED BY <1>1, <1>2, <1>3, <1>4, <1>5, <1>6, <1>7, <1>8 DEF Next

-----------------------------------------------------------------------------
(* The invariant holds in every reachable state, for any partitions,       *)
(* services, interrupts, clients and pool size.                            *)
THEOREM Invariance == Spec => []IndInv
BY InitInv, NextInv, PTL DEF Spec

(* A connection is never allocated twice, queued twice, delivered twice or *)
(* replied to another client than its own.                                 *)
THEOREM ConnectionInOnePlace == Spec => []OnePlace
<1>1. IndInv => OnePlace
  BY DEF IndInv
<1> QED BY <1>1, Invariance, PTL

(* query_state and spm_get_async_replied_handle find a reply whenever      *)
(* ASYNC_MSG_REPLY is asserted, and a mounted reply always has its signal. *)
THEOREM ReplySignalSound == Spec => []ReplySignalMatchesList
<1>1. IndInv => ReplySignalMatchesList
  BY DEF IndInv
<1> QED BY <1>1, Invariance, PTL

(* ASYNC_MSG_REPLY is asserted for a partition other than the Agent only   *)
(* while it is blocked in a synchronous call, so psa_wait cannot return it.*)
THEOREM ReplyNeverASignal == Spec => []ReplyIsNotASignal
<1> USE PartitionAssumption, ServiceAssumption
<1>1. ASSUME IndInv PROVE ReplyIsNotASignal
  <2> SUFFICES ASSUME NEW p \in Partitions \ {Agent}, ASYNC \in asserted[p]
               PROVE  waiting[p] = {ASYNC}
    BY DEF ReplyIsNotASignal
  <2>1. /\ replied[p] # << >>
        /\ replied[p] \in Seq(Conns)
        /\ IsInjective(replied[p])
    BY <1>1 DEF IndInv, ReplySignalMatchesList, Types, OnePlace
  <2>2. PICK d : d \in Range(replied[p])
    BY <2>1, TailList
  <2>3. d \in Conns \ pool /\ conn[d].p_client = p /\ InFlight(d)
    BY <1>1, <2>1, <2>2, EmptyList DEF IndInv, OnePlace, InFlight
  <2> QED BY <1>1, <2>3 DEF IndInv, OneCall
<1> QED BY <1>1, Invariance, PTL


-----------------------------------------------------------------------------
(* Where the connections are, and what each kind of step does to that.     *)

Queued == {c \in Conns : \E p \in Partitions : c \in Range(reqs[p])}
Serving == {c \in Conns : \E p \in Partitions : c \in served[p]}
Answered ==
    {c \in Conns : c = collecting \/ \E p \in Partitions : c \in Range(replied[p])}
Busy == Queued \cup Serving \cup Answered

(* A connection is free, queued, served or answered, or none of these.     *)
LEMMA Places ==
    ASSUME IndInv
    PROVE  /\ Queued \cap Serving = {} /\ Queued \cap Answered = {}
           /\ Serving \cap Answered = {} /\ Busy \cap pool = {}
           /\ \A c \in Conns : InFlight(c) <=> c \in Busy
           /\ \A c \in Busy : c \in Conns /\ conn[c] \in Connection
<1> USE PartitionAssumption, ServiceAssumption
<1>1. Queued \cap Serving = {} /\ Queued \cap pool = {} /\ Serving \cap pool = {}
  BY DEF IndInv, OnePlace, Queued, Serving
<1>2. Queued \cap Answered = {} /\ Serving \cap Answered = {} /\ Answered \cap pool = {}
  <2> SUFFICES ASSUME NEW c \in Answered PROVE c \notin Queued \cup Serving \cup pool
    OBVIOUS
  <2>1. CASE c = collecting
    BY <2>1 DEF IndInv, OnePlace, Queued, Serving, Answered
  <2>2. ASSUME NEW p \in Partitions, c \in Range(replied[p])
        PROVE  c \notin Queued \cup Serving \cup pool
    BY <2>2 DEF IndInv, OnePlace, Queued, Serving
  <2> QED BY <2>1, <2>2 DEF Answered
<1>3. \A c \in Conns : InFlight(c) <=> c \in Busy
  BY DEF InFlight, Busy, Queued, Serving, Answered
<1>4. \A c \in Busy : c \in Conns /\ conn[c] \in Connection
  BY <1>1, <1>2 DEF IndInv, Allocated, Busy, Queued, Serving, Answered
<1> QED BY <1>1, <1>2, <1>3, <1>4 DEF Busy

(* A client's request: connection c, free or idle before, becomes r and    *)
(* joins the queue of the partition that owns the service.                 *)
Sends(p, k, c, r) ==
    /\ Running(p)
    /\ k \in ClientIds(p) /\ k \in Clients
    /\ c \in Conns \ Busy
    /\ r \in Connection /\ r.p_client = p /\ r.client_id = k
    /\ pool' = pool \ {c}
    /\ conn' = [conn EXCEPT ![c] = r]
    /\ Messaging(p, c, r.service)
    /\ \/ /\ c \in pool
          /\ r.status = "ACTIVE"
          /\ r.type = IF r.service \in Stateless THEN "CALL" ELSE "CONNECT"
          /\ held' = held
       \/ /\ c \in held[k]
          /\ c \notin pool
          /\ conn[c].status = "IDLE"
          /\ r.service = conn[c].service
          /\ conn[c].client_id = k
          /\ \/ r.type = "CALL" /\ r.status = "ACTIVE" /\ held' = held
             \/ /\ r.type = "DISCONNECT" /\ r.status = "TO_FREE"
                /\ held' = [held EXCEPT ![k] = @ \ {c}]

(* psa_connect, psa_call and psa_close are such requests.                  *)
LEMMA ClientSends ==
    ASSUME IndInv, NEW p \in Partitions \ {Idle}, ClientStep(p)
    PROVE  \E k, c, r : Sends(p, k, c, r)
<1> USE PartitionAssumption, ServiceAssumption
<1> PICK k \in ClientIds(p) :
        \/ \E s \in Services : PsaConnect(p, k, s) \/ PsaCallStateless(p, k, s)
        \/ \E c \in Conns : PsaCall(p, k, c) \/ PsaClose(p, k, c)
  BY DEF ClientStep
<1>1. k \in Clients
  BY DEF ClientIds, Clients
<1>2. Types
  BY DEF IndInv
<1>3. ASSUME NEW s \in Services,
             NEW type, type = IF s \in Stateless THEN "CALL" ELSE "CONNECT",
             Running(p), NewConnection(p, k, s, type)
      PROVE  \E c, r : Sends(p, k, c, r)
  <2>1. PICK c \in pool :
          /\ pool' = pool \ {c}
          /\ conn' = [conn EXCEPT ![c] =
               [status |-> "ACTIVE", p_client |-> p, client_id |-> k,
                service |-> s, type |-> type, replied_value |-> "NONE"]]
          /\ Messaging(p, c, s)
          /\ UNCHANGED held
    BY <1>3 DEF NewConnection
  <2> DEFINE r == [status |-> "ACTIVE", p_client |-> p, client_id |-> k,
                   service |-> s, type |-> type, replied_value |-> "NONE"]
  <2>2. /\ r \in Connection
        /\ r.status = "ACTIVE"
        /\ r.p_client = p
        /\ r.client_id = k
        /\ r.service = s
        /\ r.type = type
    BY <1>1, <1>3 DEF Connection
  <2>3. c \in Conns \ Busy
    BY <1>2, Places DEF Types
  <2>4. conn' = [conn EXCEPT ![c] = r]
    BY <2>1
  <2> HIDE DEF r
  <2>5. Sends(p, k, c, r)
    BY <2>1, <2>2, <2>3, <2>4, <1>1, <1>3 DEF Sends
  <2> QED BY <2>5
<1>4. ASSUME NEW c \in Conns, NEW type \in {"CALL", "DISCONNECT"},
             NEW status \in {"ACTIVE", "TO_FREE"},
             Running(p), IdleConnection(c, k), c \in held[k],
             conn' = [conn EXCEPT ![c].type = type, ![c].status = status],
             \/ type = "CALL" /\ status = "ACTIVE" /\ held' = held
             \/ /\ type = "DISCONNECT" /\ status = "TO_FREE"
                /\ held' = [held EXCEPT ![k] = @ \ {c}],
             Messaging(p, c, conn[c].service),
             UNCHANGED pool
      PROVE  \E d, r : Sends(p, k, d, r)
  <2> DEFINE r == [conn[c] EXCEPT !.type = type, !.status = status]
  <2>1. ~InFlight(c) /\ conn[c] \in Connection /\ conn[c].p_client = p
    BY <1>4, IdleNotInFlight
  <2>2. /\ r \in Connection
        /\ r.status = status
        /\ r.type = type
        /\ r.p_client = p
        /\ r.client_id = k
        /\ r.service = conn[c].service
    BY <1>4, <2>1 DEF Connection, IdleConnection
  <2>3. conn' = [conn EXCEPT ![c] = r]
    BY <1>4, <1>2 DEF Types
  <2>4. pool' = pool \ {c} /\ c \notin pool
    BY <1>4 DEF IdleConnection
  <2>5. c \in Conns \ Busy
    BY <2>1, Places
  <2> HIDE DEF r
  <2>6. Sends(p, k, c, r)
    BY <2>1, <2>2, <2>3, <2>4, <2>5, <1>1, <1>4 DEF Sends, IdleConnection
  <2> QED BY <2>6
<1>5. ASSUME NEW s \in Services, PsaConnect(p, k, s) PROVE \E c, r : Sends(p, k, c, r)
  BY <1>3, <1>5 DEF PsaConnect
<1>6. ASSUME NEW s \in Services, PsaCallStateless(p, k, s)
      PROVE  \E c, r : Sends(p, k, c, r)
  BY <1>3, <1>6 DEF PsaCallStateless
<1>7. ASSUME NEW c \in Conns, PsaCall(p, k, c) PROVE \E d, r : Sends(p, k, d, r)
  BY <1>4, <1>7 DEF PsaCall
<1>8. ASSUME NEW c \in Conns, PsaClose(p, k, c) PROVE \E d, r : Sends(p, k, d, r)
  BY <1>4, <1>8 DEF PsaClose
<1> QED BY <1>5, <1>6, <1>7, <1>8

(* What a request does to the lists and to the places.                     *)
LEMMA SendsPlaces ==
    ASSUME IndInv, NEW p \in Partitions \ {Idle}, NEW k, NEW c, NEW r, Sends(p, k, c, r)
    PROVE  /\ r.service \in Services
           /\ Owner[r.service] \in Partitions
           /\ reqs'[Owner[r.service]] = Append(reqs[Owner[r.service]], c)
           /\ \A q \in Partitions \ {Owner[r.service]} : reqs'[q] = reqs[q]
           /\ asserted' = [asserted EXCEPT ![Owner[r.service]] = @ \cup {r.service}]
           /\ Queued' = Queued \cup {c}
           /\ Serving' = Serving
           /\ Answered' = Answered
           /\ conn'[c] = r
           /\ \A d \in Conns \ {c} : conn'[d] = conn[d]
<1> USE PartitionAssumption, ServiceAssumption
<1> DEFINE o == Owner[r.service]
<1>1. Types /\ r.service \in Services /\ o \in Partitions /\ c \in Conns
  BY DEF IndInv, Sends, Connection
<1>2. /\ reqs' = [reqs EXCEPT ![o] = Append(@, c)]
      /\ asserted' = [asserted EXCEPT ![o] = @ \cup {r.service}]
      /\ UNCHANGED <<replied, cur, enabled, served, collecting>>
  BY <1>1 DEF Sends, Messaging, Types
<1>3. /\ reqs'[o] = Append(reqs[o], c)
      /\ \A q \in Partitions \ {o} : reqs'[q] = reqs[q]
      /\ reqs[o] \in Seq(Conns)
  BY <1>1, <1>2 DEF Types
<1>4. Range(reqs'[o]) = Range(reqs[o]) \cup {c}
  BY <1>1, <1>3, AppendList
<1>5. Queued' = Queued \cup {c}
  BY <1>1, <1>3, <1>4 DEF Queued
<1>6. Serving' = Serving /\ Answered' = Answered
  BY <1>2 DEF Serving, Answered
<1>7. conn'[c] = r /\ \A d \in Conns \ {c} : conn'[d] = conn[d]
  BY <1>1 DEF Sends, Types
<1> QED BY <1>1, <1>2, <1>3, <1>5, <1>6, <1>7

(* What psa_get does to the places.                                        *)
LEMMA GetPlaces ==
    ASSUME IndInv, NEW p \in Partitions, NEW s \in Services, PsaGet(p, s)
    PROVE  \E i \in 1 .. Len(reqs[p]) :
             /\ IsOldestFor(p, s, i)
             /\ reqs[p][i] \in Queued
             /\ conn[reqs[p][i]].service = s
             /\ reqs'[p] = RemoveNode(reqs[p], i)
             /\ \A q \in Partitions \ {p} : reqs'[q] = reqs[q]
             /\ Range(reqs'[p]) = Range(reqs[p]) \ {reqs[p][i]}
             /\ asserted' = IF OnlyOneFor(p, s, i)
                            THEN [asserted EXCEPT ![p] = @ \ {s}] ELSE asserted
             /\ Queued' = Queued \ {reqs[p][i]}
             /\ Serving' = Serving \cup {reqs[p][i]}
             /\ Answered' = Answered
             /\ UNCHANGED <<pool, conn, replied, waiting, cur, pendsv, held>>
<1> USE PartitionAssumption, ServiceAssumption
<1>1. Types
  BY DEF IndInv
<1>2. PICK i \in 1 .. Len(reqs[p]) :
        /\ IsOldestFor(p, s, i)
        /\ reqs' = [reqs EXCEPT ![p] = RemoveNode(@, i)]
        /\ asserted' = IF OnlyOneFor(p, s, i)
                       THEN [asserted EXCEPT ![p] = @ \ {s}] ELSE asserted
        /\ served' = [served EXCEPT ![p] = @ \cup {reqs[p][i]}]
  BY DEF PsaGet
<1> PICK c : c = reqs[p][i]
  OBVIOUS
<1>3. /\ reqs[p] \in Seq(Conns) /\ IsInjective(reqs[p])
      /\ c \in Range(reqs[p]) /\ c \in Conns
  BY <1>1, SMTT(40) DEF IndInv, Types, OnePlace, Range
<1>4. Range(RemoveNode(reqs[p], i)) = Range(reqs[p]) \ {c}
  BY <1>3, RemoveList
<1>5. /\ reqs'[p] = RemoveNode(reqs[p], i)
      /\ \A q \in Partitions \ {p} : reqs'[q] = reqs[q]
      /\ served'[p] = served[p] \cup {c}
      /\ \A q \in Partitions \ {p} : served'[q] = served[q]
  BY <1>1, <1>2 DEF Types
<1>6. conn[c].service = s
  BY <1>2 DEF IsOldestFor
<1>7. UNCHANGED <<pool, conn, replied, waiting, cur, pendsv, held, collecting>>
  BY DEF PsaGet
<1>8. \A q \in Partitions \ {p} : c \notin Range(reqs[q])
  <2>1. \A q \in Partitions : c \in Range(reqs[q]) => q = Owner[conn[c].service]
    BY DEF IndInv, OnePlace
  <2> QED BY <2>1, <1>3
<1>9. Queued' = Queued \ {c} /\ c \in Queued
  <2>1. \A q \in Partitions : Range(reqs'[q]) = Range(reqs[q]) \ {c}
    BY <1>4, <1>5, <1>8
  <2>2. c \in Queued
    BY <1>3 DEF Queued
  <2>3. ASSUME NEW d \in Conns PROVE d \in Queued' <=> d \in Queued /\ d # c
    <3>1. ASSUME NEW q \in Partitions
          PROVE  d \in Range(reqs'[q]) <=> d \in Range(reqs[q]) /\ d # c
      <4>1. Range(reqs'[q]) = Range(reqs[q]) \ {c}
        BY <2>1
      <4> QED BY <4>1
    <3>2. d \in Queued <=> \E q \in Partitions : d \in Range(reqs[q])
      BY DEF Queued
    <3>3. d \in Queued' <=> \E q \in Partitions : d \in Range(reqs'[q])
      BY DEF Queued
    <3> QED BY <3>1, <3>2, <3>3
  <2> QED BY <2>2, <2>3 DEF Queued
<1>10. Serving' = Serving \cup {c}
  BY <1>3, <1>5 DEF Serving
<1>11. Answered' = Answered
  BY <1>7 DEF Answered
<1> QED BY <1>2, <1>4, <1>5, <1>6, <1>7, <1>9, <1>10, <1>11

(* What psa_reply does to the places and to the connection.                *)
LEMMA ReplyPlaces ==
    ASSUME IndInv, NEW p \in Partitions, NEW c \in Conns, NEW ok,
           PsaReply(p, c, ok)
    PROVE  /\ c \in Serving
           /\ conn' = [conn EXCEPT ![c] =
                 [conn[c] EXCEPT !.replied_value = ReplyValue(c, ok),
                                 !.status = ReplyStatus(c, ok)]]
           /\ Queued' = Queued
           /\ Serving' = Serving \ {c}
           /\ Answered' = Answered \cup {c}
           /\ conn[c].p_client \in Partitions
           /\ asserted' = [asserted EXCEPT ![conn[c].p_client] = @ \cup {ASYNC}]
           /\ pool' = pool /\ reqs' = reqs /\ waiting' = waiting
           /\ cur' = cur /\ held' = held
<1> USE PartitionAssumption, ServiceAssumption
<1> DEFINE q == conn[c].p_client
<1>1. Types /\ c \in served[p] /\ c \in Serving
  BY DEF IndInv, PsaReply, Serving
<1>2. q \in Partitions /\ replied[q] \in Seq(Conns)
  BY <1>1, Places DEF Connection, Types, Busy
<1>3. conn' = [conn EXCEPT ![c] = [conn[c] EXCEPT !.replied_value = ReplyValue(c, ok),
                                                  !.status = ReplyStatus(c, ok)]]
  BY <1>1 DEF PsaReply, Types
<1>4. /\ replied'[q] = Append(replied[q], c)
      /\ \A t \in Partitions \ {q} : replied'[t] = replied[t]
      /\ asserted' = [asserted EXCEPT ![q] = @ \cup {ASYNC}]
      /\ served'[p] = served[p] \ {c}
      /\ \A t \in Partitions \ {p} : served'[t] = served[t]
      /\ UNCHANGED <<pool, reqs, waiting, cur, held, collecting>>
  BY <1>1, <1>2 DEF PsaReply, Types
<1> HIDE DEF q
<1>5. Range(replied'[q]) = Range(replied[q]) \cup {c}
  BY <1>2, <1>4, AppendList
<1>6. \A t \in Partitions \ {p} : c \notin served[t]
  BY <1>1 DEF IndInv, OnePlace
<1>7. Queued' = Queued
  BY <1>4 DEF Queued
<1>8. Serving' = Serving \ {c}
  <2>1. \A t \in Partitions : served'[t] = served[t] \ {c}
    BY <1>4, <1>6
  <2> QED BY <2>1 DEF Serving
<1>9. Answered' = Answered \cup {c}
  BY <1>2, <1>4, <1>5 DEF Answered
<1> QED BY <1>1, <1>2, <1>3, <1>4, <1>7, <1>8, <1>9 DEF q

(* The Agent's psa_get takes an answer from the list into its hands.       *)
LEMMA AgentGetPlaces ==
    ASSUME IndInv, AgentGetReply
    PROVE  /\ Queued' = Queued
           /\ Serving' = Serving
           /\ Answered' = Answered
           /\ \E S : asserted' = [asserted EXCEPT ![Agent] = S]
                     /\ S \in {asserted[Agent], asserted[Agent] \ {ASYNC}}
           /\ UNCHANGED <<pool, conn, reqs, waiting, cur, pendsv, held>>
<1> USE PartitionAssumption, ServiceAssumption
<1>1. /\ Types
      /\ replied[Agent] \in Seq(Conns)
      /\ replied[Agent] # << >>
      /\ IsInjective(replied[Agent])
      /\ collecting = NoConn
  BY DEF IndInv, Types, OnePlace, AgentGetReply, Running
<1>2. /\ Head(replied[Agent]) \in Range(replied[Agent])
      /\ Range(Tail(replied[Agent])) = Range(replied[Agent]) \ {Head(replied[Agent])}
  BY <1>1, TailList
<1>3. /\ collecting' = Head(replied[Agent])
      /\ replied'[Agent] = Tail(replied[Agent])
      /\ \A q \in Partitions \ {Agent} : replied'[q] = replied[q]
      /\ UNCHANGED <<pool, conn, reqs, waiting, cur, pendsv, enabled, served, held>>
  BY <1>1 DEF AgentGetReply, Types
<1>4. Answered' = Answered
  <2> PICK c : c = Head(replied[Agent])
    OBVIOUS
  <2>1. /\ c \in Range(replied[Agent])
        /\ Range(replied'[Agent]) = Range(replied[Agent]) \ {c}
        /\ collecting' = c
    BY <1>2, <1>3
  <2>2. ASSUME NEW d \in Conns PROVE d \in Answered' <=> d \in Answered
    <3>1. d \in Answered <=> \E p \in Partitions : d \in Range(replied[p])
      BY <1>1 DEF Answered
    <3>2. d \in Answered' <=> d = c \/ \E p \in Partitions : d \in Range(replied'[p])
      BY <2>1 DEF Answered
    <3>3. CASE d = c
      BY <3>1, <3>2, <3>3, <2>1
    <3>4. CASE d # c
      <4>1. \A p \in Partitions : d \in Range(replied'[p]) <=> d \in Range(replied[p])
        BY <3>4, <2>1, <1>3
      <4> QED BY <4>1, <3>1, <3>2, <3>4
    <3> QED BY <3>3, <3>4
  <2> QED BY <2>2 DEF Answered
<1>5. Queued' = Queued /\ Serving' = Serving
  BY <1>3 DEF Queued, Serving
<1>6. \E S : asserted' = [asserted EXCEPT ![Agent] = S]
             /\ S \in {asserted[Agent], asserted[Agent] \ {ASYNC}}
  BY DEF AgentGetReply, SignalsAfterReply
<1> QED BY <1>3, <1>4, <1>5, <1>6

-----------------------------------------------------------------------------
(* The life of a connection.                                               *)

(* A call on a connection, as opposed to the message that opens or closes  *)
(* it and to the call of a stateless service.                              *)
UsesConnection(c) == conn[c].type = "CALL" /\ conn[c].service \notin Stateless

(* Nobody but its client holds a connection, and only while it lives.      *)
HandlesOwn ==
    \A k \in Clients : \A c \in held[k] :
        c \in Conns \ pool /\ conn[c].client_id = k

(* A connection nothing happens on is idle and its client holds it.        *)
IdleHeld ==
    \A c \in Conns \ (pool \cup Busy) :
        /\ conn[c].status = "IDLE"
        /\ c \in held[conn[c].client_id]
        /\ conn[c].service \notin Stateless

(* While a message is under way, its client holds the connection just when *)
(* the message neither opens nor closes it.                                *)
BusyHeld ==
    \A c \in Busy :
        /\ c \in held[conn[c].client_id] <=> UsesConnection(c)
        /\ conn[c].type # "CALL" => conn[c].service \notin Stateless

(* Until it is answered, only a disconnect is marked to be freed.          *)
UnansweredStatus ==
    \A c \in Queued \cup Serving :
        conn[c].status = IF conn[c].type = "DISCONNECT" THEN "TO_FREE" ELSE "ACTIVE"

(* An answered connection lives on if it was opened or used; only a        *)
(* connect returns a handle.                                               *)
AnsweredStatus ==
    \A c \in Answered :
        /\ conn[c].replied_value = "HANDLE" => conn[c].type = "CONNECT"
        /\ conn[c].status # "TO_FREE" <=>
               conn[c].replied_value = "HANDLE" \/ UsesConnection(c)
        /\ conn[c].p_client # Agent => conn[c].status \in {"IDLE", "TO_FREE"}

Lifecycle == HandlesOwn /\ IdleHeld /\ BusyHeld /\ UnansweredStatus /\ AnsweredStatus

(* The client takes the answer on c: the connection is freed or idle.      *)
Collects(c) ==
    /\ c \in Answered
    /\ Queued' = Queued
    /\ Serving' = Serving
    /\ Answered' = Answered \ {c}
    /\ \/ /\ conn[c].status = "TO_FREE"
          /\ pool' = pool \cup {c}
          /\ conn' = [conn EXCEPT ![c] = Freed]
       \/ /\ conn[c].status # "TO_FREE"
          /\ pool' = pool
          /\ conn' = [conn EXCEPT ![c] = [conn[c] EXCEPT !.status = "IDLE"]]
    /\ held' = HeldAfterReply(c)
    /\ UNCHANGED reqs

(* query_state does so for a client that called synchronously.             *)
LEMMA TakeCollects ==
    ASSUME IndInv, AnsweredStatus, NEW p \in Partitions, p # Agent,
           waiting[p] \cap asserted[p] = {ASYNC},
           TakeReply(p),
           UNCHANGED <<reqs, served, collecting>>
    PROVE  \E c : Collects(c) /\ conn[c].p_client = p
<1> USE PartitionAssumption, ServiceAssumption
<1> PICK c : c = replied[p][Len(replied[p])]
  OBVIOUS
<1>1. Types
  BY DEF IndInv
<1>2. replied[p] \in Seq(Conns) /\ replied[p] # << >>
  BY <1>1 DEF IndInv, Types, ReplySignalMatchesList
<1>3. c \in Range(replied[p])
  <2>1. Len(replied[p]) \in DOMAIN replied[p]
    BY <1>2
  <2> QED BY <2>1 DEF Range
<1>4. /\ c \in Conns \ pool
      /\ conn[c].p_client = p
      /\ InFlight(c)
      /\ conn[c] \in Connection
  BY <1>2, <1>3, EmptyList DEF IndInv, OnePlace, InFlight, Allocated
<1>5. \A d \in Conns \ pool : InFlight(d) /\ conn[d].p_client = p => d = c
  BY <1>4 DEF IndInv, OneCall
<1>6. Range(replied[p]) = {c}
  <2> SUFFICES ASSUME NEW d \in Range(replied[p]) PROVE d = c
    BY <1>3
  <2>1. d \in Conns
    BY <1>2, EmptyList
  <2>2. d \notin pool /\ conn[d].p_client = p
    BY DEF IndInv, OnePlace
  <2>3. InFlight(d)
    BY DEF InFlight
  <2> QED BY <2>1, <2>2, <2>3, <1>5
<1>7. c \in Answered /\ c # collecting
  BY <1>3, <1>4 DEF Answered, IndInv, OnePlace
<1>8. /\ replied'[p] = << >>
      /\ \A q \in Partitions \ {p} : replied'[q] = replied[q]
  BY <1>1 DEF TakeReply, Types
<1>9. Answered' = Answered \ {c}
  <2>1. ASSUME NEW d \in Conns PROVE d \in Answered' <=> d \in Answered /\ d # c
    <3>1. ASSUME NEW q \in Partitions
          PROVE  d \in Range(replied'[q]) <=> d \in Range(replied[q]) /\ d # c
      <4>1. CASE q = p
        BY <4>1, <1>6, <1>8, EmptyList
      <4>2. CASE q # p
        <5>1. replied'[q] = replied[q]
          BY <4>2, <1>8
        <5>2. c \notin Range(replied[q])
          BY <4>2, <1>4 DEF IndInv, OnePlace
        <5> QED BY <5>1, <5>2
      <4> QED BY <4>1, <4>2
    <3>2. d \in Answered <=> d = collecting \/ \E q \in Partitions : d \in Range(replied[q])
      BY DEF Answered
    <3>3. d \in Answered' <=> d = collecting \/ \E q \in Partitions : d \in Range(replied'[q])
      BY DEF Answered
    <3> QED BY <3>1, <3>2, <3>3, <1>7
  <2> QED BY <2>1 DEF Answered
<1>10. Queued' = Queued /\ Serving' = Serving
  BY DEF Queued, Serving
<1>11. /\ pool' = IF conn[c].status = "TO_FREE" THEN pool \cup {c} ELSE pool
       /\ conn' = IF conn[c].status = "TO_FREE" THEN [conn EXCEPT ![c] = Freed] ELSE conn
       /\ held' = HeldAfterReply(c)
  BY DEF TakeReply, PoolAfterReply
<1>12. conn[c].status # "TO_FREE" =>
         conn = [conn EXCEPT ![c] = [conn[c] EXCEPT !.status = "IDLE"]]
  <2> SUFFICES ASSUME conn[c].status # "TO_FREE"
               PROVE  conn = [conn EXCEPT ![c] = [conn[c] EXCEPT !.status = "IDLE"]]
    OBVIOUS
  <2>1. conn[c].status = "IDLE"
    BY <1>4, <1>7 DEF AnsweredStatus
  <2>2. [conn[c] EXCEPT !.status = "IDLE"] = conn[c]
    BY <2>1, <1>4 DEF Connection
  <2> QED BY <2>2, <1>1 DEF Types
<1>13. Collects(c)
  BY <1>7, <1>9, <1>10, <1>11, <1>12 DEF Collects
<1> QED BY <1>4, <1>13

(* tfm_rpc_client_call_reply does so for the Agent.                        *)
LEMMA HandleCollects ==
    ASSUME IndInv, AgentHandleReply
    PROVE  \E c : Collects(c) /\ conn[c].p_client = Agent
<1> USE PartitionAssumption, ServiceAssumption
<1> PICK c : c = collecting
  OBVIOUS
<1>1. /\ Types
      /\ c \in Conns \ pool
      /\ conn[c].p_client = Agent
      /\ \A q \in Partitions : c \notin Range(replied[q])
      /\ c # NoConn
  BY DEF IndInv, Types, OnePlace, AgentHandleReply
<1>2. /\ collecting' = NoConn
      /\ UNCHANGED <<reqs, replied, served>>
      /\ pool' = IF conn[c].status = "TO_FREE" THEN pool \cup {c} ELSE pool
      /\ conn' = IF conn[c].status = "TO_FREE" THEN [conn EXCEPT ![c] = Freed]
                 ELSE [conn EXCEPT ![c].status = "IDLE"]
      /\ held' = HeldAfterReply(c)
  BY DEF AgentHandleReply, PoolAfterReply
<1>3. c \in Answered /\ Answered' = Answered \ {c}
  BY <1>1, <1>2 DEF Answered
<1>4. Queued' = Queued /\ Serving' = Serving
  BY <1>2 DEF Queued, Serving
<1>5. Collects(c)
  BY <1>1, <1>2, <1>3, <1>4 DEF Collects, Types
<1> QED BY <1>1, <1>5

(* Steps that leave connections and handles alone.                         *)
LEMMA QuietLifecycle ==
    ASSUME Lifecycle, UNCHANGED <<pool, conn, held>>, Queued' = Queued,
           Serving' = Serving, Answered' = Answered
    PROVE  Lifecycle'
BY DEF Lifecycle, HandlesOwn, IdleHeld, BusyHeld, UnansweredStatus, AnsweredStatus,
       UsesConnection, Busy

(* A request starts a message on a connection its client may use.          *)
LEMMA SendsLifecycle ==
    ASSUME IndInv, Lifecycle, NEW p \in Partitions \ {Idle}, NEW k, NEW c, NEW r,
           Sends(p, k, c, r)
    PROVE  Lifecycle'
<1> USE PartitionAssumption, ServiceAssumption
<1>1. /\ c \in Conns \ Busy
      /\ k \in Clients
      /\ r.client_id = k
      /\ pool' = pool \ {c}
      /\ held \in [Clients -> SUBSET Conns]
  BY DEF Sends, IndInv, Types
<1>2. /\ Queued' = Queued \cup {c}
      /\ Serving' = Serving
      /\ Answered' = Answered
      /\ Busy' = Busy \cup {c}
      /\ conn'[c] = r
      /\ \A d \in Conns \ {c} : conn'[d] = conn[d]
  BY SendsPlaces DEF Busy
<1>3. Busy \subseteq Conns \ {c}
  BY <1>1, Places
<1>4. /\ held' \in [Clients -> SUBSET Conns]
      /\ \A j \in Clients : \A d \in Conns \ {c} : d \in held'[j] <=> d \in held[j]
      /\ \A j \in Clients : c \in held'[j] => c \in held[j]
  BY <1>1 DEF Sends
<1>5. c \in pool => \A j \in Clients : c \notin held[j]
  BY DEF Lifecycle, HandlesOwn
<1>6. \A j \in Clients : c \in held[j] => j = k
  BY <1>5 DEF Lifecycle, HandlesOwn, Sends
<1>7. HandlesOwn'
  BY <1>1, <1>2, <1>4, <1>6 DEF Lifecycle, HandlesOwn
<1>8. IdleHeld'
  <2> SUFFICES ASSUME NEW d \in Conns \ (pool \cup Busy), d # c
               PROVE  /\ conn'[d].status = "IDLE"
                      /\ d \in held'[conn'[d].client_id]
                      /\ conn'[d].service \notin Stateless
    BY <1>1, <1>2 DEF IdleHeld
  <2>1. conn'[d] = conn[d] /\ conn[d].client_id \in Clients
    BY <1>2 DEF IndInv, Allocated, Connection
  <2> QED BY <2>1, <1>4 DEF Lifecycle, IdleHeld
<1>9. BusyHeld'
  <2>1. ASSUME NEW d \in Busy
        PROVE  /\ d \in held'[conn'[d].client_id] <=> UsesConnection(d)'
               /\ conn'[d].type # "CALL" => conn'[d].service \notin Stateless
    <3>1. d \in Conns \ {c} /\ conn'[d] = conn[d] /\ conn[d].client_id \in Clients
      BY <1>2, <1>3, Places DEF Connection
    <3> QED BY <3>1, <1>4 DEF Lifecycle, BusyHeld, UsesConnection
  <2>2. /\ c \in held'[r.client_id] <=> r.type = "CALL" /\ r.service \notin Stateless
        /\ r.type # "CALL" => r.service \notin Stateless
    <3>1. CASE c \in pool
      BY <3>1, <1>1, <1>5 DEF Sends
    <3>2. CASE c \notin pool
      <4>1. c \in held[k] /\ r.service = conn[c].service /\ conn[c].service \notin Stateless
        BY <3>2, <1>1 DEF Sends, Lifecycle, IdleHeld
      <4>2. \/ r.type = "CALL" /\ held' = held
            \/ r.type = "DISCONNECT" /\ c \notin held'[k]
        BY <3>2, <1>1 DEF Sends
      <4> QED BY <4>1, <4>2, <1>1
    <3> QED BY <3>1, <3>2
  <2> QED BY <2>1, <2>2, <1>2 DEF BusyHeld, UsesConnection
<1>10. UnansweredStatus'
  <2>1. r.status = IF r.type = "DISCONNECT" THEN "TO_FREE" ELSE "ACTIVE"
    BY DEF Sends
  <2>2. \A d \in Queued \cup Serving : conn'[d] = conn[d]
    BY <1>2, <1>3 DEF Busy
  <2> QED BY <2>1, <2>2, <1>2 DEF Lifecycle, UnansweredStatus
<1>11. AnsweredStatus'
  <2>1. \A d \in Answered : conn'[d] = conn[d]
    BY <1>2, <1>3 DEF Busy
  <2> QED BY <2>1, <1>2 DEF Lifecycle, AnsweredStatus, UsesConnection
<1> QED BY <1>7, <1>8, <1>9, <1>10, <1>11 DEF Lifecycle

(* psa_get hands a message over without touching its connection.           *)
LEMMA GetLifecycle ==
    ASSUME IndInv, Lifecycle, NEW p \in Partitions, NEW s \in Services, PsaGet(p, s)
    PROVE  Lifecycle'
<1>1. PICK c : /\ c \in Queued
               /\ Queued' = Queued \ {c}
               /\ Serving' = Serving \cup {c}
               /\ Answered' = Answered
               /\ UNCHANGED <<pool, conn, held>>
  BY GetPlaces
<1>2. Busy' = Busy /\ Queued' \cup Serving' = Queued \cup Serving
  BY <1>1 DEF Busy
<1>3. HandlesOwn' /\ IdleHeld' /\ BusyHeld'
  BY <1>1, <1>2 DEF Lifecycle, HandlesOwn, IdleHeld, BusyHeld, UsesConnection
<1>4. UnansweredStatus' /\ AnsweredStatus'
  BY <1>1, <1>2 DEF Lifecycle, UnansweredStatus, AnsweredStatus, UsesConnection
<1> QED BY <1>3, <1>4 DEF Lifecycle

(* psa_reply decides whether the connection lives on.                      *)
LEMMA ReplyLifecycle ==
    ASSUME IndInv, Lifecycle, NEW p \in Partitions, NEW c \in Conns, NEW ok,
           PsaReply(p, c, ok)
    PROVE  Lifecycle'
<1> USE PartitionAssumption, ServiceAssumption
<1>0. /\ c \in Serving
      /\ Queued' = Queued
      /\ Serving' = Serving \ {c}
      /\ Answered' = Answered \cup {c}
      /\ pool' = pool /\ held' = held
  BY ReplyPlaces
<1>1. /\ c \in Serving
      /\ Queued' = Queued
      /\ Serving' = Serving \ {c}
      /\ Answered' = Answered \cup {c}
      /\ UNCHANGED <<pool, held>>
      /\ Busy' = Busy
  BY <1>0 DEF Busy
<1>2. c \in Busy /\ c \notin Queued /\ c \notin Answered /\ conn[c] \in Connection
  BY <1>1, Places DEF Busy
<1> PICK r : r = [conn[c] EXCEPT !.replied_value = ReplyValue(c, ok),
                                 !.status = ReplyStatus(c, ok)]
  OBVIOUS
<1>3. conn' = [conn EXCEPT ![c] = r]
  BY ReplyPlaces
<1>4. conn'[c] = r /\ \A d \in Conns \ {c} : conn'[d] = conn[d]
  BY <1>3 DEF IndInv, Types
<1>5. /\ r.client_id = conn[c].client_id
      /\ r.service = conn[c].service
      /\ r.type = conn[c].type
      /\ r.p_client = conn[c].p_client
      /\ r.replied_value = ReplyValue(c, ok)
      /\ r.status = ReplyStatus(c, ok)
  BY <1>2 DEF Connection
<1>6. Busy \subseteq Conns
  BY Places
<1>7. \A d \in Conns : UsesConnection(d)' <=> UsesConnection(d)
  BY <1>4, <1>5 DEF UsesConnection
<1>8. \A d \in Conns : conn'[d].client_id = conn[d].client_id
  BY <1>4, <1>5
<1>9. HandlesOwn'
  BY <1>1, <1>8 DEF Lifecycle, HandlesOwn
<1>10. IdleHeld'
  BY <1>1, <1>2, <1>4 DEF Lifecycle, IdleHeld
<1>11. BusyHeld'
  <2>1. \A d \in Conns : conn'[d].type = conn[d].type /\ conn'[d].service = conn[d].service
    BY <1>4, <1>5
  <2> QED BY <2>1, <1>1, <1>6, <1>7, <1>8 DEF Lifecycle, BusyHeld
<1>12. UnansweredStatus'
  <2>1. \A d \in Queued \cup (Serving \ {c}) : conn'[d] = conn[d]
    BY <1>2, <1>4, <1>6 DEF Busy
  <2> QED BY <2>1, <1>1 DEF Lifecycle, UnansweredStatus
<1>13. AnsweredStatus'
  <2>1. \A d \in Answered : conn'[d] = conn[d]
    BY <1>2, <1>4, <1>6 DEF Busy
  <2>2. /\ conn[c].status = IF conn[c].type = "DISCONNECT" THEN "TO_FREE" ELSE "ACTIVE"
        /\ conn[c].type # "CALL" => conn[c].service \notin Stateless
    BY <1>1, <1>2 DEF Lifecycle, UnansweredStatus, BusyHeld
  <2>3. /\ r.replied_value = "HANDLE" => r.type = "CONNECT"
        /\ r.status # "TO_FREE" <=>
             r.replied_value = "HANDLE" \/ (r.type = "CALL" /\ r.service \notin Stateless)
        /\ r.p_client # Agent => r.status \in {"IDLE", "TO_FREE"}
    BY <2>2, <1>2, <1>5 DEF ReplyValue, ReplyStatus, Connection
  <2> QED BY <2>1, <2>3, <1>1, <1>4, ZenonT(40) DEF Lifecycle, AnsweredStatus, UsesConnection
<1> QED BY <1>9, <1>10, <1>11, <1>12, <1>13 DEF Lifecycle

(* The client is left with a handle exactly when the connection lives on.  *)
LEMMA CollectsLifecycle ==
    ASSUME IndInv, Lifecycle, NEW c, Collects(c)
    PROVE  Lifecycle'
<1> USE PartitionAssumption, ServiceAssumption
<1>1. /\ c \in Answered
      /\ c \in Busy
      /\ c \in Conns \ pool
      /\ conn[c] \in Connection
      /\ conn[c].client_id \in Clients
      /\ c \notin Queued
      /\ c \notin Serving
  BY Places DEF Collects, Busy, Connection
<1>2. Types
  BY DEF IndInv
<1>3. /\ \A d \in Conns \ {c} : conn'[d] = conn[d]
      /\ Busy' = Busy \ {c}
      /\ Queued' = Queued
      /\ Serving' = Serving
      /\ Answered' = Answered \ {c}
      /\ pool \subseteq pool' /\ pool' \subseteq pool \cup {c}
      /\ c \in pool' <=> conn[c].status = "TO_FREE"
      /\ c \notin pool' => conn'[c] = [conn[c] EXCEPT !.status = "IDLE"]
  <2>1. Busy' = Busy \ {c}
    BY <1>1 DEF Collects, Busy
  <2>2. CASE conn[c].status = "TO_FREE"
    BY <2>1, <2>2, <1>1, <1>2 DEF Collects, Types
  <2>3. CASE conn[c].status # "TO_FREE"
    BY <2>1, <2>3, <1>1, <1>2 DEF Collects, Types
  <2> QED BY <2>2, <2>3
<1>4. Busy \subseteq Conns /\ Busy \cap pool = {}
  BY Places
<1>5. /\ \A k \in Clients : \A d \in Conns \ {c} : d \in held'[k] <=> d \in held[k]
      /\ \A k \in Clients \ {conn[c].client_id} : c \in held'[k] <=> c \in held[k]
      /\ \A k \in Clients : held'[k] \subseteq Conns
      /\ c \in held'[conn[c].client_id] <=>
           c \in held[conn[c].client_id] \/ conn[c].replied_value = "HANDLE"
  BY <1>1, <1>2 DEF Collects, HeldAfterReply, Types
<1>6. /\ c \in held[conn[c].client_id] <=> UsesConnection(c)
      /\ \A k \in Clients \ {conn[c].client_id} : c \notin held[k]
      /\ conn[c].status # "TO_FREE" <=>
           conn[c].replied_value = "HANDLE" \/ UsesConnection(c)
      /\ conn[c].replied_value = "HANDLE" => conn[c].type = "CONNECT"
      /\ conn[c].type # "CALL" => conn[c].service \notin Stateless
  BY <1>1 DEF Lifecycle, HandlesOwn, BusyHeld, AnsweredStatus
<1>7. c \in held'[conn[c].client_id] <=> c \notin pool'
  BY <1>3, <1>5, <1>6
<1>8. c \notin pool' => /\ conn'[c].status = "IDLE"
                        /\ conn'[c].client_id = conn[c].client_id
                        /\ conn'[c].service = conn[c].service
  BY <1>1, <1>3 DEF Connection
<1>9. HandlesOwn'
  <2> SUFFICES ASSUME NEW k \in Clients, NEW d \in held'[k]
               PROVE  d \in Conns \ pool' /\ conn'[d].client_id = k
    BY DEF HandlesOwn
  <2>1. CASE d = c
    BY <2>1, <1>1, <1>5, <1>6, <1>7, <1>8
  <2>2. CASE d # c
    <3>1. d \in Conns \ {c} /\ d \in held[k]
      BY <2>2, <1>5
    <3>2. d \in Conns \ pool /\ conn[d].client_id = k
      BY <3>1 DEF Lifecycle, HandlesOwn
    <3> QED BY <3>1, <3>2, <1>3
  <2> QED BY <2>1, <2>2
<1>10. IdleHeld'
  <2> SUFFICES ASSUME NEW d \in Conns \ (pool' \cup Busy')
               PROVE  /\ conn'[d].status = "IDLE"
                      /\ d \in held'[conn'[d].client_id]
                      /\ conn'[d].service \notin Stateless
    BY DEF IdleHeld
  <2>1. CASE d = c
    <3>1. conn[c].service \notin Stateless
      BY <2>1, <1>3, <1>6 DEF UsesConnection
    <3> QED BY <2>1, <3>1, <1>7, <1>8
  <2>2. CASE d # c
    <3>1. d \in Conns \ (pool \cup Busy) /\ conn'[d] = conn[d]
      BY <2>2, <1>3
    <3>2. conn[d].client_id \in Clients
      BY <3>1 DEF IndInv, Allocated, Connection
    <3> QED BY <2>2, <3>1, <3>2, <1>5 DEF Lifecycle, IdleHeld
  <2> QED BY <2>1, <2>2
<1>11. BusyHeld'
  <2> SUFFICES ASSUME NEW d \in Busy \ {c}
               PROVE  /\ d \in held'[conn'[d].client_id] <=> UsesConnection(d)'
                      /\ conn'[d].type # "CALL" => conn'[d].service \notin Stateless
    BY <1>3 DEF BusyHeld
  <2>1. d \in Conns \ {c} /\ conn'[d] = conn[d] /\ conn[d].client_id \in Clients
    BY <1>3, Places DEF Connection
  <2> QED BY <2>1, <1>5 DEF Lifecycle, BusyHeld, UsesConnection
<1>12. UnansweredStatus'
  <2>1. \A d \in Queued \cup Serving : conn'[d] = conn[d]
    BY <1>1, <1>3, <1>4 DEF Busy
  <2> QED BY <2>1, <1>3 DEF Lifecycle, UnansweredStatus
<1>13. AnsweredStatus'
  <2>1. \A d \in Answered \ {c} : conn'[d] = conn[d]
    BY <1>3, <1>4 DEF Busy
  <2> QED BY <2>1, <1>3 DEF Lifecycle, AnsweredStatus, UsesConnection
<1> QED BY <1>9, <1>10, <1>11, <1>12, <1>13 DEF Lifecycle

-----------------------------------------------------------------------------
(* Signals, blocked clients and the running thread.                        *)

(* A client blocked in a synchronous call has a message under way.         *)
BlockedHasRequest ==
    \A p \in Partitions \ {Agent} :
        waiting[p] = {ASYNC} => \E c \in Busy : conn[c].p_client = p

(* The whole invariant: the life of the connections, the signals of the     *)
(* services and the choice of the running thread.                          *)
FullInv ==
    /\ IndInv
    /\ Lifecycle
    /\ ServiceSignalMatchesQueue
    /\ BlockedHasRequest
    /\ HighestPriorityRuns

(* The queue of a service is the part of the queued messages for it.       *)
LEMMA SignalOfQueued ==
    ASSUME IndInv
    PROVE  ServiceSignalMatchesQueue <=>
             \A s \in Services :
                s \in asserted[Owner[s]] <=> \E c \in Queued : conn[c].service = s
<1> USE PartitionAssumption, ServiceAssumption
<1>1. ASSUME NEW s \in Services
      PROVE  (\E c \in Range(reqs[Owner[s]]) : conn[c].service = s)
                <=> \E c \in Queued : conn[c].service = s
  <2>1. Owner[s] \in Partitions /\ Range(reqs[Owner[s]]) \subseteq Conns
    BY EmptyList DEF IndInv, Types
  <2>2. ASSUME NEW c \in Queued, conn[c].service = s PROVE c \in Range(reqs[Owner[s]])
    BY <2>2 DEF Queued, IndInv, OnePlace
  <2> QED BY <2>1, <2>2 DEF Queued
<1> QED BY <1>1 DEF ServiceSignalMatchesQueue

(* The same after a step.                                                  *)
LEMMA SignalOfQueuedNext ==
    ASSUME IndInv',
           \A s \in Services :
              s \in asserted'[Owner[s]] <=> \E c \in Queued' : conn'[c].service = s
    PROVE  ServiceSignalMatchesQueue'
<1> USE PartitionAssumption, ServiceAssumption
<1>1. ASSUME NEW s \in Services
      PROVE  (\E c \in Range(reqs'[Owner[s]]) : conn'[c].service = s)
                <=> \E c \in Queued' : conn'[c].service = s
  <2>1. Owner[s] \in Partitions /\ Range(reqs'[Owner[s]]) \subseteq Conns
    BY EmptyList DEF IndInv, Types
  <2>2. ASSUME NEW c \in Queued', conn'[c].service = s PROVE c \in Range(reqs'[Owner[s]])
    BY <2>2 DEF Queued, IndInv, OnePlace
  <2> QED BY <2>1, <2>2 DEF Queued
<1> QED BY <1>1 DEF ServiceSignalMatchesQueue

(* Steps that leave the queues and the services' signals alone.            *)
LEMMA SignalsKept ==
    ASSUME IndInv, IndInv', ServiceSignalMatchesQueue,
           Queued' = Queued,
           \A c \in Queued : conn'[c].service = conn[c].service,
           \A p \in Partitions, s \in Services : s \in asserted'[p] <=> s \in asserted[p]
    PROVE  ServiceSignalMatchesQueue'
<1> USE PartitionAssumption, ServiceAssumption
<1>1. \A s \in Services : s \in asserted[Owner[s]] <=> \E c \in Queued : conn[c].service = s
  BY SignalOfQueued
<1>2. \A s \in Services : s \in asserted'[Owner[s]] <=> \E c \in Queued' : conn'[c].service = s
  BY <1>1
<1> QED BY <1>2, SignalOfQueuedNext

(* Steps after which no thread is runnable that was not before, or PendSV  *)
(* is pending.                                                             *)
LEMMA PriorityKept ==
    ASSUME IndInv', HighestPriorityRuns, cur' = cur,
           ~pendsv' => /\ ~pendsv
                       /\ \/ cur = Agent
                          \/ \A q \in Partitions : Runnable(q)' => Runnable(q)
    PROVE  HighestPriorityRuns'
<1> SUFFICES ASSUME ~pendsv' PROVE waiting'[cur'] = {} /\ (cur' = Agent \/ IsNextThread(cur)')
  BY DEF HighestPriorityRuns
<1>1. waiting'[cur'] = {}
  BY DEF IndInv, RunningAwake
<1>2. Runnable(cur)'
  BY <1>1 DEF Runnable
<1> QED BY <1>1, <1>2 DEF HighestPriorityRuns, IsNextThread

(* Fewer signals, or signals nobody waits for, make no thread runnable.    *)
LEMMA FewerSignals ==
    ASSUME waiting' = waiting,
           \A q \in Partitions : \/ asserted'[q] \subseteq asserted[q]
                                 \/ asserted'[q] \cap waiting[q] = {}
    PROVE  \A q \in Partitions : Runnable(q)' => Runnable(q)
<1> SUFFICES ASSUME NEW q \in Partitions, Runnable(q)' PROVE Runnable(q)
  OBVIOUS
<1>1. waiting[q] = {} \/ waiting[q] \cap asserted'[q] # {}
  BY DEF Runnable
<1>2. \/ asserted'[q] \subseteq asserted[q]
      \/ asserted'[q] \cap waiting[q] = {}
  OBVIOUS
<1> QED BY <1>1, <1>2 DEF Runnable

(* Steps in which no client blocks and no message of a blocked one ends.   *)
LEMMA BlockedKept ==
    ASSUME BlockedHasRequest,
           \A p \in Partitions \ {Agent} : waiting'[p] = {ASYNC} => waiting[p] = {ASYNC},
           \A c \in Busy : conn[c].p_client # Agent /\ waiting'[conn[c].p_client] = {ASYNC} =>
                c \in Busy' /\ conn'[c].p_client = conn[c].p_client
    PROVE  BlockedHasRequest'
<1> SUFFICES ASSUME NEW p \in Partitions \ {Agent}, waiting'[p] = {ASYNC}
             PROVE  \E c \in Busy' : conn'[c].p_client = p
  BY DEF BlockedHasRequest
<1>1. PICK c \in Busy : conn[c].p_client = p
  BY DEF BlockedHasRequest
<1>2. c \in Busy' /\ conn'[c].p_client = p
  BY <1>1
<1> QED BY <1>2

(* A client's request preserves the invariant.                             *)
LEMMA SendsFull ==
    ASSUME FullInv, IndInv', NEW p \in Partitions \ {Idle}, NEW k, NEW c, NEW r,
           Sends(p, k, c, r)
    PROVE  FullInv'
<1> USE PartitionAssumption, ServiceAssumption
<1>1. /\ IndInv /\ Types
      /\ c \in Conns \ Busy
      /\ r.p_client = p
      /\ cur = p /\ ~pendsv
      /\ Messaging(p, c, r.service)
  BY DEF FullInv, IndInv, Sends, Running
<1> PICK s : s = r.service
  OBVIOUS
<1> PICK o : o = Owner[s]
  OBVIOUS
<1>2. /\ s \in Services
      /\ o \in Partitions
      /\ asserted' = [asserted EXCEPT ![o] = @ \cup {s}]
      /\ Queued' = Queued \cup {c}
      /\ Busy' = Busy \cup {c}
      /\ conn'[c] = r
      /\ \A d \in Conns \ {c} : conn'[d] = conn[d]
  BY <1>1, SendsPlaces DEF Busy
<1>3. Busy \subseteq Conns \ {c}
  BY <1>1, Places
<1>4. asserted'[o] = asserted[o] \cup {s} /\ \A q \in Partitions \ {o} : asserted'[q] = asserted[q]
  BY <1>1, <1>2 DEF Types
<1>5. Lifecycle'
  BY <1>1, SendsLifecycle DEF FullInv
<1>6. ServiceSignalMatchesQueue'
  <2>1. \A t \in Services : t \in asserted[Owner[t]] <=> \E d \in Queued : conn[d].service = t
    BY <1>1, SignalOfQueued DEF FullInv
  <2>2. ASSUME NEW t \in Services
        PROVE  t \in asserted'[Owner[t]] <=> \E d \in Queued' : conn'[d].service = t
    <3>1. \A d \in Queued : conn'[d] = conn[d]
      BY <1>2, <1>3 DEF Busy
    <3>2. CASE t = s
      BY <3>2, <1>2, <1>4
    <3>3. CASE t # s
      <4>1. t \in asserted'[Owner[t]] <=> t \in asserted[Owner[t]]
        BY <3>3, <1>4
      <4>2. (\E d \in Queued' : conn'[d].service = t) <=> (\E d \in Queued : conn[d].service = t)
        BY <3>1, <3>3, <1>2
      <4> QED BY <4>1, <4>2, <2>1
    <3> QED BY <3>2, <3>3
  <2> QED BY <2>2, SignalOfQueuedNext
<1>7. BlockedHasRequest'
  <2> SUFFICES ASSUME NEW q \in Partitions \ {Agent}, waiting'[q] = {ASYNC}
               PROVE  \E d \in Busy' : conn'[d].p_client = q
    BY DEF BlockedHasRequest
  <2>1. CASE q = p
    BY <2>1, <1>1, <1>2
  <2>2. CASE q # p
    <3>1. waiting[q] = {ASYNC}
      BY <2>2, <1>1 DEF Messaging, Types
    <3>2. PICK d \in Busy : conn[d].p_client = q
      BY <3>1 DEF FullInv, BlockedHasRequest
    <3> QED BY <3>2, <1>2, <1>3
  <2> QED BY <2>1, <2>2
<1>8. HighestPriorityRuns'
  <2>1. cur' = cur
    BY <1>1 DEF Messaging
  <2>2. ASSUME ~pendsv', p # Agent PROVE \A q \in Partitions : Runnable(q)' => Runnable(q)
    <3>1. waiting' = waiting /\ (asserted[o] \cup {s}) \cap waiting[o] = {}
      BY <2>2, <1>1 DEF Messaging, NeedSchedule
    <3>2. \A q \in Partitions : \/ asserted'[q] \subseteq asserted[q]
                                \/ asserted'[q] \cap waiting[q] = {}
      BY <3>1, <1>4
    <3> QED BY <3>1, <3>2, FewerSignals
  <2> QED BY <2>1, <2>2, <1>1, PriorityKept DEF FullInv
<1> QED BY <1>5, <1>6, <1>7, <1>8 DEF FullInv

(* psa_get preserves the invariant: the signal goes with the last message. *)
LEMMA GetFull ==
    ASSUME FullInv, IndInv', NEW p \in Partitions \ {Idle}, NEW s \in Services, PsaGet(p, s)
    PROVE  FullInv'
<1> USE PartitionAssumption, ServiceAssumption
<1>1. IndInv /\ Types
  BY DEF FullInv, IndInv
<1>2. PICK i \in 1 .. Len(reqs[p]) :
        /\ IsOldestFor(p, s, i)
        /\ reqs[p][i] \in Queued
        /\ conn[reqs[p][i]].service = s
        /\ reqs'[p] = RemoveNode(reqs[p], i)
        /\ \A q \in Partitions \ {p} : reqs'[q] = reqs[q]
        /\ Range(reqs'[p]) = Range(reqs[p]) \ {reqs[p][i]}
        /\ asserted' = IF OnlyOneFor(p, s, i)
                       THEN [asserted EXCEPT ![p] = @ \ {s}] ELSE asserted
        /\ Queued' = Queued \ {reqs[p][i]}
        /\ Serving' = Serving \cup {reqs[p][i]}
        /\ Answered' = Answered
        /\ UNCHANGED <<pool, conn, replied, waiting, cur, pendsv, held>>
  BY <1>1, GetPlaces
<1> PICK c : c = reqs[p][i]
  OBVIOUS
<1>3. /\ c \in Queued
      /\ conn[c].service = s
      /\ Queued' = Queued \ {c}
      /\ Busy' = Busy
      /\ UNCHANGED <<conn, waiting, cur, pendsv>>
  BY <1>2 DEF Busy
<1>4. reqs[p] \in Seq(Conns) /\ IsInjective(reqs[p]) /\ c \in Range(reqs[p])
  <2>1. reqs[p] \in Seq(Conns) /\ IsInjective(reqs[p])
    BY <1>1 DEF IndInv, OnePlace, Types
  <2>2. i \in DOMAIN reqs[p]
    BY <2>1
  <2> QED BY <2>1, <2>2 DEF Range
<1>5. p = Owner[s]
  BY <1>1, <1>3, <1>4 DEF IndInv, OnePlace
<1>6. Lifecycle'
  BY <1>1, GetLifecycle DEF FullInv
<1>7. \A q \in Partitions : asserted'[q] \subseteq asserted[q]
  BY <1>1, <1>2 DEF Types
<1>8. ServiceSignalMatchesQueue'
  <2>1. \A t \in Services : t \in asserted[Owner[t]] <=> \E d \in Queued : conn[d].service = t
    BY <1>1, SignalOfQueued DEF FullInv
  <2>2. ASSUME NEW t \in Services, t # s
        PROVE  t \in asserted'[Owner[t]] <=> \E d \in Queued' : conn'[d].service = t
    <3>1. t \in asserted'[Owner[t]] <=> t \in asserted[Owner[t]]
      BY <2>2, <1>1, <1>2 DEF Types
    <3> QED BY <2>1, <2>2, <3>1, <1>3
  <2>3. CASE OnlyOneFor(p, s, i)
    <3>1. s \notin asserted'[p]
      BY <2>3, <1>1, <1>2 DEF Types
    <3>2. ASSUME NEW d \in Queued', conn'[d].service = s PROVE FALSE
      <4>1. d \in Queued /\ d # c /\ conn[d].service = s
        BY <3>2, <1>3
      <4>2. d \in Range(reqs[p])
        BY <4>1, <1>1, <1>5 DEF Queued, IndInv, OnePlace
      <4>3. PICK j \in DOMAIN reqs[p] : reqs[p][j] = d
        BY <4>2 DEF Range
      <4>4. j \in 1 .. Len(reqs[p])
        BY <4>3, <1>4
      <4>5. j = i
        BY <4>1, <4>3, <4>4, <2>3 DEF OnlyOneFor
      <4> QED BY <4>1, <4>3, <4>5
    <3> QED BY <2>2, <3>1, <3>2, <1>5, SignalOfQueuedNext
  <2>4. CASE ~OnlyOneFor(p, s, i)
    <3>1. s \in asserted'[p]
      BY <2>1, <2>4, <1>2, <1>3, <1>5
    <3>2. PICK j \in 1 .. Len(reqs[p]) : conn[reqs[p][j]].service = s /\ j # i
      BY <2>4 DEF OnlyOneFor
    <3>3. reqs[p][j] # c /\ reqs[p][j] \in Conns /\ reqs[p][j] \in Range(reqs[p])
      BY <3>2, <1>4 DEF IsInjective, Range
    <3>4. reqs[p][j] \in Queued'
      BY <3>3, <1>3 DEF Queued
    <3> QED BY <2>2, <3>1, <3>2, <3>4, <1>3, <1>5, SignalOfQueuedNext
  <2> QED BY <2>3, <2>4
<1>9. BlockedHasRequest'
  BY <1>3 DEF FullInv, BlockedHasRequest
<1>10. HighestPriorityRuns'
  BY <1>3, <1>7, FewerSignals, PriorityKept DEF FullInv
<1> QED BY <1>6, <1>8, <1>9, <1>10 DEF FullInv

(* psa_reply preserves the invariant: a client that waits is scheduled.    *)
LEMMA ReplyFull ==
    ASSUME FullInv, IndInv', NEW p \in Partitions \ {Idle}, NEW c \in Conns, NEW ok,
           PsaReply(p, c, ok)
    PROVE  FullInv'
<1> USE PartitionAssumption, ServiceAssumption
<1>1. IndInv /\ Types
  BY DEF FullInv, IndInv
<1>2. /\ c \in Serving
      /\ Queued' = Queued
      /\ Serving' = Serving \ {c}
      /\ Answered' = Answered \cup {c}
      /\ conn[c].p_client \in Partitions
      /\ asserted' = [asserted EXCEPT ![conn[c].p_client] = @ \cup {ASYNC}]
      /\ waiting' = waiting /\ cur' = cur
  BY <1>1, ReplyPlaces
<1>3. Busy' = Busy /\ Busy \subseteq Conns
  BY <1>1, <1>2, Places DEF Busy
<1>4. conn' = [conn EXCEPT ![c] = [conn[c] EXCEPT !.replied_value = ReplyValue(c, ok),
                                                  !.status = ReplyStatus(c, ok)]]
  BY <1>1, ReplyPlaces
<1>5. \A d \in Conns : /\ conn'[d].service = conn[d].service
                       /\ conn'[d].p_client = conn[d].p_client
  <2>1. conn[c] \in Connection
    BY <1>1, <1>2, Places DEF Busy
  <2> QED BY <2>1, <1>1, <1>4 DEF Types, Connection
<1> PICK q : q = conn[c].p_client
  OBVIOUS
<1>6. /\ q \in Partitions
      /\ asserted'[q] = asserted[q] \cup {ASYNC}
      /\ \A t \in Partitions \ {q} : asserted'[t] = asserted[t]
  BY <1>1, <1>2 DEF Types
<1>7. Lifecycle'
  BY <1>1, ReplyLifecycle DEF FullInv
<1>8. ServiceSignalMatchesQueue'
  <2>1. \A t \in Partitions, s \in Services : s \in asserted'[t] <=> s \in asserted[t]
    BY <1>6
  <2>2. \A d \in Queued : conn'[d].service = conn[d].service
    BY <1>5 DEF Queued
  <2> QED BY <2>1, <2>2, <1>1, <1>2, SignalsKept DEF FullInv
<1>9. BlockedHasRequest'
  BY <1>2, <1>3, <1>5, BlockedKept DEF FullInv
<1>10. HighestPriorityRuns'
  <2>1. ~pendsv /\ (~pendsv' => (asserted[q] \cup {ASYNC}) \cap waiting[q] = {})
    BY DEF PsaReply, Running, NeedSchedule
  <2>2. ~pendsv' => \A t \in Partitions : \/ asserted'[t] \subseteq asserted[t]
                                          \/ asserted'[t] \cap waiting[t] = {}
    BY <2>1, <1>6
  <2> QED BY <2>1, <2>2, <1>2, FewerSignals, PriorityKept DEF FullInv
<1> QED BY <1>7, <1>8, <1>9, <1>10 DEF FullInv

(* The steps of the Agent that collect an answer preserve the invariant.   *)
LEMMA AgentFull ==
    ASSUME FullInv, IndInv', AgentGetReply \/ AgentHandleReply
    PROVE  FullInv'
<1> USE PartitionAssumption, ServiceAssumption
<1>1. IndInv /\ Types
  BY DEF FullInv, IndInv
<1>2. CASE AgentGetReply
  <2>1. /\ Queued' = Queued
        /\ Serving' = Serving
        /\ Answered' = Answered
        /\ Busy' = Busy
        /\ UNCHANGED <<pool, conn, reqs, waiting, cur, pendsv, held>>
    BY <1>1, <1>2, AgentGetPlaces DEF Busy
  <2>2. PICK S : /\ asserted' = [asserted EXCEPT ![Agent] = S]
                 /\ S \in {asserted[Agent], asserted[Agent] \ {ASYNC}}
    BY <1>1, <1>2, AgentGetPlaces
  <2>3. \A t \in Partitions : /\ asserted'[t] \subseteq asserted[t]
                              /\ \A s \in Services : s \in asserted'[t] <=> s \in asserted[t]
    BY <2>2, <1>1 DEF Types
  <2>4. Lifecycle'
    BY <2>1, QuietLifecycle DEF FullInv
  <2>5. ServiceSignalMatchesQueue'
    BY <2>1, <2>3, <1>1, SignalsKept DEF FullInv
  <2>6. BlockedHasRequest'
    BY <2>1 DEF FullInv, BlockedHasRequest
  <2>7. HighestPriorityRuns'
    BY <2>1, <2>3, FewerSignals, PriorityKept DEF FullInv
  <2> QED BY <2>4, <2>5, <2>6, <2>7 DEF FullInv
<1>3. CASE AgentHandleReply
  <2>1. PICK c : Collects(c) /\ conn[c].p_client = Agent
    BY <1>1, <1>3, HandleCollects
  <2>2. /\ UNCHANGED <<asserted, waiting, cur, pendsv>>
        /\ cur = Agent
    BY <1>3 DEF AgentHandleReply
  <2>3. Lifecycle'
    BY <2>1, <1>1, CollectsLifecycle DEF FullInv
  <2>4. /\ c \in Answered
        /\ c \in Conns
        /\ Queued' = Queued
        /\ Busy' = Busy \ {c}
        /\ \A d \in Conns \ {c} : conn'[d] = conn[d]
        /\ c \notin Queued
        /\ Busy \subseteq Conns
    <3>1. c \in Answered /\ c \in Conns /\ c \notin Queued /\ c \notin Serving /\ Busy \subseteq Conns
      BY <2>1, <1>1, Places DEF Collects, Busy
    <3>2. Busy' = Busy \ {c} /\ Queued' = Queued
      BY <2>1, <3>1 DEF Collects, Busy
    <3>3. \A d \in Conns \ {c} : conn'[d] = conn[d]
      BY <2>1, <3>1, <1>1 DEF Collects, Types
    <3> QED BY <3>1, <3>2, <3>3
  <2>5. ServiceSignalMatchesQueue'
    <3>1. \A d \in Queued : conn'[d].service = conn[d].service
      BY <2>4 DEF Queued
    <3> QED BY <3>1, <2>2, <2>4, <1>1, SignalsKept DEF FullInv
  <2>6. BlockedHasRequest'
    BY <2>1, <2>2, <2>4, BlockedKept DEF FullInv
  <2>7. HighestPriorityRuns'
    BY <2>2, PriorityKept DEF FullInv
  <2> QED BY <2>3, <2>5, <2>6, <2>7 DEF FullInv
<1> QED BY <1>2, <1>3

(* Steps that leave every connection and every service's signal alone.     *)
LEMMA QuietFull ==
    ASSUME FullInv, IndInv',
           pool' = pool, conn' = conn, reqs' = reqs, replied' = replied,
           served' = served, collecting' = collecting, held' = held,
           \A p \in Partitions, s \in Services : s \in asserted'[p] <=> s \in asserted[p],
           \A p \in Partitions \ {Agent} : waiting'[p] = {ASYNC} => waiting[p] = {ASYNC},
           HighestPriorityRuns'
    PROVE  FullInv'
<1>1. Queued' = Queued /\ Serving' = Serving /\ Answered' = Answered
  BY DEF Queued, Serving, Answered
<1>2. Busy' = Busy
  BY <1>1 DEF Busy
<1>3. Lifecycle'
  BY <1>1, QuietLifecycle DEF FullInv
<1>4. ServiceSignalMatchesQueue'
  BY <1>1, SignalsKept DEF FullInv
<1>5. BlockedHasRequest'
  BY <1>2, BlockedKept DEF FullInv
<1> QED BY <1>3, <1>4, <1>5 DEF FullInv

(* psa_wait preserves the invariant: nobody asks to wait for the reply of  *)
(* a synchronous call.                                                     *)
LEMMA WaitFull ==
    ASSUME FullInv, IndInv', NEW p \in Partitions \ {Idle}, NEW mask \in WaitMasks(p),
           PsaWait(p, mask)
    PROVE  FullInv'
<1> USE PartitionAssumption, ServiceAssumption
<1>1. Types
  BY DEF FullInv, IndInv
<1>2. p # Agent => mask # {ASYNC}
  BY DEF WaitMasks, SignalsAllowed, Signals
<1>3. waiting' = [waiting EXCEPT ![p] = mask] /\ pendsv'
  BY DEF PsaWait
<1>4. \A q \in Partitions \ {Agent} : waiting'[q] = {ASYNC} => waiting[q] = {ASYNC}
  BY <1>1, <1>2, <1>3 DEF Types
<1>5. HighestPriorityRuns'
  BY <1>3 DEF HighestPriorityRuns
<1> QED BY <1>4, <1>5, QuietFull DEF PsaWait

(* Doorbells and interrupts preserve the invariant: a thread that one of   *)
(* them wakes pends PendSV.                                                *)
LEMMA SignalStepsFull ==
    ASSUME FullInv, IndInv',
           \/ \E i \in Irqs : Interrupt(i)
           \/ \E p \in Partitions \ {Idle} :
                \/ \E q \in Partitions : PsaNotify(p, q)
                \/ PsaClear(p)
                \/ \E i \in Irqs : \/ PsaEoi(p, i)
                                   \/ PsaResetSignal(p, i)
                                   \/ PsaIrqEnable(p, i)
                                   \/ PsaIrqDisable(p, i)
    PROVE  FullInv'
<1> USE PartitionAssumption, ServiceAssumption
<1>1. Types
  BY DEF FullInv, IndInv
<1>2. /\ pool' = pool /\ conn' = conn /\ reqs' = reqs /\ replied' = replied
      /\ served' = served /\ collecting' = collecting /\ held' = held
      /\ waiting' = waiting /\ cur' = cur
  BY DEF Interrupt, PsaNotify, PsaClear, PsaEoi, PsaResetSignal, PsaIrqEnable, PsaIrqDisable
<1>3. ASSUME \E q \in Partitions : \E x \in Irqs \cup {DOORBELL} :
                /\ asserted' = [asserted EXCEPT ![q] = asserted[q] \cup {x}]
                /\ ~pendsv' => ~pendsv /\ ~NeedSchedule(q, asserted[q] \cup {x})
      PROVE  FullInv'
  <2>1. PICK q \in Partitions, x \in Irqs \cup {DOORBELL} :
                /\ asserted' = [asserted EXCEPT ![q] = asserted[q] \cup {x}]
                /\ ~pendsv' => ~pendsv /\ ~NeedSchedule(q, asserted[q] \cup {x})
    BY <1>3
  <2>2. x \notin Services
    OBVIOUS
  <2>3. /\ asserted'[q] = asserted[q] \cup {x}
        /\ \A t \in Partitions \ {q} : asserted'[t] = asserted[t]
    BY <2>1, <1>1 DEF Types
  <2>4. \A t \in Partitions, s \in Services : s \in asserted'[t] <=> s \in asserted[t]
    BY <2>2, <2>3
  <2>5. ~pendsv' => \A t \in Partitions : \/ asserted'[t] \subseteq asserted[t]
                                          \/ asserted'[t] \cap waiting[t] = {}
    BY <2>1, <2>3 DEF NeedSchedule
  <2>6. HighestPriorityRuns'
    BY <2>1, <2>5, <1>2, FewerSignals, PriorityKept DEF FullInv
  <2> QED BY <2>4, <2>6, <1>2, QuietFull
<1>4. ASSUME \E q \in Partitions : \E x \in Irqs \cup {DOORBELL} :
                asserted' = [asserted EXCEPT ![q] = asserted[q] \ {x}],
             pendsv' = pendsv
      PROVE  FullInv'
  <2>1. PICK q \in Partitions, x \in Irqs \cup {DOORBELL} :
                asserted' = [asserted EXCEPT ![q] = asserted[q] \ {x}]
    BY <1>4
  <2>2. /\ asserted'[q] = asserted[q] \ {x}
        /\ \A t \in Partitions \ {q} : asserted'[t] = asserted[t]
    BY <2>1, <1>1 DEF Types
  <2>3. \A t \in Partitions, s \in Services : s \in asserted'[t] <=> s \in asserted[t]
    BY <2>1, <2>2
  <2>4. \A t \in Partitions : asserted'[t] \subseteq asserted[t]
    BY <2>2
  <2>5. HighestPriorityRuns'
    BY <1>4, <2>4, <1>2, FewerSignals, PriorityKept DEF FullInv
  <2> QED BY <2>3, <2>5, <1>2, QuietFull
<1>5. ASSUME NEW i \in Irqs, Interrupt(i) PROVE FullInv'
  <2>1. /\ IrqOwner[i] \in Partitions
        /\ asserted' = [asserted EXCEPT ![IrqOwner[i]] = asserted[IrqOwner[i]] \cup {i}]
        /\ ~pendsv' => ~pendsv /\ ~NeedSchedule(IrqOwner[i], asserted[IrqOwner[i]] \cup {i})
    BY <1>5 DEF Interrupt
  <2> QED BY <2>1, <1>3
<1>6. ASSUME NEW p \in Partitions, NEW q \in Partitions, PsaNotify(p, q) PROVE FullInv'
  <2>1. /\ asserted' = [asserted EXCEPT ![q] = asserted[q] \cup {DOORBELL}]
        /\ ~pendsv' => ~pendsv /\ ~NeedSchedule(q, asserted[q] \cup {DOORBELL})
    BY <1>6 DEF PsaNotify, Running
  <2> QED BY <2>1, <1>3
<1>7. ASSUME NEW p \in Partitions, PsaClear(p) PROVE FullInv'
  <2>1. /\ asserted' = [asserted EXCEPT ![p] = asserted[p] \ {DOORBELL}]
        /\ pendsv' = pendsv
    BY <1>7 DEF PsaClear
  <2> QED BY <2>1, <1>4
<1>8. ASSUME NEW p \in Partitions, NEW i \in Irqs,
             PsaEoi(p, i) \/ PsaResetSignal(p, i)
      PROVE  FullInv'
  <2>1. /\ asserted' = [asserted EXCEPT ![p] = asserted[p] \ {i}]
        /\ pendsv' = pendsv
    BY <1>8 DEF PsaEoi, PsaResetSignal
  <2> QED BY <2>1, <1>4
<1>9. ASSUME NEW p \in Partitions, NEW i \in Irqs,
             PsaIrqEnable(p, i) \/ PsaIrqDisable(p, i)
      PROVE  FullInv'
  <2>1. asserted' = asserted /\ pendsv' = pendsv
    BY <1>9 DEF PsaIrqEnable, PsaIrqDisable
  <2>2. HighestPriorityRuns'
    BY <2>1, <1>2, FewerSignals, PriorityKept DEF FullInv
  <2> QED BY <2>1, <2>2, <1>2, QuietFull
<1> QED BY <1>5, <1>6, <1>7, <1>8, <1>9

(* A context switch preserves the invariant: the thread that runs next is  *)
(* the first runnable one, and it has taken the answer it waited for.      *)
LEMMA ScheduleFull ==
    ASSUME FullInv, IndInv', Schedule
    PROVE  FullInv'
<1> USE PartitionAssumption, ServiceAssumption
<1>1. IndInv /\ Types /\ AnsweredStatus
  BY DEF FullInv, IndInv, Lifecycle
<1>2. PICK p \in Partitions :
        /\ IsNextThread(p)
        /\ cur' = p
        /\ waiting' = [waiting EXCEPT ![p] = {}]
        /\ IF /\ waiting[p] \cap asserted[p] = {ASYNC}
              /\ ASYNC \notin SignalsAllowed(p)
           THEN TakeReply(p)
           ELSE UNCHANGED <<asserted, replied, pool, conn, held>>
  BY DEF Schedule
<1>3. ASYNC \notin SignalsAllowed(p) <=> p # Agent
  BY DEF SignalsAllowed
<1>4. /\ waiting'[p] = {}
      /\ \A q \in Partitions \ {p} : waiting'[q] = waiting[q]
  BY <1>1, <1>2 DEF Types
<1>5. \A q \in Partitions \ {Agent} : waiting'[q] = {ASYNC} => q # p /\ waiting[q] = {ASYNC}
  BY <1>4
<1>6. ASSUME \A q \in Partitions \ {p} : asserted'[q] = asserted[q]
      PROVE  HighestPriorityRuns'
  <2>1. ASSUME NEW q \in Partitions, Prio[q] < Prio[p] PROVE ~Runnable(q)'
    <3>1. q # p /\ ~Runnable(q)
      BY <2>1, <1>2 DEF IsNextThread
    <3> QED BY <3>1, <1>4, <1>6 DEF Runnable
  <2>2. Runnable(p)'
    BY <1>4 DEF Runnable
  <2>3. IsNextThread(p)'
    BY <2>1, <2>2 DEF IsNextThread
  <2> QED BY <2>3, <1>2, <1>4 DEF HighestPriorityRuns, IsNextThread, Runnable
<1>7. CASE waiting[p] \cap asserted[p] = {ASYNC} /\ p # Agent
  <2>1. TakeReply(p)
    BY <1>2, <1>3, <1>7
  <2>2. PICK c : Collects(c) /\ conn[c].p_client = p
    <3>1. UNCHANGED <<reqs, served, collecting>>
      BY DEF Schedule
    <3> QED BY <3>1, <2>1, <1>1, <1>7, TakeCollects
  <2>3. asserted' = [asserted EXCEPT ![p] = asserted[p] \ {ASYNC}]
    BY <2>1 DEF TakeReply, SignalsAfterReply
  <2>4. /\ asserted'[p] = asserted[p] \ {ASYNC}
        /\ \A q \in Partitions \ {p} : asserted'[q] = asserted[q]
    BY <2>3, <1>1 DEF Types
  <2>5. /\ c \in Conns
        /\ c \notin Queued
        /\ Busy \subseteq Conns
        /\ Queued' = Queued
        /\ Busy' = Busy \ {c}
        /\ \A d \in Conns \ {c} : conn'[d] = conn[d]
    <3>1. c \in Answered /\ c \in Conns /\ c \notin Queued /\ c \notin Serving /\ Busy \subseteq Conns
      BY <2>2, <1>1, Places DEF Collects, Busy
    <3>2. Busy' = Busy \ {c} /\ Queued' = Queued
      BY <2>2, <3>1 DEF Collects, Busy
    <3>3. \A d \in Conns \ {c} : conn'[d] = conn[d]
      BY <2>2, <3>1, <1>1 DEF Collects, Types
    <3> QED BY <3>1, <3>2, <3>3
  <2>6. Lifecycle'
    BY <2>2, <1>1, CollectsLifecycle DEF FullInv
  <2>7. ServiceSignalMatchesQueue'
    <3>1. \A d \in Queued : conn'[d].service = conn[d].service
      BY <2>5 DEF Queued
    <3>2. \A t \in Partitions, s \in Services : s \in asserted'[t] <=> s \in asserted[t]
      BY <2>4
    <3> QED BY <3>1, <3>2, <2>5, <1>1, SignalsKept DEF FullInv
  <2>8. BlockedHasRequest'
    <3>1. \A d \in Busy : d # c => d \in Busy' /\ conn'[d].p_client = conn[d].p_client
      BY <2>5
    <3>2. \A d \in Busy : conn[d].p_client # Agent /\ waiting'[conn[d].p_client] = {ASYNC} =>
                d \in Busy' /\ conn'[d].p_client = conn[d].p_client
      BY <3>1, <2>2, <1>4
    <3> QED BY <3>2, <1>5, BlockedKept DEF FullInv
  <2>9. HighestPriorityRuns'
    BY <2>4, <1>6
  <2> QED BY <2>6, <2>7, <2>8, <2>9 DEF FullInv
<1>8. CASE ~(waiting[p] \cap asserted[p] = {ASYNC} /\ p # Agent)
  <2>1. /\ asserted' = asserted
        /\ pool' = pool /\ conn' = conn /\ reqs' = reqs /\ replied' = replied
        /\ served' = served /\ collecting' = collecting /\ held' = held
    BY <1>2, <1>3, <1>8 DEF Schedule
  <2>2. HighestPriorityRuns'
    BY <2>1, <1>6
  <2> QED BY <2>1, <2>2, <1>5, QuietFull
<1> QED BY <1>7, <1>8

(* The initial states.                                                     *)
LEMMA InitFull == Init => FullInv
<1> USE PartitionAssumption, ServiceAssumption
<1> SUFFICES ASSUME Init PROVE FullInv
  OBVIOUS
<1>1. IndInv
  BY InitInv
<1>2. Queued = {} /\ Serving = {} /\ Answered = {}
  <2>1. \A q \in Partitions : Range(reqs[q]) = {} /\ Range(replied[q]) = {} /\ served[q] = {}
    BY EmptyList DEF Init
  <2>2. collecting \notin Conns
    BY DEF Init
  <2>3. Queued = {}
    BY <2>1 DEF Queued
  <2>4. Serving = {}
    BY <2>1 DEF Serving
  <2>5. Answered = {}
    BY <2>1, <2>2 DEF Answered
  <2> QED BY <2>3, <2>4, <2>5
<1>3. Busy = {} /\ pool = Conns
  BY <1>2 DEF Busy, Init
<1>4. Lifecycle
  BY <1>2, <1>3 DEF Lifecycle, HandlesOwn, IdleHeld, BusyHeld, UnansweredStatus,
                    AnsweredStatus, Init
<1>5. ServiceSignalMatchesQueue
  <2>1. \A s \in Services : s \notin asserted[Owner[s]]
    BY DEF Init
  <2> QED BY <1>1, <1>2, <2>1, SignalOfQueued
<1>6. BlockedHasRequest
  <2>1. \A q \in Partitions : waiting[q] # {ASYNC}
    BY DEF Init
  <2> QED BY <2>1 DEF BlockedHasRequest
<1>7. HighestPriorityRuns
  BY DEF HighestPriorityRuns, Init
<1> QED BY <1>1, <1>4, <1>5, <1>6, <1>7 DEF FullInv

(* Every step of the system preserves the invariant.                       *)
LEMMA NextFull == FullInv /\ [Next]_vars => FullInv'
<1> SUFFICES ASSUME FullInv, [Next]_vars PROVE FullInv'
  OBVIOUS
<1>0. IndInv /\ IndInv'
  BY NextInv DEF FullInv
<1>1. CASE UNCHANGED vars
  <2>1. HighestPriorityRuns'
    BY <1>1 DEF vars, FullInv, HighestPriorityRuns, IsNextThread, Runnable
  <2> QED BY <1>0, <1>1, <2>1, QuietFull DEF vars
<1>2. CASE Schedule
  BY <1>0, <1>2, ScheduleFull
<1>3. CASE \E i \in Irqs : Interrupt(i)
  BY <1>0, <1>3, SignalStepsFull
<1>4. ASSUME NEW p \in Partitions \ {Idle}, ClientStep(p) PROVE FullInv'
  BY <1>0, <1>4, ClientSends, SendsFull
<1>5. ASSUME NEW p \in Partitions \ {Idle}, ServiceStep(p) PROVE FullInv'
  <2>1. CASE \E mask \in WaitMasks(p) : PsaWait(p, mask)
    BY <1>0, <2>1, WaitFull
  <2>2. CASE \E s \in Services : PsaGet(p, s)
    BY <1>0, <2>2, GetFull
  <2>3. CASE \E c \in Conns, ok \in BOOLEAN : PsaReply(p, c, ok)
    BY <1>0, <2>3, ReplyFull
  <2>4. CASE \/ \E q \in Partitions : PsaNotify(p, q)
             \/ PsaClear(p)
             \/ \E i \in Irqs : \/ PsaEoi(p, i)
                                \/ PsaResetSignal(p, i)
                                \/ PsaIrqEnable(p, i)
                                \/ PsaIrqDisable(p, i)
    BY <1>0, <2>4, SignalStepsFull
  <2> QED BY <1>5, <2>1, <2>2, <2>3, <2>4 DEF ServiceStep
<1>6. CASE AgentGetReply \/ AgentHandleReply
  BY <1>0, <1>6, AgentFull
<1>7. ASSUME NEW p \in Partitions, NEW mask \in WaitMasks(p), PsaPoll(p, mask) PROVE FullInv'
  <2>1. HighestPriorityRuns'
    BY <1>7 DEF PsaPoll, HighestPriorityRuns
  <2> QED BY <1>0, <1>7, <2>1, QuietFull DEF PsaPoll
<1> QED BY <1>1, <1>2, <1>3, <1>4, <1>5, <1>6, <1>7 DEF Next

-----------------------------------------------------------------------------
(* The whole invariant holds in every reachable state.                     *)
THEOREM FullInvariance == Spec => []FullInv
BY InitFull, NextFull, PTL DEF Spec

(* A chunk on the free list holds no connection.                           *)
FreeChunksEmpty == \A c \in pool : conn[c] = Freed

LEMMA ChunksKept ==
    ASSUME FullInv, FreeChunksEmpty, [Next]_vars
    PROVE  FreeChunksEmpty'
<1>0. IndInv /\ Types
  BY DEF FullInv, IndInv
<1>1. ASSUME pool' = pool, conn' = conn PROVE FreeChunksEmpty'
  BY <1>1 DEF FreeChunksEmpty
<1>2. ASSUME NEW c, Collects(c) PROVE FreeChunksEmpty'
  <2>1. c \in Conns \ pool
    BY <1>0, <1>2, Places DEF Collects, Busy
  <2> QED BY <1>0, <1>2, <2>1 DEF Collects, FreeChunksEmpty, Types
<1>3. CASE UNCHANGED vars
  BY <1>1, <1>3 DEF vars
<1>4. CASE Schedule
  <2>1. PICK p \in Partitions :
        /\ IF /\ waiting[p] \cap asserted[p] = {ASYNC}
              /\ ASYNC \notin SignalsAllowed(p)
           THEN TakeReply(p)
           ELSE UNCHANGED <<asserted, replied, pool, conn, held>>
    BY <1>4 DEF Schedule
  <2>2. UNCHANGED <<reqs, served, collecting>>
    BY <1>4 DEF Schedule
  <2>3. CASE waiting[p] \cap asserted[p] = {ASYNC} /\ ASYNC \notin SignalsAllowed(p)
    <3>1. TakeReply(p) /\ p # Agent
      BY <2>1, <2>3 DEF SignalsAllowed
    <3>2. PICK c : Collects(c)
      BY <3>1, <2>2, <2>3, <1>0, TakeCollects DEF FullInv, Lifecycle
    <3> QED BY <3>2, <1>2
  <2>4. CASE ~(waiting[p] \cap asserted[p] = {ASYNC} /\ ASYNC \notin SignalsAllowed(p))
    BY <2>1, <2>4, <1>1
  <2> QED BY <2>3, <2>4
<1>5. CASE AgentHandleReply
  BY <1>0, <1>2, <1>5, HandleCollects
<1>6. ASSUME NEW p \in Partitions \ {Idle}, ClientStep(p) PROVE FreeChunksEmpty'
  <2>1. PICK k, c, r : Sends(p, k, c, r)
    BY <1>0, <1>6, ClientSends
  <2> QED BY <1>0, <2>1 DEF Sends, FreeChunksEmpty, Types
<1>7. ASSUME NEW p \in Partitions, NEW c \in Conns, NEW ok \in BOOLEAN, PsaReply(p, c, ok)
      PROVE  FreeChunksEmpty'
  <2>1. c \notin pool
    BY <1>0, <1>7 DEF PsaReply, IndInv, OnePlace
  <2>2. pool' = pool /\ \A d \in Conns \ {c} : conn'[d] = conn[d]
    BY <1>0, <1>7 DEF PsaReply, Types
  <2> QED BY <1>0, <2>1, <2>2 DEF FreeChunksEmpty, Types
<1>8. ASSUME NEW p \in Partitions \ {Idle}, ServiceStep(p) PROVE FreeChunksEmpty'
  <2>1. CASE \E c \in Conns, ok \in BOOLEAN : PsaReply(p, c, ok)
    BY <1>7, <2>1
  <2>2. CASE ~\E c \in Conns, ok \in BOOLEAN : PsaReply(p, c, ok)
    <3>1. pool' = pool /\ conn' = conn
      BY <1>8, <2>2 DEF ServiceStep, PsaWait, PsaGet, PsaNotify, PsaClear, PsaEoi,
         PsaResetSignal, PsaIrqEnable, PsaIrqDisable
    <3> QED BY <1>1, <3>1
  <2> QED BY <2>1, <2>2
<1>9. CASE \/ \E i \in Irqs : Interrupt(i)
           \/ \E p \in Partitions : \E mask \in WaitMasks(p) : PsaPoll(p, mask)
           \/ AgentGetReply
  BY <1>1, <1>9 DEF Interrupt, PsaPoll, AgentGetReply
<1> QED BY <1>3, <1>4, <1>5, <1>6, <1>8, <1>9 DEF Next

(* The SPM's data structures keep their types: an allocated chunk holds a  *)
(* connection_t, a chunk on the free list holds none, and the request and  *)
(* reply lists hold connections only.                                      *)
THEOREM TypeCorrect == Spec => []TypeOK
<1>1. Init => FreeChunksEmpty
  BY DEF Init, FreeChunksEmpty
<1>2. FullInv /\ FreeChunksEmpty /\ [Next]_vars => FreeChunksEmpty'
  BY ChunksKept
<1>3. FullInv /\ FreeChunksEmpty => TypeOK
  BY DEF FullInv, IndInv, Allocated, FreeChunksEmpty, TypeOK
<1> QED BY <1>1, <1>2, <1>3, FullInvariance, PTL DEF Spec

(* psa_get on an asserted service signal always finds a request, and no    *)
(* request is queued without its signal (backend_messaging and             *)
(* spm_get_handle_by_signal).                                              *)
THEOREM ServiceSignalSound == Spec => []ServiceSignalMatchesQueue
<1>1. FullInv => ServiceSignalMatchesQueue
  BY DEF FullInv
<1> QED BY FullInvariance, <1>1, PTL

(* Every chunk of the connection pool is free, carries a message, or is an *)
(* idle connection whose client still holds the handle: psa_connect,       *)
(* psa_call and psa_close lose none, refused and stateless ones included.  *)
THEOREM NoConnectionLeaks == Spec => []NoLeak
<1>1. FullInv => NoLeak
  <2> SUFFICES ASSUME FullInv, NEW c \in Conns \ pool
               PROVE  \/ InFlight(c)
                      \/ conn[c].status = "IDLE" /\ c \in held[conn[c].client_id]
    BY DEF NoLeak
  <2>1. InFlight(c) <=> c \in Busy
    BY Places DEF FullInv
  <2> QED BY <2>1 DEF FullInv, Lifecycle, IdleHeld
<1> QED BY FullInvariance, <1>1, PTL

(* A partition that calls a service stays blocked exactly until its one    *)
(* answer is there (backend_messaging, psa_reply, query_state).            *)
THEOREM SyncCallsBlock == Spec => []SyncCallBlocks
<1>1. FullInv => SyncCallBlocks
  <2> SUFFICES ASSUME FullInv, NEW p \in Partitions \ {Agent}
      PROVE
        /\ waiting[p] = {ASYNC} =>
              \E c \in Conns : c \notin pool /\ conn[c].p_client = p /\ InFlight(c)
        /\ \A c \in Conns \ pool :
              conn[c].p_client = p /\ InFlight(c) =>
                /\ waiting[p] = {ASYNC}
                /\ \A d \in Conns \ pool :
                      conn[d].p_client = p /\ InFlight(d) => c = d
    BY DEF SyncCallBlocks
  <2>1. IndInv
    BY DEF FullInv
  <2>2. /\ \A c \in Busy : c \in Conns /\ c \notin pool
        /\ \A c \in Conns : InFlight(c) <=> c \in Busy
    BY <2>1, Places
  <2>3. waiting[p] = {ASYNC} =>
              \E c \in Conns : c \notin pool /\ conn[c].p_client = p /\ InFlight(c)
    BY <2>2 DEF FullInv, BlockedHasRequest
  <2> QED BY <2>1, <2>3 DEF IndInv, OneCall
<1> QED BY FullInvariance, <1>1, PTL

(* A handle returned by psa_connect names a live connection of the client  *)
(* until it is closed, so spm_get_idle_connection never panics on it.      *)
THEOREM HandlesAreUsable == Spec => []HandlesUsable
<1>1. FullInv => HandlesUsable
  <2> SUFFICES ASSUME FullInv, NEW k \in Clients, NEW c \in held[k]
      PROVE  /\ c \notin pool
             /\ conn[c].client_id = k
             /\ conn[c].status = "IDLE" \/ InFlight(c)
             /\ conn[c].service \notin Stateless
    BY DEF HandlesUsable
  <2>1. c \in Conns \ pool /\ conn[c].client_id = k
    BY DEF FullInv, Lifecycle, HandlesOwn
  <2>2. InFlight(c) <=> c \in Busy
    BY <2>1, Places DEF FullInv
  <2>3. CASE c \in Busy
    BY <2>1, <2>2, <2>3 DEF FullInv, Lifecycle, BusyHeld, UsesConnection
  <2>4. CASE c \notin Busy
    BY <2>1, <2>4 DEF FullInv, Lifecycle, IdleHeld
  <2> QED BY <2>1, <2>2, <2>3, <2>4
<1> QED BY FullInvariance, <1>1, PTL

(* Whenever PendSV is not pending the running thread is the first runnable *)
(* one, except that the mailbox agent may run longer: no signal is asserted*)
(* without the scheduling attempt it calls for.                            *)
THEOREM RunsHighestPriority == Spec => []HighestPriorityRuns
<1>1. FullInv => HighestPriorityRuns
  BY DEF FullInv
<1> QED BY FullInvariance, <1>1, PTL

-----------------------------------------------------------------------------
(* The refinement of RotConnection.                                        *)

(* d comes before e in a list.                                             *)
Precedes(seq, d, e) == \E i \in DOMAIN seq : seq[i] = e /\ \E j \in 1 .. i - 1 : seq[j] = d

(* An appended element comes after all the others.                         *)
LEMMA AppendOrder ==
    ASSUME NEW S, NEW seq \in Seq(S), NEW c \in S, c \notin Range(seq), NEW d, NEW e
    PROVE  Precedes(Append(seq, c), d, e) <=>
               Precedes(seq, d, e) \/ (e = c /\ d \in Range(seq))
<1>1. /\ DOMAIN seq = 1 .. Len(seq)
      /\ Len(seq) \in Nat
      /\ DOMAIN Append(seq, c) = 1 .. Len(seq) + 1
      /\ \A i \in 1 .. Len(seq) : Append(seq, c)[i] = seq[i]
      /\ Append(seq, c)[Len(seq) + 1] = c
  OBVIOUS
<1>2. ASSUME Precedes(Append(seq, c), d, e)
      PROVE  Precedes(seq, d, e) \/ (e = c /\ d \in Range(seq))
  <2>1. PICK i \in 1 .. Len(seq) + 1 :
           Append(seq, c)[i] = e /\ \E j \in 1 .. i - 1 : Append(seq, c)[j] = d
    BY <1>1, <1>2 DEF Precedes
  <2>2. PICK j \in 1 .. i - 1 : Append(seq, c)[j] = d
    BY <2>1
  <2>3. j \in 1 .. Len(seq) /\ seq[j] = d
    BY <1>1, <2>2
  <2>4. d \in Range(seq)
    BY <2>3, <1>1 DEF Range
  <2>5. CASE i = Len(seq) + 1
    BY <2>1, <2>4, <2>5, <1>1
  <2>6. CASE i # Len(seq) + 1
    <3>1. i \in 1 .. Len(seq) /\ seq[i] = e
      BY <2>1, <2>6, <1>1
    <3> QED BY <3>1, <2>2, <2>3, <1>1 DEF Precedes
  <2> QED BY <2>5, <2>6
<1>3. ASSUME Precedes(seq, d, e) PROVE Precedes(Append(seq, c), d, e)
  <2>1. PICK i \in 1 .. Len(seq) : seq[i] = e /\ \E j \in 1 .. i - 1 : seq[j] = d
    BY <1>1, <1>3 DEF Precedes
  <2>2. PICK j \in 1 .. i - 1 : seq[j] = d
    BY <2>1
  <2>3. i \in 1 .. Len(seq) + 1 /\ j \in 1 .. Len(seq)
    BY <1>1, <2>2
  <2> QED BY <1>1, <2>1, <2>2, <2>3 DEF Precedes
<1>4. ASSUME e = c, d \in Range(seq) PROVE Precedes(Append(seq, c), d, e)
  <2>1. PICK j \in 1 .. Len(seq) : seq[j] = d
    BY <1>1, <1>4 DEF Range
  <2>2. Len(seq) + 1 \in 1 .. Len(seq) + 1 /\ j \in 1 .. (Len(seq) + 1) - 1
    BY <1>1, <2>1
  <2> QED BY <1>1, <1>4, <2>1, <2>2 DEF Precedes
<1> QED BY <1>2, <1>3, <1>4

(* Removing a node keeps the order of the others.                          *)
LEMMA RemoveOrder ==
    ASSUME NEW S, NEW seq \in Seq(S), IsInjective(seq), NEW n \in 1 .. Len(seq),
           NEW d, NEW e
    PROVE  Precedes(RemoveNode(seq, n), d, e) <=>
               Precedes(seq, d, e) /\ d # seq[n] /\ e # seq[n]
<1> PICK rest : rest = RemoveNode(seq, n)
  OBVIOUS
<1>1. /\ DOMAIN seq = 1 .. Len(seq)
      /\ Len(seq) \in Nat
      /\ n \in 1 .. Len(seq)
      /\ DOMAIN rest = 1 .. Len(seq) - 1
      /\ \A i \in 1 .. Len(seq) - 1 : rest[i] = IF i < n THEN seq[i] ELSE seq[i + 1]
  BY DEF RemoveNode
<1>2. \A i, j \in 1 .. Len(seq) : seq[i] = seq[j] => i = j
  BY <1>1 DEF IsInjective
<1>3. ASSUME Precedes(rest, d, e) PROVE Precedes(seq, d, e) /\ d # seq[n] /\ e # seq[n]
  <2>1. PICK i \in 1 .. Len(seq) - 1 : rest[i] = e /\ \E j \in 1 .. i - 1 : rest[j] = d
    BY <1>1, <1>3 DEF Precedes
  <2>2. PICK j \in 1 .. i - 1 : rest[j] = d
    BY <2>1
  <2>3. PICK m : m = IF i < n THEN i ELSE i + 1
    OBVIOUS
  <2>4. PICK k : k = IF j < n THEN j ELSE j + 1
    OBVIOUS
  <2>5. /\ m \in 1 .. Len(seq) /\ seq[m] = e /\ m # n
        /\ k \in 1 .. m - 1 /\ k \in 1 .. Len(seq) /\ seq[k] = d /\ k # n
    BY <1>1, <2>1, <2>2, <2>3, <2>4
  <2> QED BY <2>5, <1>1, <1>2 DEF Precedes
<1>4. ASSUME Precedes(seq, d, e), d # seq[n], e # seq[n] PROVE Precedes(rest, d, e)
  <2>1. PICK i \in 1 .. Len(seq) : seq[i] = e /\ \E j \in 1 .. i - 1 : seq[j] = d
    BY <1>1, <1>4 DEF Precedes
  <2>2. PICK j \in 1 .. i - 1 : seq[j] = d
    BY <2>1
  <2>3. PICK m : m = IF i < n THEN i ELSE i - 1
    OBVIOUS
  <2>4. PICK k : k = IF j < n THEN j ELSE j - 1
    OBVIOUS
  <2>5. i # n /\ j # n
    BY <1>4, <2>1, <2>2
  <2>6. /\ m \in 1 .. Len(seq) - 1 /\ rest[m] = e
        /\ k \in 1 .. m - 1 /\ rest[k] = d
    BY <1>1, <2>1, <2>2, <2>3, <2>4, <2>5
  <2> QED BY <2>6, <1>1 DEF Precedes
<1> QED BY <1>3, <1>4

(* Where a connection is in RotConnection.                                 *)
StateOf(c) ==
    IF c \in pool THEN "free" ELSE IF c \in Queued THEN "queued"
    ELSE IF c \in Serving THEN "served" ELSE IF c \in Answered THEN "replied" ELSE "idle"

(* The refinement's state follows from the places of the connections.      *)
LEMMA StateIsPlace == IndInv => ConnectionState = [c \in Conns |-> StateOf(c)]
<1> SUFFICES ASSUME IndInv PROVE ConnectionState = [c \in Conns |-> StateOf(c)]
  OBVIOUS
<1>1. ASSUME NEW c \in Conns PROVE ConnectionState[c] = StateOf(c)
  <2>1. /\ (\E p \in Partitions : c \in Range(reqs[p])) <=> c \in Queued
        /\ (\E p \in Partitions : c \in served[p]) <=> c \in Serving
        /\ (c = collecting \/ \E p \in Partitions : c \in Range(replied[p])) <=> c \in Answered
    BY DEF Queued, Serving, Answered
  <2> QED BY <2>1, Places DEF ConnectionState, StateOf, Busy, Queued, Serving, Answered
<1> QED BY <1>1 DEF ConnectionState

(* The same after a step.                                                  *)
LEMMA StateIsPlaceNext ==
    ASSUME IndInv' PROVE ConnectionState' = [c \in Conns |-> StateOf(c)']
<1>1. (IndInv => ConnectionState = [c \in Conns |-> StateOf(c)])'
  BY StateIsPlace, PTL
<1> QED BY <1>1

(* A message that has another one ahead of it is queued, as is that one.   *)
LEMMA BeforeQueued ==
    IndInv => \A d, e \in Conns :
                 Before(d, e) <=>
                    /\ d \in Queued /\ e \in Queued
                    /\ conn[d].service = conn[e].service
                    /\ Precedes(reqs[Owner[conn[e].service]], d, e)
<1> USE PartitionAssumption, ServiceAssumption
<1> SUFFICES ASSUME IndInv, NEW d \in Conns, NEW e \in Conns
             PROVE  Before(d, e) <=>
                    /\ d \in Queued /\ e \in Queued
                    /\ conn[d].service = conn[e].service
                    /\ Precedes(reqs[Owner[conn[e].service]], d, e)
  OBVIOUS
<1>0. Types
  BY DEF IndInv
<1>1. ASSUME Before(d, e)
      PROVE  /\ d \in Queued /\ e \in Queued
             /\ conn[d].service = conn[e].service
             /\ Precedes(reqs[Owner[conn[e].service]], d, e)
  <2>1. PICK p \in Partitions : \E i \in DOMAIN reqs[p] :
            /\ reqs[p][i] = e
            /\ \E j \in 1 .. i - 1 : /\ reqs[p][j] = d
                                      /\ conn[d].service = conn[e].service
    BY <1>1 DEF Before
  <2>2. PICK i \in DOMAIN reqs[p] :
            /\ reqs[p][i] = e
            /\ \E j \in 1 .. i - 1 : /\ reqs[p][j] = d
                                      /\ conn[d].service = conn[e].service
    BY <2>1
  <2>3. PICK j \in 1 .. i - 1 : reqs[p][j] = d /\ conn[d].service = conn[e].service
    BY <2>2
  <2>4. j \in DOMAIN reqs[p]
    <3>1. reqs[p] \in Seq(Conns)
      BY <1>0 DEF Types
    <3> QED BY <3>1, <2>3
  <2>5. d \in Range(reqs[p]) /\ e \in Range(reqs[p])
    BY <2>2, <2>3, <2>4 DEF Range
  <2>6. p = Owner[conn[e].service]
    BY <2>5 DEF IndInv, OnePlace
  <2>7. Precedes(reqs[p], d, e)
    BY <2>2, <2>3 DEF Precedes
  <2> QED BY <2>3, <2>5, <2>6, <2>7 DEF Queued
<1>2. ASSUME d \in Queued, e \in Queued, conn[d].service = conn[e].service,
             Precedes(reqs[Owner[conn[e].service]], d, e)
      PROVE  Before(d, e)
  <2>1. PICK p \in Partitions : e \in Range(reqs[p])
    BY <1>2 DEF Queued
  <2>2. p = Owner[conn[e].service]
    BY <2>1 DEF IndInv, OnePlace
  <2>3. Precedes(reqs[p], d, e)
    BY <1>2, <2>2
  <2> QED BY <1>2, <2>3 DEF Before, Precedes
<1> QED BY <1>1, <1>2

(* The same after a step.                                                  *)
LEMMA BeforeQueuedNext ==
    ASSUME IndInv'
    PROVE  \A d, e \in Conns :
                 Before(d, e)' <=>
                    /\ d \in Queued' /\ e \in Queued'
                    /\ conn'[d].service = conn'[e].service
                    /\ Precedes(reqs'[Owner[conn'[e].service]], d, e)
<1>1. (IndInv => \A d, e \in Conns :
                 Before(d, e) <=>
                    /\ d \in Queued /\ e \in Queued
                    /\ conn[d].service = conn[e].service
                    /\ Precedes(reqs[Owner[conn[e].service]], d, e))'
  BY BeforeQueued, PTL
<1> QED BY <1>1

(* Steps that leave the queues and the messages in them alone.             *)
LEMMA AheadKept ==
    ASSUME IndInv, IndInv', reqs' = reqs, Queued' = Queued,
           \A d \in Queued : conn'[d].service = conn[d].service
    PROVE  MessagesAhead' = MessagesAhead
<1>1. ASSUME NEW d \in Conns, NEW e \in Conns PROVE Before(d, e)' <=> Before(d, e)
  <2>1. Before(d, e) <=>
                    /\ d \in Queued /\ e \in Queued
                    /\ conn[d].service = conn[e].service
                    /\ Precedes(reqs[Owner[conn[e].service]], d, e)
    BY BeforeQueued
  <2>2. Before(d, e)' <=>
                    /\ d \in Queued' /\ e \in Queued'
                    /\ conn'[d].service = conn'[e].service
                    /\ Precedes(reqs'[Owner[conn'[e].service]], d, e)
    BY BeforeQueuedNext
  <2> QED BY <2>1, <2>2
<1>2. ASSUME NEW e \in Conns PROVE {d \in Conns : Before(d, e)'} = {d \in Conns : Before(d, e)}
  BY <1>1
<1> QED BY <1>2 DEF MessagesAhead

(* Steps that leave the places alone.                                      *)
LEMMA StateKept ==
    ASSUME IndInv, IndInv', pool' = pool, Queued' = Queued, Serving' = Serving,
           Answered' = Answered
    PROVE  ConnectionState' = ConnectionState
<1>1. \A c \in Conns : StateOf(c)' = StateOf(c)
  BY DEF StateOf
<1>2. ConnectionState = [c \in Conns |-> StateOf(c)]
  BY StateIsPlace
<1>3. ConnectionState' = [c \in Conns |-> StateOf(c)']
  BY StateIsPlaceNext
<1> QED BY <1>1, <1>2, <1>3

(* Steps that change nothing in RotConnection.                             *)
LEMMA QuietMaps ==
    ASSUME IndInv, IndInv', pool' = pool, conn' = conn, reqs' = reqs, Queued' = Queued,
           Serving' = Serving, Answered' = Answered
    PROVE  UNCHANGED Abstract!avars
<1>1. ConnectionState' = ConnectionState
  BY StateKept
<1>2. MessagesAhead' = MessagesAhead
  BY AheadKept
<1>3. CurrentMessage' = CurrentMessage
  BY DEF CurrentMessage
<1> QED BY <1>1, <1>2, <1>3 DEF Abstract!avars

(* One connection moves: the others stay where they are.                   *)
LEMMA StateMoves ==
    ASSUME IndInv, IndInv', NEW c \in Conns,
           \A d \in Conns \ {c} : StateOf(d)' = StateOf(d)
    PROVE  /\ ConnectionState[c] = StateOf(c)
           /\ ConnectionState' = [ConnectionState EXCEPT ![c] = StateOf(c)']
<1>1. ConnectionState = [d \in Conns |-> StateOf(d)]
  BY StateIsPlace
<1>2. ConnectionState' = [d \in Conns |-> StateOf(d)']
  BY StateIsPlaceNext
<1> QED BY <1>1, <1>2

(* A reply is a reply.                                                     *)
LEMMA ReplyMaps ==
    ASSUME FullInv, IndInv', NEW p \in Partitions, NEW c \in Conns, NEW ok,
           PsaReply(p, c, ok)
    PROVE  Abstract!Next
<1> USE PartitionAssumption, ServiceAssumption
<1>1. IndInv /\ Types
  BY DEF FullInv, IndInv
<1>2. /\ c \in Serving
      /\ Queued' = Queued
      /\ Serving' = Serving \ {c}
      /\ Answered' = Answered \cup {c}
      /\ pool' = pool
      /\ conn' = [conn EXCEPT ![c] = [conn[c] EXCEPT !.replied_value = ReplyValue(c, ok),
                                                     !.status = ReplyStatus(c, ok)]]
  BY <1>1, ReplyPlaces
<1>3. reqs' = reqs
  BY DEF PsaReply
<1>4. conn[c] \in Connection /\ c \notin pool /\ c \notin Queued /\ c \notin Answered
  BY <1>1, <1>2, Places DEF Busy
<1>5. \A d \in Conns : /\ conn'[d].service = conn[d].service
                       /\ conn'[d].client_id = conn[d].client_id
                       /\ conn'[d].type = conn[d].type
  BY <1>4, <1>1, <1>2 DEF Types, Connection
<1>6. CurrentMessage' = CurrentMessage
  BY <1>2, <1>5 DEF CurrentMessage
<1>7. MessagesAhead' = MessagesAhead
  BY <1>1, <1>2, <1>3, <1>5, AheadKept DEF Queued
<1>8. /\ StateOf(c) = "served"
      /\ StateOf(c)' = "replied"
      /\ \A d \in Conns \ {c} : StateOf(d)' = StateOf(d)
  BY <1>2, <1>4 DEF StateOf
<1>9. /\ ConnectionState[c] = "served"
      /\ ConnectionState' = [ConnectionState EXCEPT ![c] = "replied"]
  BY <1>1, <1>8, StateMoves
<1> QED BY <1>6, <1>7, <1>9 DEF Abstract!Next, Abstract!Reply

(* A client that collects its answer finishes the message.                 *)
LEMMA CollectsMaps ==
    ASSUME FullInv, IndInv', NEW c, Collects(c)
    PROVE  Abstract!Next
<1> USE PartitionAssumption, ServiceAssumption
<1>1. IndInv /\ Types
  BY DEF FullInv, IndInv
<1>2. /\ c \in Conns /\ c \in Answered /\ c \notin pool /\ c \notin Queued
      /\ c \notin Serving /\ conn[c] \in Connection
  BY <1>1, Places DEF Collects, Busy
<1>3. /\ Queued' = Queued /\ Serving' = Serving /\ Answered' = Answered \ {c}
      /\ reqs' = reqs
  BY DEF Collects
<1>4. \A d \in Conns \ {c} : conn'[d] = conn[d] /\ (d \in pool' <=> d \in pool)
  BY <1>1, <1>2 DEF Collects, Types
<1>5. MessagesAhead' = MessagesAhead
  BY <1>1, <1>2, <1>3, <1>4, AheadKept DEF Queued
<1>6. \A d \in Conns \ {c} : StateOf(d)' = StateOf(d)
  BY <1>3, <1>4 DEF StateOf
<1>7. StateOf(c) = "replied"
  BY <1>2 DEF StateOf
<1>8. /\ ConnectionState[c] = "replied"
      /\ ConnectionState' = [ConnectionState EXCEPT ![c] = StateOf(c)']
  BY <1>1, <1>2, <1>6, <1>7, StateMoves
<1>9. /\ CurrentMessage[c] = [client |-> conn[c].client_id, service |-> conn[c].service,
                              type |-> conn[c].type]
      /\ \A d \in Conns \ {c} : CurrentMessage'[d] = CurrentMessage[d]
  BY <1>2, <1>4 DEF CurrentMessage
<1>10. /\ conn[c].status # "TO_FREE" <=>
            conn[c].replied_value = "HANDLE" \/ UsesConnection(c)
       /\ conn[c].replied_value = "HANDLE" => conn[c].type = "CONNECT"
       /\ conn[c].type # "CALL" => conn[c].service \notin Stateless
       /\ conn[c].type \in {"CONNECT", "CALL", "DISCONNECT"}
  BY <1>2 DEF FullInv, Lifecycle, AnsweredStatus, BusyHeld, Busy, Connection
<1>11. CASE conn[c].status = "TO_FREE"
  <2>1. c \in pool'
    BY <1>11 DEF Collects
  <2>2. StateOf(c)' = "free"
    BY <2>1 DEF StateOf
  <2>3. CurrentMessage'[c] = Freed
    BY <2>1, <1>2 DEF CurrentMessage
  <2>4. CurrentMessage' = [CurrentMessage EXCEPT ![c] = Freed]
    BY <2>3, <1>9, <1>2 DEF CurrentMessage
  <2>5. \/ CurrentMessage[c].type \in {"CONNECT", "DISCONNECT"}
        \/ CurrentMessage[c].service \in Stateless
    BY <1>9, <1>10, <1>11 DEF UsesConnection
  <2> QED BY <2>2, <2>4, <2>5, <1>2, <1>5, <1>8 DEF Abstract!Next, Abstract!Finish
<1>12. CASE conn[c].status # "TO_FREE"
  <2>1. c \notin pool' /\ conn'[c] = [conn[c] EXCEPT !.status = "IDLE"]
    BY <1>12, <1>1, <1>2 DEF Collects, Types
  <2>2. StateOf(c)' = "idle"
    BY <2>1, <1>2, <1>3 DEF StateOf
  <2>3. /\ conn'[c].service = conn[c].service
        /\ conn'[c].client_id = conn[c].client_id
        /\ conn'[c].type = conn[c].type
    BY <2>1, <1>2 DEF Connection
  <2>4. CurrentMessage'[c] = CurrentMessage[c]
    BY <2>1, <2>3, <1>2 DEF CurrentMessage
  <2>5. CurrentMessage' = CurrentMessage
    BY <2>4, <1>9 DEF CurrentMessage
  <2>6. CurrentMessage[c].type # "DISCONNECT" /\ CurrentMessage[c].service \notin Stateless
    BY <1>9, <1>10, <1>12 DEF UsesConnection
  <2> QED BY <2>2, <2>5, <2>6, <1>2, <1>5, <1>8 DEF Abstract!Next, Abstract!Finish
<1> QED BY <1>11, <1>12

(* psa_get accepts the message that is first in line for its service.      *)
LEMMA GetMaps ==
    ASSUME FullInv, IndInv', NEW p \in Partitions, NEW s \in Services, PsaGet(p, s)
    PROVE  Abstract!Next
<1> USE PartitionAssumption, ServiceAssumption
<1>1. IndInv /\ Types
  BY DEF FullInv, IndInv
<1>2. PICK i \in 1 .. Len(reqs[p]) :
        /\ IsOldestFor(p, s, i)
        /\ reqs[p][i] \in Queued
        /\ conn[reqs[p][i]].service = s
        /\ reqs'[p] = RemoveNode(reqs[p], i)
        /\ \A q \in Partitions \ {p} : reqs'[q] = reqs[q]
        /\ Range(reqs'[p]) = Range(reqs[p]) \ {reqs[p][i]}
        /\ asserted' = IF OnlyOneFor(p, s, i)
                       THEN [asserted EXCEPT ![p] = @ \ {s}] ELSE asserted
        /\ Queued' = Queued \ {reqs[p][i]}
        /\ Serving' = Serving \cup {reqs[p][i]}
        /\ Answered' = Answered
        /\ UNCHANGED <<pool, conn, replied, waiting, cur, pendsv, held>>
  BY <1>1, GetPlaces
<1> PICK c : c = reqs[p][i]
  OBVIOUS
<1>3. /\ c \in Queued /\ c \in Conns /\ c \notin pool
      /\ conn[c].service = s
      /\ Queued' = Queued \ {c}
      /\ Serving' = Serving \cup {c}
      /\ Answered' = Answered
      /\ conn' = conn /\ pool' = pool
  BY <1>1, <1>2, Places DEF Busy
<1>4. reqs[p] \in Seq(Conns) /\ IsInjective(reqs[p])
  BY <1>1 DEF IndInv, OnePlace, Types
<1>5. DOMAIN reqs[p] = 1 .. Len(reqs[p]) /\ c \in Range(reqs[p])
  BY <1>4 DEF Range
<1>6. p = Owner[s]
  BY <1>1, <1>3, <1>5 DEF IndInv, OnePlace
<1>7. ASSUME NEW d \in Conns PROVE ~Before(d, c)
  <2> SUFFICES ASSUME Before(d, c) PROVE FALSE
    OBVIOUS
  <2>1. Precedes(reqs[p], d, c) /\ conn[d].service = s
    BY <1>1, <1>3, <1>6, BeforeQueued
  <2>2. PICK k \in 1 .. Len(reqs[p]) : reqs[p][k] = c /\ \E j \in 1 .. k - 1 : reqs[p][j] = d
    BY <2>1, <1>5 DEF Precedes
  <2>3. k = i
    BY <2>2, <1>4, <1>5 DEF IsInjective
  <2>4. PICK j \in 1 .. i - 1 : reqs[p][j] = d
    BY <2>2, <2>3
  <2> QED BY <2>1, <2>4, <1>2 DEF IsOldestFor
<1>8. ASSUME NEW d \in Conns, NEW e \in Conns PROVE Before(d, e)' <=> Before(d, e) /\ d # c
  <2>1. Before(d, e) <=>
                    /\ d \in Queued /\ e \in Queued
                    /\ conn[d].service = conn[e].service
                    /\ Precedes(reqs[Owner[conn[e].service]], d, e)
    BY <1>1, BeforeQueued
  <2>2. Before(d, e)' <=>
                    /\ d \in Queued' /\ e \in Queued'
                    /\ conn'[d].service = conn'[e].service
                    /\ Precedes(reqs'[Owner[conn'[e].service]], d, e)
    BY BeforeQueuedNext
  <2>3. CASE e = c
    BY <2>2, <2>3, <1>3, <1>7
  <2>4. CASE e # c /\ Owner[conn[e].service] = p
    <3>1. Precedes(reqs'[p], d, e) <=> Precedes(reqs[p], d, e) /\ d # c /\ e # c
      BY <1>2, <1>4, RemoveOrder
    <3> QED BY <3>1, <2>1, <2>2, <2>4, <1>3
  <2>5. CASE e # c /\ Owner[conn[e].service] # p
    <3>1. ASSUME e \in Queued PROVE Owner[conn[e].service] \in Partitions
      <4>1. conn[e].service \in Services
        BY <3>1, <1>1, Places DEF Busy, Connection
      <4> QED BY <4>1
    <3>2. ASSUME d \in Queued, e \in Queued, conn[d].service = conn[e].service PROVE d # c
      BY <3>2, <2>5, <1>3, <1>6
    <3>3. e \in Queued => reqs'[Owner[conn[e].service]] = reqs[Owner[conn[e].service]]
      BY <3>1, <2>5, <1>2
    <3> QED BY <3>2, <3>3, <2>1, <2>2, <2>5, <1>3
  <2> QED BY <2>3, <2>4, <2>5
<1>9. MessagesAhead[c] = {} /\ MessagesAhead' = [e \in Conns |-> MessagesAhead[e] \ {c}]
  <2>1. ASSUME NEW e \in Conns
        PROVE  {d \in Conns : Before(d, e)'} = {d \in Conns : Before(d, e)} \ {c}
    BY <1>8
  <2> QED BY <2>1, <1>3, <1>7 DEF MessagesAhead
<1>10. CurrentMessage' = CurrentMessage
  BY <1>3 DEF CurrentMessage
<1>11. /\ StateOf(c) = "queued"
       /\ StateOf(c)' = "served"
       /\ \A d \in Conns \ {c} : StateOf(d)' = StateOf(d)
  BY <1>3 DEF StateOf
<1>12. /\ ConnectionState[c] = "queued"
       /\ ConnectionState' = [ConnectionState EXCEPT ![c] = "served"]
  BY <1>1, <1>3, <1>11, StateMoves
<1> QED BY <1>3, <1>9, <1>10, <1>12 DEF Abstract!Next, Abstract!Accept

(* A client's request opens or uses a connection; it is the last in line.  *)
LEMMA SendsMaps ==
    ASSUME FullInv, IndInv', NEW p \in Partitions \ {Idle}, NEW k, NEW c, NEW r,
           Sends(p, k, c, r)
    PROVE  Abstract!Next
<1> USE PartitionAssumption, ServiceAssumption
<1> PICK s : s = r.service
  OBVIOUS
<1> PICK o : o = Owner[s]
  OBVIOUS
<1> PICK m : m = [client |-> r.client_id, service |-> s, type |-> r.type]
  OBVIOUS
<1>1. IndInv /\ Types
  BY DEF FullInv, IndInv
<1>2. /\ s \in Services
      /\ o \in Partitions
      /\ reqs'[o] = Append(reqs[o], c)
      /\ \A q \in Partitions \ {o} : reqs'[q] = reqs[q]
      /\ Queued' = Queued \cup {c}
      /\ Serving' = Serving
      /\ Answered' = Answered
      /\ conn'[c] = r
      /\ \A d \in Conns \ {c} : conn'[d] = conn[d]
  BY <1>1, SendsPlaces
<1>3. /\ c \in Conns \ Busy
      /\ pool' = pool \ {c}
      /\ k \in Clients
      /\ r \in Connection /\ r.client_id = k
  BY DEF Sends
<1>4. /\ c \notin Queued /\ c \notin Serving /\ c \notin Answered
      /\ \A d \in Queued : d \in Conns \ pool
  BY <1>1, <1>3, Places DEF Busy
<1>5. reqs[o] \in Seq(Conns) /\ c \notin Range(reqs[o])
  BY <1>1, <1>2, <1>3, <1>4, SMTT(40) DEF Types, Queued
<1>6. /\ StateOf(c) = IF c \in pool THEN "free" ELSE "idle"
      /\ StateOf(c)' = "queued"
      /\ \A d \in Conns \ {c} : StateOf(d)' = StateOf(d)
  BY <1>2, <1>3, <1>4 DEF StateOf
<1>7. /\ ConnectionState[c] = IF c \in pool THEN "free" ELSE "idle"
      /\ ConnectionState' = [ConnectionState EXCEPT ![c] = "queued"]
  BY <1>1, <1>3, <1>6, StateMoves
<1>8. \A d \in Conns : ConnectionState[d] = "queued" <=> d \in Queued
  <2>1. ConnectionState = [d \in Conns |-> StateOf(d)]
    BY <1>1, StateIsPlace
  <2>2. \A d \in Conns : StateOf(d) = "queued" <=> d \in Queued
    BY <1>4 DEF StateOf
  <2> QED BY <2>1, <2>2
<1>9. CurrentMessage' = [CurrentMessage EXCEPT ![c] = m]
  <2>1. CurrentMessage'[c] = m
    BY <1>2, <1>3 DEF CurrentMessage
  <2>2. ASSUME NEW d \in Conns, d # c PROVE CurrentMessage'[d] = CurrentMessage[d]
    BY <2>2, <1>2, <1>3 DEF CurrentMessage
  <2> QED BY <2>1, <2>2, <1>3, ZenonT(40) DEF CurrentMessage
<1>10. \A d \in Queued : CurrentMessage[d].service = conn[d].service
  BY <1>4 DEF CurrentMessage
<1>11. ASSUME NEW d \in Conns
       PROVE  Before(d, c)' <=> d \in Queued /\ conn[d].service = s
  <2>1. Before(d, c)' <=>
                    /\ d \in Queued' /\ c \in Queued'
                    /\ conn'[d].service = conn'[c].service
                    /\ Precedes(reqs'[Owner[conn'[c].service]], d, c)
    BY <1>3, BeforeQueuedNext
  <2>2. Precedes(Append(reqs[o], c), d, c) <=>
            Precedes(reqs[o], d, c) \/ (c = c /\ d \in Range(reqs[o]))
    BY <1>3, <1>5, AppendOrder
  <2>3. ~Precedes(reqs[o], d, c)
    BY <1>5 DEF Precedes, Range
  <2>4. Before(d, c)' <=>
                    /\ d \in Queued \cup {c}
                    /\ conn'[d].service = s
                    /\ d \in Range(reqs[o])
    BY <2>1, <2>2, <2>3, <1>2, ZenonT(40)
  <2>5. d \in Queued /\ conn[d].service = s => d \in Range(reqs[o])
    BY <1>1 DEF Queued, IndInv, OnePlace
  <2>6. d = c => d \notin Range(reqs[o])
    BY <1>5
  <2>7. d \in Queued => d # c /\ conn'[d] = conn[d]
    BY <1>2, <1>4
  <2> QED BY <2>4, <2>5, <2>6, <2>7
<1>12. ASSUME NEW d \in Conns, NEW e \in Conns, e # c PROVE Before(d, e)' <=> Before(d, e)
  <2>1. Before(d, e) <=>
                    /\ d \in Queued /\ e \in Queued
                    /\ conn[d].service = conn[e].service
                    /\ Precedes(reqs[Owner[conn[e].service]], d, e)
    BY <1>1, BeforeQueued
  <2>2. Before(d, e)' <=>
                    /\ d \in Queued' /\ e \in Queued'
                    /\ conn'[d].service = conn'[e].service
                    /\ Precedes(reqs'[Owner[conn'[e].service]], d, e)
    BY BeforeQueuedNext
  <2>3. conn'[e] = conn[e]
    BY <1>2, <1>12
  <2>4. ASSUME e \in Queued
        PROVE  Precedes(reqs'[Owner[conn[e].service]], d, e) <=>
               Precedes(reqs[Owner[conn[e].service]], d, e)
    <3>1. Owner[conn[e].service] \in Partitions
      <4>1. conn[e].service \in Services
        BY <2>4, <1>1, Places DEF Busy, Connection
      <4> QED BY <4>1
    <3>2. CASE Owner[conn[e].service] = o
      <4>1. Precedes(Append(reqs[o], c), d, e) <=>
               Precedes(reqs[o], d, e) \/ (e = c /\ d \in Range(reqs[o]))
        BY <1>3, <1>5, AppendOrder
      <4> QED BY <4>1, <3>2, <1>2, <1>12
    <3>3. CASE Owner[conn[e].service] # o
      BY <3>1, <3>3, <1>2
    <3> QED BY <3>2, <3>3
  <2>5. CASE d = c
    <3>1. ~Precedes(reqs[Owner[conn[e].service]], c, e) \/ e \notin Queued
      <4> SUFFICES ASSUME e \in Queued, Precedes(reqs[Owner[conn[e].service]], c, e)
                   PROVE  FALSE
        OBVIOUS
      <4> PICK q : q = Owner[conn[e].service]
        OBVIOUS
      <4>1. conn[e].service \in Services
        BY <1>1, Places DEF Busy, Connection
      <4>2. q \in Partitions /\ reqs[q] \in Seq(Conns)
        BY <4>1, <1>1 DEF Types
      <4>3. PICK i \in DOMAIN reqs[q] : \E j \in 1 .. i - 1 : reqs[q][j] = c
        BY DEF Precedes
      <4>4. PICK j \in 1 .. i - 1 : reqs[q][j] = c
        BY <4>3
      <4>5. j \in DOMAIN reqs[q]
        BY <4>2, <4>4
      <4>6. c \in Range(reqs[q])
        BY <4>4, <4>5 DEF Range
      <4> QED BY <4>6, <4>2, <1>3, <1>4 DEF Queued
    <3> QED BY <3>1, <2>1, <2>2, <2>3, <2>4, <2>5, <1>2, <1>12
  <2>6. CASE d # c
    <3>1. conn'[d] = conn[d]
      BY <2>6, <1>2
    <3> QED BY <3>1, <2>1, <2>2, <2>3, <2>4, <2>6, <1>2, <1>12
  <2> QED BY <2>5, <2>6
<1>13. MessagesAhead' = [MessagesAhead EXCEPT ![c] =
          {d \in Conns : ConnectionState[d] = "queued" /\ CurrentMessage[d].service = m.service}]
  <2>1. {d \in Conns : Before(d, c)'} =
          {d \in Conns : ConnectionState[d] = "queued" /\ CurrentMessage[d].service = m.service}
    <3>1. m.service = s
      OBVIOUS
    <3> QED BY <3>1, <1>8, <1>10, <1>11
  <2>2. ASSUME NEW e \in Conns, e # c
        PROVE  {d \in Conns : Before(d, e)'} = {d \in Conns : Before(d, e)}
    BY <2>2, <1>12
  <2> PICK A : A = {d \in Conns : /\ ConnectionState[d] = "queued"
                                  /\ CurrentMessage[d].service = m.service}
    OBVIOUS
  <2>3. MessagesAhead'[c] = A
    BY <2>1, <1>3 DEF MessagesAhead
  <2>4. \A e \in Conns \ {c} : MessagesAhead'[e] = MessagesAhead[e]
    BY <2>2 DEF MessagesAhead
  <2>5. /\ MessagesAhead = [e \in Conns |-> MessagesAhead[e]]
        /\ MessagesAhead' = [e \in Conns |-> MessagesAhead'[e]]
    BY DEF MessagesAhead
  <2>6. MessagesAhead' = [MessagesAhead EXCEPT ![c] = A]
    BY <2>3, <2>4, <2>5, <1>3
  <2> QED BY <2>6
<1>14. Abstract!Send(c, m)
  BY <1>7, <1>9, <1>13 DEF Abstract!Send
<1>15. CASE c \in pool
  <2>1. r.type = IF s \in Stateless THEN "CALL" ELSE "CONNECT"
    <3>1. HandlesOwn
      BY DEF FullInv, Lifecycle
    <3>2. c \notin held[k]
      BY <3>1, <1>15, <1>3 DEF HandlesOwn
    <3> QED BY <3>2 DEF Sends
  <2>2. m = [client |-> k, service |-> s,
             type |-> IF s \in Stateless THEN "CALL" ELSE "CONNECT"]
    BY <2>1, <1>3
  <2>3. Abstract!Open(c, k, s)
    BY <2>2, <1>7, <1>14, <1>15 DEF Abstract!Open
  <2> QED BY <2>3, <1>2, <1>3 DEF Abstract!Next
<1>16. CASE c \notin pool
  <2>1. /\ s = conn[c].service
        /\ conn[c].client_id = k
        /\ r.type \in {"CALL", "DISCONNECT"}
    BY <1>16 DEF Sends
  <2>2. CurrentMessage[c] = [client |-> k, service |-> s, type |-> conn[c].type]
    BY <2>1, <1>3, <1>16 DEF CurrentMessage
  <2>3. m = [CurrentMessage[c] EXCEPT !.type = r.type]
    BY <2>2, <1>3
  <2>4. Abstract!Use(c, r.type)
    BY <2>3, <1>7, <1>14, <1>16 DEF Abstract!Use
  <2> QED BY <2>1, <2>4, <1>3 DEF Abstract!Next
<1> QED BY <1>15, <1>16

(* Every step of the SPM is a step of RotConnection or changes nothing.    *)
LEMMA NextMaps ==
    ASSUME FullInv, FullInv', [Next]_vars
    PROVE  [Abstract!Next]_Abstract!avars
<1>0. IndInv /\ IndInv'
  BY DEF FullInv
<1>1. ASSUME pool' = pool, conn' = conn, reqs' = reqs, replied' = replied,
             served' = served, collecting' = collecting
      PROVE  UNCHANGED Abstract!avars
  <2>1. Queued' = Queued /\ Serving' = Serving /\ Answered' = Answered
    BY <1>1 DEF Queued, Serving, Answered
  <2> QED BY <2>1, <1>0, <1>1, QuietMaps
<1>2. CASE UNCHANGED vars
  BY <1>1, <1>2 DEF vars
<1>3. CASE Schedule
  <2>1. PICK p \in Partitions :
        /\ IF /\ waiting[p] \cap asserted[p] = {ASYNC}
              /\ ASYNC \notin SignalsAllowed(p)
           THEN TakeReply(p)
           ELSE UNCHANGED <<asserted, replied, pool, conn, held>>
    BY <1>3 DEF Schedule
  <2>2. UNCHANGED <<reqs, served, collecting>>
    BY <1>3 DEF Schedule
  <2>3. CASE waiting[p] \cap asserted[p] = {ASYNC} /\ ASYNC \notin SignalsAllowed(p)
    <3>1. TakeReply(p) /\ p # Agent
      BY <2>1, <2>3 DEF SignalsAllowed
    <3>2. PICK c : Collects(c)
      BY <3>1, <2>2, <2>3, <1>0, TakeCollects DEF FullInv, Lifecycle
    <3> QED BY <3>2, <1>0, CollectsMaps
  <2>4. CASE ~(waiting[p] \cap asserted[p] = {ASYNC} /\ ASYNC \notin SignalsAllowed(p))
    BY <2>1, <2>2, <2>4, <1>1
  <2> QED BY <2>3, <2>4
<1>4. CASE \E i \in Irqs : Interrupt(i)
  BY <1>1, <1>4 DEF Interrupt
<1>5. ASSUME NEW p \in Partitions \ {Idle}, ClientStep(p) PROVE Abstract!Next
  BY <1>0, <1>5, ClientSends, SendsMaps
<1>6. ASSUME NEW p \in Partitions \ {Idle}, ServiceStep(p)
      PROVE  [Abstract!Next]_Abstract!avars
  <2>1. CASE \E mask \in WaitMasks(p) : PsaWait(p, mask)
    BY <1>1, <2>1 DEF PsaWait
  <2>2. CASE \E s \in Services : PsaGet(p, s)
    BY <1>0, <2>2, GetMaps
  <2>3. CASE \E c \in Conns, ok \in BOOLEAN : PsaReply(p, c, ok)
    BY <1>0, <2>3, ReplyMaps
  <2>4. CASE \/ \E q \in Partitions : PsaNotify(p, q)
             \/ PsaClear(p)
             \/ \E i \in Irqs : \/ PsaEoi(p, i)
                                \/ PsaResetSignal(p, i)
                                \/ PsaIrqEnable(p, i)
                                \/ PsaIrqDisable(p, i)
    BY <1>1, <2>4 DEF PsaNotify, PsaClear, PsaEoi, PsaResetSignal, PsaIrqEnable, PsaIrqDisable
  <2> QED BY <1>6, <2>1, <2>2, <2>3, <2>4 DEF ServiceStep
<1>7. CASE AgentGetReply
  <2>1. /\ Queued' = Queued /\ Serving' = Serving /\ Answered' = Answered
        /\ UNCHANGED <<pool, conn, reqs, waiting, cur, pendsv, held>>
    BY <1>0, <1>7, AgentGetPlaces
  <2> QED BY <2>1, <1>0, QuietMaps
<1>8. CASE AgentHandleReply
  BY <1>0, <1>8, HandleCollects, CollectsMaps
<1>9. ASSUME NEW p \in Partitions, NEW mask \in WaitMasks(p), PsaPoll(p, mask)
      PROVE  UNCHANGED Abstract!avars
  BY <1>1, <1>9 DEF PsaPoll
<1> QED BY <1>2, <1>3, <1>4, <1>5, <1>6, <1>7, <1>8, <1>9 DEF Next

(* At the start nothing is allocated and nothing is queued.                *)
LEMMA InitMaps == Init => Abstract!Init
<1> USE PartitionAssumption, ServiceAssumption
<1> SUFFICES ASSUME Init PROVE Abstract!Init
  OBVIOUS
<1>1. pool = Conns
  BY DEF Init
<1>2. ConnectionState = [c \in Conns |-> "free"]
  <2>1. ConnectionState = [c \in Conns |-> StateOf(c)]
    BY InitInv, StateIsPlace
  <2> QED BY <2>1, <1>1 DEF StateOf
<1>3. CurrentMessage = [c \in Conns |-> Freed]
  BY <1>1 DEF CurrentMessage
<1>4. MessagesAhead = [c \in Conns |-> {}]
  <2>1. \A p \in Partitions : DOMAIN reqs[p] = {}
    BY DEF Init
  <2>2. \A c, d \in Conns : ~Before(d, c)
    BY <2>1 DEF Before
  <2> QED BY <2>2 DEF MessagesAhead
<1> QED BY <1>2, <1>3, <1>4 DEF Abstract!Init

-----------------------------------------------------------------------------
(* The SPM implements RotConnection: each message is taken first come first*)
(* served by its own service, answered once, and its connection goes back  *)
(* to the pool or to its client.                                           *)
THEOREM RotConnectionImplemented == Spec => ImplementsRotConnection
<1>1. Init => Abstract!Init
  BY InitMaps
<1>2. FullInv /\ FullInv' /\ [Next]_vars => [Abstract!Next]_Abstract!avars
  BY NextMaps
<1> QED BY <1>1, <1>2, FullInvariance, PTL DEF Spec, ImplementsRotConnection, Abstract!Spec

-----------------------------------------------------------------------------
(* The pool under the connections: tfm_pools.c with its links, and the     *)
(* frees of the mailbox agent's thread that others interrupt.              *)

Enumerates(s, n) ==
    /\ n \in Nat /\ s \in [1 .. n -> FreeChunks]
    /\ \A i, j \in 1 .. n : s[i] = s[j] => i = j
    /\ \A c \in FreeChunks : \E i \in 1 .. n : s[i] = c
    /\ next[0] = IF n = 0 THEN NULL ELSE s[1]
    /\ \A k \in 1 .. n : next[s[k]] = IF k = n THEN NULL ELSE s[k + 1]

(* The chunk that the agent frees is in use until the head points to it.   *)
PoolExact ==
    /\ next \in [Chunks \cup {0} -> Chunks \cup {NULL}]
    /\ users \in [Chunks -> {0, 1}]
    /\ magic = {c \in Chunks : users[c] = 1} \ {node}
    /\ \/ pc = "run" /\ node = NULL
       \/ pc \in {"link", "head"} /\ node \in Chunks /\ users[node] = 1
    /\ \E s, n : Enumerates(s, n)

PoolInv == moved \in BOOLEAN /\ (~moved => PoolExact)

LEMMA PoolBasics ==
    /\ HEAD = 0 /\ 0 \notin Chunks /\ NULL \notin Chunks /\ NULL # 0
    /\ Chunks \subseteq Nat
BY PoolAssumption DEF Chunks, HEAD

LEMMA PoolStarts == ASSUME PoolInit PROVE PoolInv
<1> PICK n : n = NumChunks
  OBVIOUS
<1>1. n \in Nat \ {0} /\ Chunks = 1 .. n
  BY PoolAssumption DEF Chunks
<1>2. /\ next = [x \in Chunks \cup {0} |->
                   IF x = 0 THEN n ELSE IF x = 1 THEN NULL ELSE x - 1]
      /\ magic = {} /\ users = [c \in Chunks |-> 0] /\ pc = "run" /\ node = NULL
      /\ moved = FALSE
  BY PoolBasics DEF PoolInit
<1>3. FreeChunks = 1 .. n
  BY <1>1, <1>2 DEF FreeChunks
<1> PICK s : s = [k \in 1 .. n |-> n + 1 - k]
  OBVIOUS
<1>4. \A k \in 1 .. n : s[k] = n + 1 - k /\ s[k] \in 1 .. n
  BY <1>1
<1>5. Enumerates(s, n)
  <2>1. s \in [1 .. n -> FreeChunks] /\ \A i, j \in 1 .. n : s[i] = s[j] => i = j
    BY <1>1, <1>3, <1>4
  <2>2. ASSUME NEW c \in FreeChunks PROVE \E i \in 1 .. n : s[i] = c
    <3>1. n + 1 - c \in 1 .. n /\ n + 1 - (n + 1 - c) = c
      BY <1>1, <1>3
    <3> QED BY <1>4, <3>1
  <2>3. next[0] = IF n = 0 THEN NULL ELSE s[1]
    BY <1>1, <1>2, <1>4
  <2>4. ASSUME NEW k \in 1 .. n PROVE next[s[k]] = IF k = n THEN NULL ELSE s[k + 1]
    <3>1. s[k] \in Chunks /\ s[k] # 0 /\ s[k] = n + 1 - k
      BY <1>1, <1>4
    <3>2. next[s[k]] = IF s[k] = 1 THEN NULL ELSE s[k] - 1
      BY <1>2, <3>1
    <3>3. CASE k = n
      BY <1>1, <3>1, <3>2, <3>3
    <3>4. CASE k # n
      <4>1. k + 1 \in 1 .. n /\ s[k + 1] = n + 1 - (k + 1)
        BY <1>1, <1>4, <3>4
      <4> QED BY <1>1, <3>1, <3>2, <3>4, <4>1
    <3> QED BY <3>3, <3>4
  <2> QED BY <1>1, <2>1, <2>2, <2>3, <2>4 DEF Enumerates
<1>6. /\ next \in [Chunks \cup {0} -> Chunks \cup {NULL}]
      /\ users \in [Chunks -> {0, 1}]
      /\ magic = {c \in Chunks : users[c] = 1} \ {node}
  BY <1>1, <1>2
<1> QED BY <1>2, <1>5, <1>6 DEF PoolInv, PoolExact

(* tfm_pool_alloc takes the first chunk.                                   *)
LEMMA PoolAlloc == ASSUME PoolExact, Alloc PROVE PoolExact'
<1>1. /\ 0 \notin Chunks /\ NULL \notin Chunks /\ 0 # NULL
      /\ \/ pc = "run" /\ node = NULL
         \/ pc \in {"link", "head"} /\ node \in Chunks /\ users[node] = 1
  BY PoolBasics DEF PoolExact
<1>2. PICK s, n : Enumerates(s, n)
  BY DEF PoolExact
<1> PICK h : h = next[0]
  OBVIOUS
<1>3. n \in Nat \ {0} /\ h = s[1] /\ 1 \in 1 .. n
  BY <1>2, PoolBasics DEF Enumerates, Alloc
<1>4. h \in Chunks /\ users[h] = 0 /\ h \in FreeChunks
  BY <1>2, <1>3 DEF Enumerates, FreeChunks
<1>5. /\ next \in [Chunks \cup {0} -> Chunks \cup {NULL}]
      /\ users \in [Chunks -> {0, 1}] /\ magic = {c \in Chunks : users[c] = 1} \ {node}
  BY DEF PoolExact
<1>6. /\ next' = [next EXCEPT ![0] = next[h], ![h] = NULL]
      /\ magic' = magic \cup {h} /\ users' = [users EXCEPT ![h] = @ + 1]
      /\ pc' = pc /\ node' = node
  BY PoolBasics DEF Alloc, RemoveFirst
<1>7. /\ next' \in [Chunks \cup {0} -> Chunks \cup {NULL}]
      /\ next'[0] = next[h]
      /\ \A c \in Chunks \ {h} : next'[c] = next[c]
  BY <1>1, <1>4, <1>5, <1>6
<1>8. users' = [users EXCEPT ![h] = 1]
  BY <1>4, <1>5, <1>6
<1>9. FreeChunks' = FreeChunks \ {h}
  BY <1>4, <1>5, <1>8 DEF FreeChunks
<1> PICK t : t = [k \in 1 .. n - 1 |-> s[k + 1]]
  OBVIOUS
<1>10. Enumerates(t, n - 1)'
  <2>1. \A k \in 1 .. n - 1 : k + 1 \in 1 .. n /\ t[k] = s[k + 1]
    BY <1>3
  <2>2. /\ \A i, j \in 1 .. n : s[i] = s[j] => i = j
        /\ \A i \in 1 .. n : s[i] \in FreeChunks
        /\ \A c \in FreeChunks : \E i \in 1 .. n : s[i] = c
        /\ \A k \in 1 .. n : next[s[k]] = IF k = n THEN NULL ELSE s[k + 1]
    BY <1>2 DEF Enumerates
  <2>3. \A k \in 1 .. n - 1 : t[k] # h /\ t[k] \in FreeChunks'
    BY <1>3, <1>9, <2>1, <2>2
  <2>4. n - 1 \in Nat /\ t \in [1 .. n - 1 -> FreeChunks']
    BY <1>3, <2>3
  <2>5. \A i, j \in 1 .. n - 1 : t[i] = t[j] => i = j
    BY <1>3, <2>1, <2>2
  <2>6. ASSUME NEW c \in FreeChunks' PROVE \E i \in 1 .. n - 1 : t[i] = c
    <3>1. PICK i \in 1 .. n : s[i] = c
      BY <1>9, <2>2
    <3>2. i # 1 /\ i - 1 \in 1 .. n - 1
      BY <1>3, <1>9, <3>1
    <3> QED BY <2>1, <3>1, <3>2
  <2>7. next'[0] = IF n - 1 = 0 THEN NULL ELSE t[1]
    BY <1>3, <1>7, <2>1, <2>2
  <2>8. ASSUME NEW k \in 1 .. n - 1
        PROVE next'[t[k]] = IF k = n - 1 THEN NULL ELSE t[k + 1]
    <3>1. next'[t[k]] = next[s[k + 1]]
      BY <1>7, <2>1, <2>3 DEF FreeChunks
    <3>2. next[s[k + 1]] = IF k + 1 = n THEN NULL ELSE s[k + 2]
      BY <1>3, <2>1, <2>2
    <3>3. k # n - 1 => k + 1 \in 1 .. n - 1 /\ t[k + 1] = s[k + 2]
      BY <1>3
    <3> QED BY <1>3, <3>1, <3>2, <3>3
  <2> QED BY <2>4, <2>5, <2>6, <2>7, <2>8 DEF Enumerates
<1>11. /\ users' \in [Chunks -> {0, 1}]
       /\ magic' = {c \in Chunks : users'[c] = 1} \ {node'}
  BY <1>1, <1>4, <1>5, <1>6, <1>8
<1> QED BY <1>1, <1>6, <1>7, <1>10, <1>11 DEF PoolExact

(* A chunk nobody has is put in front.  The chunk is linked already.       *)
LEMMA PoolInsert ==
    ASSUME PoolExact, NEW c \in Chunks, users[c] = 1,
           next' \in [Chunks \cup {0} -> Chunks \cup {NULL}],
           next'[0] = c, next'[c] = next[0],
           \A d \in Chunks \ {c} : next'[d] = next[d],
           users' = [users EXCEPT ![c] = 0],
           magic' = ({d \in Chunks : users[d] = 1} \ {c}) \ {node'},
           \/ pc' = "run" /\ node' = NULL
           \/ pc' \in {"link", "head"} /\ node' \in Chunks \ {c} /\ users[node'] = 1
    PROVE  PoolExact'
<1>1. 0 \notin Chunks /\ NULL \notin Chunks /\ 0 # NULL
  BY PoolBasics
<1>2. PICK s, n : Enumerates(s, n)
  BY DEF PoolExact
<1>3. /\ n \in Nat /\ s \in [1 .. n -> FreeChunks]
      /\ \A i, j \in 1 .. n : s[i] = s[j] => i = j
      /\ \A i \in 1 .. n : s[i] \in FreeChunks
      /\ \A d \in FreeChunks : \E i \in 1 .. n : s[i] = d
      /\ next[0] = IF n = 0 THEN NULL ELSE s[1]
      /\ \A k \in 1 .. n : next[s[k]] = IF k = n THEN NULL ELSE s[k + 1]
  BY <1>2 DEF Enumerates
<1>4. users \in [Chunks -> {0, 1}]
  BY DEF PoolExact
<1>5. FreeChunks' = FreeChunks \cup {c} /\ c \notin FreeChunks /\ FreeChunks \subseteq Chunks
  BY <1>4 DEF FreeChunks, Chunks
<1> PICK t : t = [k \in 1 .. n + 1 |-> IF k = 1 THEN c ELSE s[k - 1]]
  OBVIOUS
<1>6. /\ 1 \in 1 .. n + 1 /\ t[1] = c
      /\ \A k \in 1 .. n + 1 : k # 1 => k - 1 \in 1 .. n /\ t[k] = s[k - 1] /\ t[k] \in FreeChunks
  BY <1>3
<1>7. t \in [1 .. n + 1 -> FreeChunks'] /\ n + 1 \in Nat
  BY <1>3, <1>5, <1>6
<1>8. ASSUME NEW i \in 1 .. n + 1, NEW j \in 1 .. n + 1, t[i] = t[j] PROVE i = j
  <2>1. CASE i = 1 \/ j = 1
    BY <1>5, <1>6, <1>8, <2>1
  <2>2. CASE i # 1 /\ j # 1
    <3>1. i - 1 = j - 1
      BY <1>3, <1>6, <1>8, <2>2
    <3> QED BY <1>3, <3>1
  <2> QED BY <2>1, <2>2
<1>9. ASSUME NEW d \in FreeChunks' PROVE \E i \in 1 .. n + 1 : t[i] = d
  <2>1. CASE d = c
    BY <1>6, <2>1
  <2>2. CASE d # c
    <3>1. PICK i \in 1 .. n : s[i] = d
      BY <1>3, <1>5, <2>2
    <3>2. i + 1 \in 1 .. n + 1 /\ i + 1 # 1 /\ i + 1 - 1 = i
      BY <1>3
    <3> QED BY <1>6, <3>1, <3>2
  <2> QED BY <2>1, <2>2
<1>10. ASSUME NEW k \in 1 .. n + 1
       PROVE next'[t[k]] = IF k = n + 1 THEN NULL ELSE t[k + 1]
  <2>1. CASE k = 1
    <3>1. n # 0 => 2 \in 1 .. n + 1 /\ t[2] = s[1]
      BY <1>3, <1>6
    <3>2. n = 0 <=> k = n + 1
      BY <1>3, <2>1
    <3> QED BY <1>3, <1>6, <2>1, <3>1, <3>2
  <2>2. CASE k # 1
    <3>1. k - 1 \in 1 .. n /\ next'[t[k]] = next[s[k - 1]]
      BY <1>5, <1>6, <2>2
    <3>2. next[s[k - 1]] = IF k - 1 = n THEN NULL ELSE s[k]
      BY <1>3, <3>1
    <3>3. k # n + 1 => k + 1 \in 1 .. n + 1 /\ t[k + 1] = s[k]
      BY <1>3, <1>6
    <3> QED BY <1>3, <3>1, <3>2, <3>3
  <2> QED BY <2>1, <2>2
<1>11. Enumerates(t, n + 1)'
  <2>1. next'[0] = IF n + 1 = 0 THEN NULL ELSE t[1]
    BY <1>3, <1>6
  <2> QED BY <1>7, <1>8, <1>9, <1>10, <2>1 DEF Enumerates
<1>12. /\ users' \in [Chunks -> {0, 1}]
       /\ magic' = {d \in Chunks : users'[d] = 1} \ {node'}
  BY <1>1, <1>4
<1>13. node' \in Chunks \ {c} => users'[node'] = users[node']
  BY <1>4
<1> QED BY <1>11, <1>12, <1>13 DEF PoolExact

(* tfm_pool_free with the scheduler locked.                                *)
LEMMA PoolFree ==
    ASSUME PoolExact, NEW c \in Chunks, Free(c)
    PROVE  PoolExact'
<1>1. /\ next \in [Chunks \cup {0} -> Chunks \cup {NULL}]
      /\ magic = {d \in Chunks : users[d] = 1} \ {node} /\ 0 \notin Chunks
      /\ users \in [Chunks -> {0, 1}] /\ NULL \notin Chunks
      /\ \/ pc = "run" /\ node = NULL
         \/ pc \in {"link", "head"} /\ node \in Chunks /\ users[node] = 1
  BY PoolBasics DEF PoolExact
<1>2. /\ users[c] = 1 /\ magic' = magic \ {c} /\ c # node
      /\ next' = [next EXCEPT ![c] = next[0], ![0] = c]
      /\ users' = [users EXCEPT ![c] = 0] /\ pc' = pc /\ node' = node
  <2>1. /\ users[c] > 0 /\ magic' = magic \ {c} /\ c # node
        /\ next' = [next EXCEPT ![c] = next[0], ![0] = c]
        /\ users' = [users EXCEPT ![c] = users[c] - 1] /\ pc' = pc /\ node' = node
    BY PoolBasics DEF Free
  <2>2. users[c] = 1 /\ users[c] - 1 = 0
    BY <1>1, <2>1
  <2> QED BY <2>1, <2>2
<1>3. /\ next' \in [Chunks \cup {0} -> Chunks \cup {NULL}]
      /\ next'[0] = c /\ next'[c] = next[0] /\ \A d \in Chunks \ {c} : next'[d] = next[d]
  BY <1>1, <1>2
<1>4. magic' = ({d \in Chunks : users[d] = 1} \ {c}) \ {node'}
  BY <1>1, <1>2
<1> QED BY <1>1, <1>2, <1>3, <1>4, PoolInsert

(* tfm_pool_free in the agent's thread, store by store.                    *)
LEMMA PoolAgent ==
    ASSUME PoolExact, moved \in BOOLEAN, ~moved',
           \/ \E c \in Chunks : AgentFree(c)
           \/ AgentLink
           \/ AgentHead
    PROVE  PoolExact'
<1>1. /\ next \in [Chunks \cup {0} -> Chunks \cup {NULL}]
      /\ users \in [Chunks -> {0, 1}]
      /\ magic = {d \in Chunks : users[d] = 1} \ {node} /\ 0 \notin Chunks
      /\ NULL \notin Chunks
  BY PoolBasics DEF PoolExact
<1>2. ASSUME NEW c \in Chunks, AgentFree(c) PROVE PoolExact'
  <2>1. /\ pc = "run" /\ users[c] = 1 /\ node' = c /\ magic' = magic \ {c} /\ pc' = "link"
        /\ next' = next /\ users' = users /\ node = NULL
    BY <1>1, <1>2 DEF AgentFree, PoolExact
  <2>2. \E s, n : Enumerates(s, n)'
    <3>1. PICK s, n : Enumerates(s, n)
      BY DEF PoolExact
    <3>2. Enumerates(s, n)'
      BY <2>1, <3>1 DEF Enumerates, FreeChunks
    <3> QED BY <3>2
  <2>3. magic' = {d \in Chunks : users'[d] = 1} \ {node'}
    BY <1>1, <2>1
  <2> QED BY <1>1, <2>1, <2>2, <2>3 DEF PoolExact
<1>3. ASSUME AgentLink PROVE PoolExact'
  <2>1. /\ pc = "link" /\ next' = [next EXCEPT ![node] = next[0]] /\ pc' = "head"
        /\ magic' = magic /\ users' = users /\ node' = node
        /\ node \in Chunks /\ users[node] = 1
    BY <1>3, PoolBasics DEF AgentLink, PoolExact
  <2>2. /\ next' \in [Chunks \cup {0} -> Chunks \cup {NULL}]
        /\ next'[node] = next'[0] /\ next'[0] = next[0]
        /\ \A d \in Chunks \ {node} : next'[d] = next[d]
    BY <1>1, <2>1
  <2>3. PICK s, n : Enumerates(s, n)
    BY DEF PoolExact
  <2>4. \A k \in 1 .. n : s[k] \in Chunks \ {node}
    BY <2>1, <2>3 DEF Enumerates, FreeChunks
  <2>5. Enumerates(s, n)'
    BY <2>1, <2>2, <2>3, <2>4 DEF Enumerates, FreeChunks
  <2> QED BY <1>1, <2>1, <2>2, <2>5 DEF PoolExact
<1>4. ASSUME AgentHead PROVE PoolExact'
  <2>1. /\ next' = [next EXCEPT ![0] = node] /\ users' = [users EXCEPT ![node] = 0]
        /\ node' = NULL /\ pc' = "run" /\ magic' = magic
        /\ node \in Chunks /\ users[node] = 1 /\ next[node] = next[0]
    <3>1. next[0] = next[node]
      BY <1>4, PoolBasics DEF AgentHead
    <3>2. /\ next' = [next EXCEPT ![0] = node] /\ node' = NULL /\ pc' = "run"
          /\ users' = [users EXCEPT ![node] = users[node] - 1] /\ magic' = magic
          /\ pc = "head"
      BY <1>4, PoolBasics DEF AgentHead
    <3>3. node \in Chunks /\ users[node] = 1 /\ users[node] - 1 = 0
      BY <3>2 DEF PoolExact
    <3> QED BY <3>1, <3>2, <3>3
  <2>2. /\ next' \in [Chunks \cup {0} -> Chunks \cup {NULL}]
        /\ next'[0] = node /\ next'[node] = next[0]
        /\ \A d \in Chunks \ {node} : next'[d] = next[d]
    BY <1>1, <2>1
  <2>3. magic' = ({d \in Chunks : users[d] = 1} \ {node}) \ {node'}
    BY <1>1, <2>1
  <2> QED BY <2>1, <2>2, <2>3, PoolInsert
<1> QED BY <1>2, <1>3, <1>4

LEMMA PoolExactBy == ASSUME PoolInv PROVE FreeListExact
<1> SUFFICES ASSUME ~moved PROVE FreeListExact
  BY DEF FreeListExact
<1>0. PoolExact
  BY DEF PoolInv
<1>1. users \in [Chunks -> {0, 1}] /\ NULL \notin Chunks
  BY <1>0, PoolBasics DEF PoolExact
<1>2. PICK s, n : Enumerates(s, n)
  BY <1>0 DEF PoolExact
<1>3. /\ n \in Nat /\ s \in [1 .. n -> FreeChunks]
      /\ \A i, j \in 1 .. n : s[i] = s[j] => i = j
      /\ \A d \in FreeChunks : \E i \in 1 .. n : s[i] = d
      /\ next[0] = IF n = 0 THEN NULL ELSE s[1]
      /\ \A k \in 1 .. n : next[s[k]] = IF k = n THEN NULL ELSE s[k + 1]
  BY <1>2 DEF Enumerates
<1>4. n \in 0 .. NumChunks
  <2>1. NumChunks \in Nat /\ NumChunks >= 1
    BY PoolAssumption
  <2>2. IsFiniteSet(1 .. n) /\ Cardinality(1 .. n) = n
    BY <1>3, FS_Interval
  <2>3. IsFiniteSet(Chunks) /\ Cardinality(Chunks) = NumChunks
    BY <2>1, FS_Interval DEF Chunks
  <2>4. s \in [1 .. n -> Chunks]
    BY <1>3 DEF FreeChunks
  <2>5. ~(Cardinality(Chunks) < Cardinality(1 .. n))
    BY <1>3, <2>2, <2>3, <2>4, FS_PigeonHole
  <2> QED BY <1>3, <2>1, <2>2, <2>3, <2>5
<1>5. Chained(s, n)
  BY <1>3, PoolBasics DEF Chained
<1>6. magic = (Chunks \ FreeChunks) \ {node}
  BY <1>0, <1>1 DEF PoolExact, FreeChunks
<1> QED BY <1>3, <1>4, <1>5, <1>6, PoolBasics DEF FreeListExact

(* For any number of chunks, and with the frees of the agent's thread      *)
(* interrupted between any two stores: the free list holds exactly the     *)
(* chunks that nobody uses, each once, until the agent stores the head     *)
(* over one that moved since it read it (tfm_pool_alloc, tfm_pool_free).   *)
THEOREM PoolIsExact == PoolSpec => []FreeListExact
<1>1. PoolInit => PoolInv
  BY PoolStarts
<1>2. PoolInv /\ [PoolNext]_poolvars => PoolInv'
  <2> SUFFICES ASSUME PoolInv, [PoolNext]_poolvars PROVE PoolInv'
    OBVIOUS
  <2>0. moved' \in BOOLEAN /\ (~moved' => ~moved /\ PoolExact)
    BY DEF PoolInv, PoolNext, poolvars, Alloc, Free, AgentFree, AgentLink, AgentHead
  <2> SUFFICES ASSUME ~moved' PROVE PoolExact'
    BY <2>0 DEF PoolInv
  <2>1. CASE UNCHANGED poolvars
    <3>1. /\ next' = next /\ magic' = magic /\ users' = users /\ pc' = pc
          /\ node' = node
      BY <2>1 DEF poolvars
    <3>2. PICK s, n : Enumerates(s, n)
      BY <2>0 DEF PoolExact
    <3>3. Enumerates(s, n)'
      BY <3>1, <3>2 DEF Enumerates, FreeChunks
    <3> QED BY <2>0, <3>1, <3>3 DEF PoolExact
  <2>2. CASE PoolNext
    BY <2>0, <2>2, PoolBasics, PoolAlloc, PoolFree, PoolAgent DEF PoolNext, PoolInv
  <2> QED BY <2>1, <2>2
<1>3. PoolInv => FreeListExact
  BY PoolExactBy
<1> QED BY <1>1, <1>2, <1>3, PTL DEF PoolSpec
=============================================================================

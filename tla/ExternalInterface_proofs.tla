----------------------- MODULE ExternalInterface_proofs -----------------------
(***************************************************************************)
(* Proofs about ExternalInterface, for every set of guests, roles, clients *)
(* and requests and every length of the backlog.                           *)
(***************************************************************************)
EXTENDS ExternalInterface, FiniteSetTheorems, TLAPS

-----------------------------------------------------------------------------
(***************************************************************************)
(* The inductive invariant: who waits or is served has not been served     *)
(* before, and is in one place.                                            *)
(***************************************************************************)

ClientTypes ==
  /\ backlog \in Seq(Client)
  /\ client \in [Client -> {"away", "connected", "sent", "given_up", "done"}]
  /\ answer \in [Client -> Answers]
  /\ hit = [k \in Client |-> hit[k]]

\* A client that has not come to its end knows nothing, and nothing was done for it.
OpenIsUntold ==
  \A k \in Client :
    /\ client[k] \in {"away", "connected", "sent"} => answer[k] = "none" /\ hit[k] = {}
    /\ client[k] = "given_up" => answer[k] = "timeout"

Waiting == {"connected", "sent", "given_up"}

\* Each connection waits once and has not been served.
BacklogIsFresh ==
  /\ \A i \in DOMAIN backlog : client[backlog[i]] \in Waiting /\ hit[backlog[i]] = {}
  /\ \A i, j \in DOMAIN backlog : i # j => backlog[i] # backlog[j]

\* So has the client of the session, which waits no more; its packet is there when
\* the session handler has been called for it.
SessionIsFresh ==
  /\ session # "none" =>
       /\ session \in Client /\ client[session] \in Waiting /\ hit[session] = {}
       /\ \A i \in DOMAIN backlog : backlog[i] # session
  /\ dispatched => session # "none" /\ client[session] \in {"sent", "given_up"}

IInv == ClientTypes /\ OpenIsUntold /\ BacklogIsFresh /\ SessionIsFresh /\ AnswerIsTrue

LEMMA InitInv == Init => IInv
BY DEF Init, IInv, ClientTypes, OpenIsUntold, BacklogIsFresh, SessionIsFresh, AnswerIsTrue,
       Executed, Answers

-----------------------------------------------------------------------------
(***************************************************************************)
(* The execution of a command.                                             *)
(***************************************************************************)

\* A command concerns its client alone, whose answer agrees with what was done; the
\* client has its answer unless it has given up.
CommandEffect(k) ==
  /\ client' \in [Client -> {"away", "connected", "sent", "given_up", "done"}]
  /\ answer' \in [Client -> Answers]
  /\ hit' = [o \in Client |-> hit'[o]]
  /\ \A o \in Client : o # k => client'[o] = client[o] /\ answer'[o] = answer[o] /\ hit'[o] = hit[o]
  /\ client'[k] \in {"given_up", "done"}
  /\ client'[k] = "given_up" => answer'[k] = "timeout"
  /\ answer'[k] = "accept" => hit'[k] # {}
  /\ hit'[k] # {} => answer'[k] \in {"accept", "timeout"}

\* Respond writes the answer that is asked for, unless the client has given up.
LEMMA RespondEffect ==
  ASSUME ClientTypes, OpenIsUntold, NEW k \in Client, client[k] \in {"sent", "given_up"},
         NEW a \in Answers, Respond(k, a)
  PROVE  /\ client' \in [Client -> {"away", "connected", "sent", "given_up", "done"}]
         /\ answer' \in [Client -> Answers]
         /\ \A o \in Client : o # k => client'[o] = client[o] /\ answer'[o] = answer[o]
         /\ \/ client'[k] = "done" /\ answer'[k] = a
            \/ client'[k] = "given_up" /\ answer'[k] = "timeout"
BY DEF ClientTypes, OpenIsUntold, Respond

LEMMA ExecEffect ==
  ASSUME ClientTypes, OpenIsUntold, NEW k \in Client, client[k] \in {"sent", "given_up"},
         hit[k] = {}, Exec(k)
  PROVE  CommandEffect(k)
<1> DEFINE q == request[k]
<1>1. {"accept", "closed", "noname", "error", "list"} \subseteq Answers
  BY DEF Answers
<1>2. ASSUME CommandLifecycle(k) PROVE CommandEffect(k)
  <2>1. hit' = [hit EXCEPT ![k] = Targets(q)]
    BY <1>2 DEF CommandLifecycle
  <2>2. hit'[k] = Targets(q) /\ hit' = [o \in Client |-> hit'[o]]
        /\ \A o \in Client : o # k => hit'[o] = hit[o]
    BY <2>1 DEF ClientTypes
  <2>3. CASE Targets(q) # {}
    <3>1. Respond(k, "accept")
      BY <1>2, <2>3 DEF CommandLifecycle
    <3> QED
      BY <1>1, <2>2, <2>3, <3>1, RespondEffect DEF CommandEffect
  <2>4. CASE Targets(q) = {}
    <3>1. Respond(k, "closed")
      BY <1>2, <2>4 DEF CommandLifecycle
    <3> QED
      BY <1>1, <2>2, <2>4, <3>1, RespondEffect DEF CommandEffect
  <2> QED
    BY <2>3, <2>4
<1>3. ASSUME NEW a \in {"closed", "noname", "error", "list"}, Respond(k, a), hit' = hit
      PROVE  CommandEffect(k)
  <2>1. a \in Answers /\ a # "accept"
    BY <1>1
  <2>2. hit'[k] = {} /\ hit' = [o \in Client |-> hit'[o]] /\ \A o \in Client : hit'[o] = hit[o]
    BY <1>3 DEF ClientTypes
  <2> QED
    BY <1>3, <2>1, <2>2, RespondEffect DEF CommandEffect
<1>4. ASSUME NEW c, Respond(k, "accept"), hit' = [hit EXCEPT ![k] = {c}]
      PROVE  CommandEffect(k)
  <2>1. hit'[k] # {} /\ hit' = [o \in Client |-> hit'[o]]
        /\ \A o \in Client : o # k => hit'[o] = hit[o]
    BY <1>4 DEF ClientTypes
  <2> QED
    BY <1>1, <1>4, <2>1, RespondEffect DEF CommandEffect
<1>5. ASSUME CommandChange(k) PROVE CommandEffect(k)
  <2>1. \/ Respond(k, "noname") /\ hit' = hit
        \/ Respond(k, "error") /\ hit' = hit
        \/ \E c : Respond(k, "accept") /\ hit' = [hit EXCEPT ![k] = {c}]
    BY <1>5 DEF CommandChange
  <2> QED
    BY <1>3, <1>4, <2>1
<1>6. \/ CommandLifecycle(k) \/ CommandChange(k)
      \/ (Respond(k, "list") \/ Respond(k, "closed")) /\ hit' = hit
  BY DEF Exec, CommandGet
<1> QED
  BY <1>2, <1>3, <1>5, <1>6

-----------------------------------------------------------------------------
(***************************************************************************)
(* Every step.                                                             *)
(***************************************************************************)

\* The head of the backlog waits no more.
LEMMA TailOfBacklog ==
  ASSUME ClientTypes, BacklogIsFresh, backlog # <<>>, backlog' = Tail(backlog)
  PROVE  /\ Head(backlog) \in Client /\ client[Head(backlog)] \in Waiting /\ hit[Head(backlog)] = {}
         /\ backlog' \in Seq(Client)
         /\ \A i \in DOMAIN backlog' :
              /\ backlog'[i] \in Client /\ client[backlog'[i]] \in Waiting /\ hit[backlog'[i]] = {}
              /\ backlog'[i] # Head(backlog)
              /\ \A k : (\A j \in DOMAIN backlog : backlog[j] # k) => backlog'[i] # k
         /\ \A i, j \in DOMAIN backlog' : i # j => backlog'[i] # backlog'[j]
<1> DEFINE n == Len(backlog)
<1>1. backlog \in Seq(Client) /\ n \in Nat \ {0} /\ DOMAIN backlog = 1 .. n
  BY DEF ClientTypes
<1>2. /\ Head(backlog) = backlog[1] /\ backlog' \in Seq(Client) /\ Len(backlog') = n - 1
      /\ \A i \in 1 .. (n - 1) : backlog'[i] = backlog[i + 1]
  BY <1>1
<1>3. DOMAIN backlog' = 1 .. (n - 1) /\ \A i \in 1 .. n : backlog[i] \in Client
  BY <1>1, <1>2
<1> HIDE DEF n
<1>4. 1 \in DOMAIN backlog /\ \A i \in DOMAIN backlog' : i + 1 \in DOMAIN backlog /\ i + 1 # 1
  BY <1>1, <1>3
<1>5. \A i, j \in DOMAIN backlog' : i # j => i + 1 # j + 1
  BY <1>1, <1>3
<1>6. \A i, j \in DOMAIN backlog' : i # j => backlog'[i] # backlog'[j]
  BY <1>2, <1>3, <1>4, <1>5 DEF BacklogIsFresh
<1>7. ASSUME NEW i \in DOMAIN backlog'
      PROVE  /\ backlog'[i] \in Client /\ client[backlog'[i]] \in Waiting /\ hit[backlog'[i]] = {}
             /\ backlog'[i] # Head(backlog)
             /\ \A k : (\A j \in DOMAIN backlog : backlog[j] # k) => backlog'[i] # k
  BY <1>1, <1>2, <1>3, <1>4 DEF BacklogIsFresh
<1> QED
  BY <1>1, <1>2, <1>3, <1>4, <1>6, <1>7 DEF BacklogIsFresh

LEMMA IncomingInv ==
  ASSUME IInv, Incoming
  PROVE  IInv'
<1> USE DEF IInv
<1> DEFINE k == Head(backlog)
<1>1. backlog # <<>> /\ backlog' = Tail(backlog) /\ ~ dispatched /\ dispatched' = dispatched
  BY DEF Incoming
<1>2. k \in Client /\ client[k] \in Waiting /\ hit[k] = {}
  BY <1>1, TailOfBacklog
<1>3. /\ backlog' \in Seq(Client)
      /\ \A i \in DOMAIN backlog' :
           /\ backlog'[i] \in Client /\ client[backlog'[i]] \in Waiting /\ hit[backlog'[i]] = {}
           /\ backlog'[i] # k /\ (session # "none" => backlog'[i] # session)
      /\ \A i, j \in DOMAIN backlog' : i # j => backlog'[i] # backlog'[j]
  BY <1>1, TailOfBacklog DEF SessionIsFresh
<1>4. CASE session = "none"
  <2>1. session' = k /\ UNCHANGED <<client, request, answer, hit>>
    BY <1>4 DEF Incoming, clientVars
  <2>2. ClientTypes' /\ OpenIsUntold' /\ AnswerIsTrue'
    BY <1>3, <2>1 DEF ClientTypes, OpenIsUntold, AnswerIsTrue, Executed
  <2> HIDE DEF k
  <2>3. BacklogIsFresh' /\ SessionIsFresh'
    BY <1>1, <1>2, <1>3, <2>1 DEF BacklogIsFresh, SessionIsFresh
  <2> QED
    BY <2>2, <2>3
<1>5. CASE session # "none"
  <2>1. /\ UNCHANGED <<session, request, hit>>
        /\ client' = [client EXCEPT ![k] = IF client[k] = "given_up" THEN client[k] ELSE "done"]
        /\ answer' = [answer EXCEPT ![k] = IF client[k] = "given_up" THEN answer[k] ELSE "closed"]
    BY <1>5 DEF Incoming
  <2> HIDE DEF k
  <2>2. /\ client'[k] \in {"given_up", "done"}
        /\ client'[k] = "given_up" => answer'[k] = "timeout"
        /\ answer'[k] # "accept"
        /\ \A o \in Client : o # k => client'[o] = client[o] /\ answer'[o] = answer[o]
    BY <1>2, <2>1 DEF ClientTypes, OpenIsUntold
  <2>3. ClientTypes'
    BY <1>3, <2>1 DEF ClientTypes, Answers
  <2>4. OpenIsUntold'
    BY <2>1, <2>2 DEF OpenIsUntold
  <2>5. AnswerIsTrue'
    BY <1>2, <2>1, <2>2 DEF AnswerIsTrue, Executed
  <2>6. BacklogIsFresh'
    BY <1>3, <2>1, <2>2 DEF BacklogIsFresh
  <2>7. SessionIsFresh'
    <3>1. session # k
      <4>1. k = backlog[1] /\ 1 \in DOMAIN backlog
        BY <1>1 DEF k, ClientTypes
      <4> QED
        BY <1>5, <4>1 DEF SessionIsFresh
    <3> QED
      BY <1>1, <1>3, <1>5, <2>1, <2>2, <3>1 DEF SessionIsFresh
  <2> QED
    BY <2>3, <2>4, <2>5, <2>6, <2>7
<1> QED
  BY <1>4, <1>5

LEMMA SessionExecInv ==
  ASSUME IInv, SessionExec
  PROVE  IInv'
<1> USE DEF IInv
<1>1. /\ session \in Client /\ client[session] \in {"sent", "given_up"} /\ hit[session] = {}
      /\ \A i \in DOMAIN backlog : backlog[i] # session
  BY DEF SessionExec, SessionIsFresh
<1>2. Exec(session) /\ session' = "none" /\ dispatched' = FALSE /\ backlog' = backlog
  BY DEF SessionExec
<1>3. CommandEffect(session)
  BY <1>1, <1>2, ExecEffect
<1>4. ClientTypes'
  BY <1>2, <1>3 DEF ClientTypes, CommandEffect
<1>5. OpenIsUntold'
  BY <1>1, <1>3 DEF OpenIsUntold, CommandEffect
<1>6. BacklogIsFresh'
  <2>1. \A i \in DOMAIN backlog : backlog[i] \in Client
    BY DEF ClientTypes
  <2> QED
    BY <1>1, <1>2, <1>3, <2>1 DEF BacklogIsFresh, CommandEffect
<1>7. SessionIsFresh'
  BY <1>2 DEF SessionIsFresh
<1>8. AnswerIsTrue'
  BY <1>1, <1>3 DEF AnswerIsTrue, Executed, CommandEffect
<1> QED
  BY <1>4, <1>5, <1>6, <1>7, <1>8

LEMMA ManagerInv ==
  ASSUME IInv, Manager \/ ManagerEnds \/ \E c \in Guest : LifeCycle(c)
  PROVE  IInv'
<1> USE DEF IInv
<1>1. CASE SessionHangup
  <2>1. UNCHANGED <<backlog, dispatched, client, answer, hit>> /\ session' = "none" /\ ~ dispatched
    BY <1>1 DEF SessionHangup, clientVars
  <2> QED
    BY <2>1 DEF ClientTypes, OpenIsUntold, BacklogIsFresh, SessionIsFresh, AnswerIsTrue, Executed
<1>2. CASE SessionReadable
  <2>1. /\ UNCHANGED <<backlog, session, client, answer, hit>>
        /\ session # "none" /\ client[session] = "sent"
    BY <1>2 DEF SessionReadable, clientVars
  <2> QED
    BY <2>1 DEF ClientTypes, OpenIsUntold, BacklogIsFresh, SessionIsFresh, AnswerIsTrue, Executed
<1>3. CASE ManagerEnds
  <2> DEFINE open == {k \in Client : client[k] \in {"connected", "sent"}}
  <2>1. /\ backlog' = <<>> /\ session' = "none" /\ ~ dispatched /\ dispatched' = dispatched
        /\ hit' = hit
        /\ client' = [k \in Client |-> IF k \in open THEN "done" ELSE client[k]]
        /\ answer' = [k \in Client |-> IF k \in open THEN "closed" ELSE answer[k]]
    BY <1>3 DEF ManagerEnds
  <2>2. \A k \in open : hit[k] = {}
    BY DEF OpenIsUntold
  <2> HIDE DEF open
  <2>3. ClientTypes'
    BY <2>1 DEF ClientTypes, Answers
  <2>4. OpenIsUntold'
    BY <2>1 DEF OpenIsUntold
  <2>5. AnswerIsTrue'
    BY <2>1, <2>2 DEF AnswerIsTrue, Executed
  <2>6. BacklogIsFresh' /\ SessionIsFresh'
    BY <2>1 DEF BacklogIsFresh, SessionIsFresh
  <2> QED
    BY <2>3, <2>4, <2>5, <2>6
<1>4. ASSUME NEW c \in Guest, LifeCycle(c) PROVE IInv'
  <2>1. UNCHANGED <<backlog, session, dispatched, client, answer, hit>>
    BY <1>4 DEF LifeCycle, socketVars, clientVars
  <2> QED
    BY <2>1 DEF ClientTypes, OpenIsUntold, BacklogIsFresh, SessionIsFresh, AnswerIsTrue, Executed
<1> QED
  BY <1>1, <1>2, <1>3, <1>4, IncomingInv, SessionExecInv DEF Manager

LEMMA ClientInv ==
  ASSUME IInv, NEW k \in Client, Connect(k) \/ SendPacket(k) \/ GiveUp(k)
  PROVE  IInv'
<1> USE DEF IInv
<1>1. UNCHANGED <<session, dispatched, hit>>
  BY DEF Connect, SendPacket, GiveUp, ServerUnchanged
<1>2. CASE Connect(k)
  <2>1. client[k] = "away" /\ hit[k] = {} /\ \A i \in DOMAIN backlog : backlog[i] # k
    BY <1>2 DEF Connect, OpenIsUntold, BacklogIsFresh, Waiting
  <2>2. session # "none" => session # k
    BY <2>1 DEF SessionIsFresh, Waiting
  <2>3. CASE up /\ Len(backlog) < MaxBacklog
    <3>1. /\ client' = [client EXCEPT ![k] = "connected"] /\ backlog' = Append(backlog, k)
          /\ answer' = answer
      BY <1>2, <2>3 DEF Connect
    <3> DEFINE n == Len(backlog)
    <3>2. /\ n \in Nat /\ DOMAIN backlog = 1 .. n
          /\ backlog' \in Seq(Client) /\ DOMAIN backlog' = 1 .. (n + 1)
          /\ backlog'[n + 1] = k /\ \A i \in 1 .. n : backlog'[i] = backlog[i] /\ backlog[i] \in Client
      BY <3>1 DEF ClientTypes
    <3> HIDE DEF n
    <3>3. \A i \in DOMAIN backlog' : i \in DOMAIN backlog \/ i = n + 1
      BY <3>2
    <3>4. /\ client'[k] = "connected"
          /\ \A o \in Client : o # k => client'[o] = client[o]
      BY <3>1 DEF ClientTypes
    <3>5. ClientTypes' /\ OpenIsUntold' /\ AnswerIsTrue'
      BY <1>1, <2>1, <3>1, <3>2 DEF ClientTypes, OpenIsUntold, AnswerIsTrue, Executed
    <3>6. BacklogIsFresh'
      BY <1>1, <2>1, <3>2, <3>3, <3>4 DEF BacklogIsFresh, Waiting
    <3>7. SessionIsFresh'
      BY <1>1, <2>2, <3>2, <3>3, <3>4 DEF SessionIsFresh
    <3> QED
      BY <3>5, <3>6, <3>7
  <2>4. CASE ~ (up /\ Len(backlog) < MaxBacklog)
    <3>1. /\ client' = [client EXCEPT ![k] = "done"] /\ answer' = [answer EXCEPT ![k] = "busy"]
          /\ backlog' = backlog
      BY <1>2, <2>4 DEF Connect
    <3>2. ClientTypes' /\ OpenIsUntold' /\ AnswerIsTrue'
      BY <1>1, <2>1, <3>1 DEF ClientTypes, OpenIsUntold, AnswerIsTrue, Executed, Answers
    <3>3. \A o \in Client : o # k => client'[o] = client[o]
      BY <3>1 DEF ClientTypes
    <3>4. \A i \in DOMAIN backlog : backlog[i] \in Client
      BY DEF ClientTypes
    <3>5. BacklogIsFresh' /\ SessionIsFresh'
      BY <1>1, <2>1, <2>2, <3>1, <3>3, <3>4 DEF BacklogIsFresh, SessionIsFresh
    <3> QED
      BY <3>2, <3>5
  <2> QED
    BY <2>3, <2>4
<1>3. CASE SendPacket(k)
  <2>1. /\ client[k] = "connected" /\ client' = [client EXCEPT ![k] = "sent"]
        /\ UNCHANGED <<backlog, answer>>
    BY <1>3 DEF SendPacket
  <2>2. ClientTypes' /\ OpenIsUntold' /\ AnswerIsTrue'
    BY <1>1, <2>1 DEF ClientTypes, OpenIsUntold, AnswerIsTrue, Executed
  <2>3. \A o \in Client : client[o] \in Waiting => client'[o] \in Waiting
    BY <2>1 DEF ClientTypes, Waiting
  <2>4. \A i \in DOMAIN backlog : backlog[i] \in Client
    BY DEF ClientTypes
  <2>5. BacklogIsFresh'
    BY <1>1, <2>1, <2>3, <2>4 DEF BacklogIsFresh
  <2>6. SessionIsFresh'
    BY <1>1, <2>1, <2>3 DEF SessionIsFresh, ClientTypes
  <2> QED
    BY <2>2, <2>5, <2>6
<1>4. CASE GiveUp(k)
  <2>1. /\ client[k] \in {"connected", "sent"} /\ client' = [client EXCEPT ![k] = "given_up"]
        /\ answer' = [answer EXCEPT ![k] = "timeout"] /\ backlog' = backlog
    BY <1>4 DEF GiveUp
  <2>2. ClientTypes' /\ OpenIsUntold'
    BY <1>1, <2>1 DEF ClientTypes, OpenIsUntold, Answers
  <2>3. AnswerIsTrue'
    BY <1>1, <2>1 DEF ClientTypes, AnswerIsTrue, Executed
  <2>4. \A o \in Client : client[o] \in Waiting => client'[o] \in Waiting
    BY <2>1 DEF ClientTypes, Waiting
  <2>5. \A i \in DOMAIN backlog : backlog[i] \in Client
    BY DEF ClientTypes
  <2>6. BacklogIsFresh'
    BY <1>1, <2>1, <2>4, <2>5 DEF BacklogIsFresh
  <2>7. SessionIsFresh'
    BY <1>1, <2>1, <2>4 DEF SessionIsFresh, ClientTypes
  <2> QED
    BY <2>2, <2>3, <2>6, <2>7
<1> QED
  BY <1>2, <1>3, <1>4

LEMMA NextInv == IInv /\ [Next]_vars => IInv'
<1> SUFFICES ASSUME IInv, [Next]_vars PROVE IInv'
  OBVIOUS
<1>1. CASE Next
  BY <1>1, ManagerInv, ClientInv DEF Next
<1>2. CASE UNCHANGED vars
  <2>1. UNCHANGED <<backlog, session, dispatched, client, answer, hit>>
    BY <1>2 DEF vars, socketVars, clientVars
  <2> QED
    BY <2>1 DEF IInv, ClientTypes, OpenIsUntold, BacklogIsFresh, SessionIsFresh, AnswerIsTrue, Executed
<1> QED
  BY <1>1, <1>2

LEMMA Invariance == Spec => []IInv
BY InitInv, NextInv, PTL DEF Spec

-----------------------------------------------------------------------------
(***************************************************************************)
(* Lemmas about numbers and sequences.                                     *)
(***************************************************************************)

\* The least-number principle, from which the inductions of this module follow.
LEMMA LeastNumber ==
  ASSUME NEW T \in SUBSET Nat, T # {}
  PROVE  \E n \in T : \A m \in T : n <= m
<1> DEFINE R == OpToRel(<, Nat)
<1>1. IsWellFoundedOn(R, Nat)
  BY NatLessThanWellFounded
<1>2. \A x, y \in Nat : x < y => <<x, y>> \in R
  BY DEF OpToRel
<1> HIDE DEF R
<1>3. PICK n \in T : \A m \in T : ~ <<m, n>> \in R
  BY <1>1, WFMin
<1>4. \A m \in T : ~ (m < n)
  BY <1>2, <1>3
<1>5. \A m, k \in Nat : ~ (m < k) => k <= m
  OBVIOUS
<1> QED
  BY <1>4, <1>5

LEMMA MinIsMember ==
  ASSUME NEW T \in SUBSET Nat, T # {}
  PROVE  Min(T) \in T
BY LeastNumber DEF Min

LEMMA ToSetMember ==
  ASSUME NEW list, NEW e
  PROVE  e \in ToSet(list) <=> \E i \in DOMAIN list : list[i] = e
BY DEF ToSet

\* A sequence that gets a new first element.
LEMMA PushFront ==
  ASSUME NEW S, NEW list \in Seq(S), NEW e \in S, e \notin ToSet(list), IsInjective(list)
  PROVE  LET new == <<e>> \o list IN
           /\ new \in Seq(S) /\ ToSet(new) = ToSet(list) \cup {e} /\ IsInjective(new)
           /\ DOMAIN new = 1 .. (Len(list) + 1) /\ new[1] = e
           /\ \A i \in 1 .. (Len(list) + 1) : i # 1 => i - 1 \in DOMAIN list /\ new[i] = list[i - 1]
<1> DEFINE new == <<e>> \o list
           n == Len(list)
<1>1. n \in Nat /\ DOMAIN list = 1 .. n
  OBVIOUS
<1>2. new \in Seq(S) /\ DOMAIN new = 1 .. (n + 1) /\ new[1] = e
  <2>1. <<e>> \in Seq(S) /\ Len(<<e>>) = 1 /\ <<e>>[1] = e
    OBVIOUS
  <2> QED
    BY <1>1, <2>1
<1>3. \A i \in 1 .. (n + 1) : i # 1 => i - 1 \in 1 .. n /\ new[i] = list[i - 1]
  BY <1>1, <1>2
<1> HIDE DEF new, n
<1>4. ToSet(new) = ToSet(list) \cup {e}
  <2>1. ASSUME NEW i \in 1 .. n PROVE new[i + 1] = list[i] /\ i + 1 \in 1 .. (n + 1)
    <3>1. i + 1 \in 1 .. (n + 1) /\ i + 1 # 1 /\ i + 1 - 1 = i
      BY <1>1
    <3> QED
      BY <1>3, <3>1
  <2>2. 1 \in 1 .. (n + 1)
    BY <1>1
  <2>3. ASSUME NEW x PROVE x \in ToSet(new) <=> x \in ToSet(list) \/ x = e
    <3>1. (\E i \in 1 .. (n + 1) : new[i] = x) <=> (\E i \in 1 .. n : list[i] = x) \/ x = e
      BY <1>2, <1>3, <2>1, <2>2
    <3> QED
      BY <1>1, <1>2, <3>1, ToSetMember
  <2> QED
    BY <2>3
<1>5. IsInjective(new)
  <2> SUFFICES ASSUME NEW i \in 1 .. (n + 1), NEW j \in 1 .. (n + 1), new[i] = new[j]
               PROVE  i = j
    BY <1>2 DEF IsInjective
  <2>1. \A k \in 1 .. n : list[k] # e
    BY <1>1 DEF ToSet
  <2>2. CASE i = 1 \/ j = 1
    BY <1>2, <1>3, <2>1, <2>2
  <2>3. CASE i # 1 /\ j # 1
    <3>1. i - 1 = j - 1
      BY <1>1, <1>3, <2>3 DEF IsInjective
    <3> QED
      BY <1>1, <3>1
  <2> QED
    BY <2>2, <2>3
<1> QED
  BY <1>1, <1>2, <1>3, <1>4, <1>5 DEF new, n

\* A sequence that gets a new last element.
LEMMA PushBack ==
  ASSUME NEW S, NEW list \in Seq(S), NEW e \in S, e \notin ToSet(list), IsInjective(list)
  PROVE  LET new == Append(list, e) IN
           /\ new \in Seq(S) /\ ToSet(new) = ToSet(list) \cup {e} /\ IsInjective(new)
           /\ DOMAIN new = 1 .. (Len(list) + 1) /\ new[Len(list) + 1] = e
           /\ \A i \in 1 .. (Len(list) + 1) :
                i # Len(list) + 1 => i \in DOMAIN list /\ new[i] = list[i]
<1> DEFINE new == Append(list, e)
           n == Len(list)
<1>1. n \in Nat /\ DOMAIN list = 1 .. n
  OBVIOUS
<1>2. new \in Seq(S) /\ DOMAIN new = 1 .. (n + 1) /\ new[n + 1] = e
  OBVIOUS
<1>3. \A i \in 1 .. (n + 1) : i # n + 1 => i \in 1 .. n /\ new[i] = list[i]
  OBVIOUS
<1> HIDE DEF new, n
<1>4. ToSet(new) = ToSet(list) \cup {e}
  <2>1. \A i \in 1 .. n : i \in 1 .. (n + 1) /\ i # n + 1
    BY <1>1
  <2>2. n + 1 \in 1 .. (n + 1)
    BY <1>1
  <2> QED
    BY <1>1, <1>2, <1>3, <2>1, <2>2 DEF ToSet
<1>5. IsInjective(new)
  BY <1>1, <1>2, <1>3 DEF IsInjective, ToSet
<1> QED
  BY <1>1, <1>2, <1>3, <1>4, <1>5 DEF new, n

\* The rotation loses no element.
LEMMA RotatedList ==
  ASSUME NEW S, NEW list \in Seq(S), list # <<>>, IsInjective(list)
  PROVE  /\ Rotated(list) \in Seq(S) /\ ToSet(Rotated(list)) = ToSet(list)
         /\ IsInjective(Rotated(list))
<1> DEFINE rest == Tail(list)
           n == Len(list)
<1>1. /\ n \in Nat \ {0} /\ DOMAIN list = 1 .. n /\ Head(list) = list[1] /\ list[1] \in S
      /\ rest \in Seq(S) /\ DOMAIN rest = 1 .. (n - 1)
      /\ \A i \in 1 .. (n - 1) : rest[i] = list[i + 1]
  OBVIOUS
<1> HIDE DEF rest, n
<1>2. /\ \A i \in 1 .. (n - 1) : i + 1 \in 1 .. n /\ i + 1 # 1
      /\ \A i \in 1 .. n : i # 1 => i - 1 \in 1 .. (n - 1) /\ i - 1 + 1 = i
      /\ 1 \in 1 .. n
  BY <1>1
<1>3. Head(list) \notin ToSet(rest)
  <2>1. ASSUME NEW i \in 1 .. (n - 1) PROVE rest[i] # list[1]
    <3>1. rest[i] = list[i + 1] /\ i + 1 \in 1 .. n /\ i + 1 # 1 /\ 1 \in 1 .. n
      BY <1>1, <1>2
    <3> QED
      BY <1>1, <3>1 DEF IsInjective
  <2> QED
    BY <1>1, <2>1, ToSetMember
<1>4. ToSet(rest) \cup {Head(list)} = ToSet(list)
  <2>1. ASSUME NEW x PROVE x \in ToSet(rest) \/ x = list[1] <=> x \in ToSet(list)
    <3>1. ASSUME NEW i \in 1 .. n, list[i] = x, x # list[1] PROVE \E j \in 1 .. (n - 1) : rest[j] = x
      <4>1. i - 1 \in 1 .. (n - 1) /\ rest[i - 1] = list[i]
        BY <1>1, <1>2, <3>1
      <4> QED
        BY <3>1, <4>1
    <3>2. (\E j \in 1 .. (n - 1) : rest[j] = x) \/ x = list[1] <=> \E i \in 1 .. n : list[i] = x
      BY <1>1, <1>2, <3>1
    <3> QED
      BY <1>1, <3>2, ToSetMember
  <2> QED
    BY <1>1, <2>1
<1>5. IsInjective(rest)
  <2> SUFFICES ASSUME NEW i \in 1 .. (n - 1), NEW j \in 1 .. (n - 1), rest[i] = rest[j]
               PROVE  i = j
    BY <1>1 DEF IsInjective
  <2>1. i + 1 = j + 1
    BY <1>1, <1>2 DEF IsInjective
  <2> QED
    BY <1>1, <2>1
<1>6. Rotated(list) = Append(rest, Head(list))
  BY DEF Rotated, rest
<1>7. Head(list) \in S /\ rest \in Seq(S)
  BY <1>1
<1>8. LET new == Append(rest, Head(list)) IN
        new \in Seq(S) /\ ToSet(new) = ToSet(rest) \cup {Head(list)} /\ IsInjective(new)
  BY <1>3, <1>5, <1>7, PushBack
<1> QED
  BY <1>4, <1>6, <1>8

\* Nor does the move to the front.
LEMMA MovedList ==
  ASSUME NEW S, NEW list \in Seq(S), IsInjective(list), NEW i \in DOMAIN list
  PROVE  LET new == MoveToFront(list, i) IN
           /\ new \in Seq(S) /\ ToSet(new) = ToSet(list) /\ IsInjective(new)
           /\ Head(new) = list[i]
<1> DEFINE n == Len(list)
           rest == RemoveAt(list, i)
<1>1. n \in Nat /\ DOMAIN list = 1 .. n /\ i \in 1 .. n /\ \A j \in 1 .. n : list[j] \in S
  OBVIOUS
<1>2. /\ rest \in Seq(S) /\ DOMAIN rest = 1 .. (n - 1)
      /\ \A j \in 1 .. (n - 1) : rest[j] = IF j < i THEN list[j] ELSE list[j + 1]
  <2> DEFINE a == SubSeq(list, 1, i - 1)
             b == SubSeq(list, i + 1, n)
  <2>1. /\ a \in Seq(S) /\ Len(a) = i - 1 /\ \A j \in 1 .. (i - 1) : a[j] = list[j]
        /\ b \in Seq(S) /\ Len(b) = n - i /\ \A j \in 1 .. (n - i) : b[j] = list[i + j]
    <3>1. i - 1 \in Nat /\ n - i \in Nat /\ n - (i + 1) + 1 = n - i
      BY <1>1
    <3>2. \A j \in 1 .. (i - 1) : list[j] \in S /\ 1 + j - 1 = j
      BY <1>1
    <3>3. \A j \in (i + 1) .. n : list[j] \in S
      BY <1>1
    <3>4. a \in Seq(S) /\ Len(a) = i - 1 /\ \A j \in 1 .. (i - 1) : a[j] = list[j]
      BY <3>1, <3>2
    <3>5. b \in Seq(S) /\ Len(b) = n - i /\ \A j \in 1 .. (n - i) : b[j] = list[i + j]
      BY <3>1, <3>3
    <3> QED
      BY <3>4, <3>5
  <2>2. rest = a \o b
    BY DEF RemoveAt
  <2> HIDE DEF a, b, n, rest
  <2>3. rest \in Seq(S) /\ Len(rest) = (i - 1) + (n - i)
    <3>1. a \in Seq(S) /\ b \in Seq(S)
      BY <2>1
    <3>2. a \o b \in Seq(S) /\ Len(a \o b) = Len(a) + Len(b)
      BY <3>1
    <3> QED
      BY <2>1, <2>2, <3>2
  <2>4. Len(rest) = n - 1 /\ DOMAIN rest = 1 .. (n - 1)
    BY <1>1, <2>3
  <2>5. \A j \in 1 .. (n - 1) : rest[j] = IF j <= i - 1 THEN a[j] ELSE b[j - (i - 1)]
    BY <1>1, <2>1, <2>2, <2>4
  <2>6. ASSUME NEW j \in 1 .. (n - 1) PROVE rest[j] = IF j < i THEN list[j] ELSE list[j + 1]
    <3>1. CASE j < i
      BY <1>1, <2>1, <2>5, <3>1
    <3>2. CASE ~ (j < i)
      <4>1. ~ (j <= i - 1) /\ j - (i - 1) \in 1 .. (n - i) /\ i + (j - (i - 1)) = j + 1
        BY <1>1, <3>2
      <4> QED
        BY <2>1, <2>5, <3>2, <4>1
    <3> QED
      BY <3>1, <3>2
  <2> QED
    BY <2>3, <2>4, <2>6
<1> HIDE DEF n, rest
<1> DEFINE From(j) == IF j < i THEN j ELSE j + 1
<1>3. /\ \A j \in 1 .. (n - 1) : From(j) \in 1 .. n /\ From(j) # i /\ rest[j] = list[From(j)]
      /\ \A j, k \in 1 .. (n - 1) : From(j) = From(k) => j = k
      /\ \A k \in 1 .. n : k # i => \E j \in 1 .. (n - 1) : From(j) = k
  <2>1. ASSUME NEW k \in 1 .. n, k # i PROVE \E j \in 1 .. (n - 1) : From(j) = k
    <3>1. CASE k < i
      BY <1>1, <2>1, <3>1
    <3>2. CASE ~ (k < i)
      <4>1. k - 1 \in 1 .. (n - 1) /\ From(k - 1) = k
        BY <1>1, <2>1, <3>2
      <4> QED
        BY <4>1
    <3> QED
      BY <3>1, <3>2
  <2> QED
    BY <1>1, <1>2, <2>1
<1> HIDE DEF From
<1>4. list[i] \notin ToSet(rest) /\ ToSet(rest) \cup {list[i]} = ToSet(list)
  <2>1. \A j \in 1 .. (n - 1) : rest[j] # list[i]
    BY <1>1, <1>3 DEF IsInjective
  <2>2. ASSUME NEW x PROVE x \in ToSet(rest) \/ x = list[i] <=> x \in ToSet(list)
    <3>1. (\E j \in 1 .. (n - 1) : rest[j] = x) \/ x = list[i] <=> \E k \in 1 .. n : list[k] = x
      BY <1>1, <1>3
    <3> QED
      BY <1>1, <1>2, <3>1, ToSetMember
  <2>3. list[i] \notin ToSet(rest)
    <3>1. DOMAIN rest = 1 .. (n - 1)
      BY <1>2
    <3> QED
      BY <2>1, <3>1, ToSetMember
  <2> QED
    BY <2>2, <2>3
<1>5. IsInjective(rest)
  BY <1>1, <1>2, <1>3 DEF IsInjective
<1>6. MoveToFront(list, i) = <<list[i]>> \o rest
  BY DEF MoveToFront, rest
<1>7. /\ MoveToFront(list, i) \in Seq(S) /\ IsInjective(MoveToFront(list, i))
      /\ ToSet(MoveToFront(list, i)) = ToSet(list) /\ MoveToFront(list, i)[1] = list[i]
  <2>1. list[i] \in S /\ rest \in Seq(S) /\ list[i] \notin ToSet(rest)
    BY <1>1, <1>2, <1>4
  <2>2. LET new == <<list[i]>> \o rest IN
          /\ new \in Seq(S) /\ ToSet(new) = ToSet(rest) \cup {list[i]} /\ IsInjective(new)
          /\ new[1] = list[i]
    BY <1>5, <2>1, PushFront
  <2> QED
    BY <1>4, <1>6, <2>2
<1> QED
  BY <1>7

-----------------------------------------------------------------------------
(***************************************************************************)
(* The start: bind_container_to_role_list, guest by guest.                 *)
(***************************************************************************)

\* The manager has each guest once.
BootOrderIsFixed == containers \in Seq(Guest) /\ IsInjective(containers)

\* The guests of a role among the first n in boot order.
Bound(n, r) == {c \in Guest : RoleOf[c] = r /\ \E i \in 1 .. n : containers[i] = c}

InBootOrder(list) == \A i, j \in DOMAIN list : i < j => Precedes(list[i], list[j])

\* What the list of a role is when its guests are those in members.
Lists(list, members) ==
  /\ list \in Seq(Guest \cup {Dummy}) /\ IsInjective(list)
  /\ ToSet(list) = members \cup {Dummy} /\ InBootOrder(list)

\* What the lists are when the first n guests have been bound.
BoundTo(lists, n) ==
  /\ lists = [r \in Roles |-> lists[r]]
  /\ \A r \in Roles : IF Bound(n, r) = {} THEN lists[r] = <<>> ELSE Lists(lists[r], Bound(n, r))

LEMMA DirectoryOrder ==
  ASSUME containers \in BootOrders
  PROVE  BootOrderIsFixed
<1>1. PICK s \in SUBSET Guest : containers \in SetToSeqs(s)
  BY DEF BootOrders
<1>2. Cardinality(s) \in Nat
  BY ExternalAssumption, FS_Subset, FS_CardinalityType
<1>3. /\ containers \in [1 .. Cardinality(s) -> s]
      /\ \A i, j \in 1 .. Cardinality(s) : i # j => containers[i] # containers[j]
  BY <1>1 DEF SetToSeqs
<1>4. containers \in Seq(Guest)
  BY <1>2, <1>3
<1> QED
  BY <1>3, <1>4 DEF BootOrderIsFixed, IsInjective

\* A guest with autoboot goes to the top of its list, another one to the tail, and
\* either way the order is kept.
LEMMA BindOne ==
  ASSUME BootOrderIsFixed, NEW n \in Nat, n < Len(containers), NEW lists, BoundTo(lists, n)
  PROVE  BoundTo(BindGuest(lists, containers[n + 1]), n + 1)
<1> DEFINE c == containers[n + 1]
           r == RoleOf[c]
           S == Guest \cup {Dummy}
           list == IF lists[r] = <<>> THEN <<Dummy>> ELSE lists[r]
           new == IF c \in Autoboot THEN <<c>> \o list ELSE Append(list, c)
<1>1. /\ DOMAIN containers = 1 .. Len(containers) /\ Len(containers) \in Nat
      /\ n + 1 \in 1 .. Len(containers) /\ c \in Guest /\ r \in Roles /\ c # Dummy
  <2>1. n + 1 \in 1 .. Len(containers) /\ c \in Guest
    BY DEF BootOrderIsFixed
  <2>2. r \in Roles /\ c # Dummy
    BY <2>1, ExternalAssumption DEF Roles
  <2> HIDE DEF c, r
  <2> QED
    BY <2>1, <2>2 DEF BootOrderIsFixed
<1>2. \A i \in 1 .. n : i \in 1 .. Len(containers) /\ i < n + 1 /\ containers[i] # c
  BY <1>1 DEF BootOrderIsFixed, IsInjective
<1>3. \A i \in 1 .. (n + 1) : i \in 1 .. n \/ i = n + 1
  OBVIOUS
<1>4. 1 .. n \subseteq 1 .. (n + 1) /\ n + 1 \in 1 .. (n + 1)
  OBVIOUS
<1>5. Bound(n + 1, r) = Bound(n, r) \cup {c} /\ c \notin Bound(n, r)
      /\ \A q \in Roles : q # r => Bound(n + 1, q) = Bound(n, q)
  <2> HIDE DEF c
  <2>1. ASSUME NEW d \in Guest
        PROVE  (\E i \in 1 .. (n + 1) : containers[i] = d) <=> (\E i \in 1 .. n : containers[i] = d) \/ d = c
    BY <1>3, <1>4 DEF c
  <2>2. \A i \in 1 .. n : containers[i] # c
    BY <1>2
  <2> QED
    BY <1>1, <2>1, <2>2 DEF Bound
<1>6. \A d \in Bound(n, r) : BootsBefore(d, c)
  BY <1>1, <1>2 DEF Bound, BootsBefore
<1>7. Lists(list, Bound(n, r))
  <2>1. CASE Bound(n, r) = {}
    <3>1. list = <<Dummy>>
      BY <1>1, <2>1 DEF BoundTo
    <3>2. <<Dummy>> \in Seq(S) /\ DOMAIN <<Dummy>> = {1} /\ <<Dummy>>[1] = Dummy
      OBVIOUS
    <3>3. ToSet(<<Dummy>>) = {Dummy}
      BY <3>2 DEF ToSet
    <3>4. ~ (1 < 1)
      OBVIOUS
    <3> HIDE DEF list
    <3> QED
      BY <2>1, <3>1, <3>2, <3>3, <3>4 DEF Lists, IsInjective, InBootOrder
  <2>2. CASE Bound(n, r) # {}
    <3>1. Lists(lists[r], Bound(n, r))
      BY <1>1, <2>2 DEF BoundTo
    <3>2. lists[r] # <<>>
      <4>1. ASSUME lists[r] = <<>> PROVE DOMAIN lists[r] = {}
        BY <4>1
      <4> QED
        BY <3>1, <4>1, ToSetMember DEF Lists
    <3> QED
      BY <3>1, <3>2
  <2> QED
    BY <2>1, <2>2
<1> HIDE DEF c, r, list
<1>8. c \in S /\ c \notin ToSet(list) /\ Len(list) \in Nat /\ DOMAIN list = 1 .. Len(list)
  BY <1>1, <1>5, <1>7 DEF Lists
<1>9. Lists(new, Bound(n + 1, r))
  <2>1. CASE c \in Autoboot
    <3>1. /\ new \in Seq(S) /\ ToSet(new) = ToSet(list) \cup {c} /\ IsInjective(new)
          /\ DOMAIN new = 1 .. (Len(list) + 1) /\ new[1] = c
          /\ \A i \in 1 .. (Len(list) + 1) : i # 1 => i - 1 \in DOMAIN list /\ new[i] = list[i - 1]
      <4>1. new = <<c>> \o list
        BY <2>1
      <4> HIDE DEF new
      <4> QED
        BY <1>7, <1>8, <4>1, PushFront DEF Lists
    <3> HIDE DEF new
    <3>2. ASSUME NEW i \in DOMAIN new, NEW j \in DOMAIN new, i < j PROVE Precedes(new[i], new[j])
      <4>1. j # 1 /\ j - 1 \in DOMAIN list /\ new[j] = list[j - 1]
        BY <1>8, <3>1, <3>2
      <4>2. CASE i = 1
        <5>1. list[j - 1] \in Bound(n, r) \cup {Dummy}
          BY <1>7, <4>1, ToSetMember DEF Lists
        <5> QED
          BY <1>6, <2>1, <3>1, <4>1, <4>2, <5>1, ExternalAssumption DEF Precedes
      <4>3. CASE i # 1
        <5>1. i - 1 \in DOMAIN list /\ new[i] = list[i - 1] /\ i - 1 < j - 1
          BY <1>8, <3>1, <3>2, <4>3
        <5> QED
          BY <1>7, <4>1, <5>1 DEF Lists, InBootOrder
      <4> QED
        BY <4>2, <4>3
    <3> QED
      BY <1>5, <1>7, <3>1, <3>2 DEF Lists, InBootOrder
  <2>2. CASE c \notin Autoboot
    <3>1. /\ new \in Seq(S) /\ ToSet(new) = ToSet(list) \cup {c} /\ IsInjective(new)
          /\ DOMAIN new = 1 .. (Len(list) + 1) /\ new[Len(list) + 1] = c
          /\ \A i \in 1 .. (Len(list) + 1) : i # Len(list) + 1 => i \in DOMAIN list /\ new[i] = list[i]
      <4>1. new = Append(list, c)
        BY <2>2
      <4> HIDE DEF new
      <4> QED
        BY <1>7, <1>8, <4>1, PushBack DEF Lists
    <3> HIDE DEF new
    <3>2. ASSUME NEW i \in DOMAIN new, NEW j \in DOMAIN new, i < j PROVE Precedes(new[i], new[j])
      <4>1. i # Len(list) + 1 /\ i \in DOMAIN list /\ new[i] = list[i]
        BY <1>8, <3>1, <3>2
      <4>2. CASE j = Len(list) + 1
        <5>1. list[i] \in Bound(n, r) \cup {Dummy}
          BY <1>7, <4>1, ToSetMember DEF Lists
        <5> QED
          BY <1>1, <1>6, <2>2, <3>1, <4>1, <4>2, <5>1 DEF Precedes
      <4>3. CASE j # Len(list) + 1
        BY <1>7, <3>1, <3>2, <4>1, <4>3 DEF Lists, InBootOrder
      <4> QED
        BY <4>2, <4>3
    <3> QED
      BY <1>5, <1>7, <3>1, <3>2 DEF Lists, InBootOrder
  <2> QED
    BY <2>1, <2>2
<1>10. BindGuest(lists, c) = [lists EXCEPT ![r] = new]
  BY DEF BindGuest, list, r
<1> HIDE DEF new
<1>11. c \in Bound(n + 1, r)
  BY <1>5
<1>12. BoundTo(BindGuest(lists, c), n + 1)
  <2>1. BindGuest(lists, c) = [q \in Roles |-> IF q = r THEN new ELSE lists[q]]
    BY <1>10 DEF BoundTo
  <2> QED
    BY <1>1, <1>5, <1>9, <1>11, <2>1 DEF BoundTo
<1> QED
  BY <1>12 DEF c

\* The lists after the first guests in boot order exist, and are what they should be.
\* By induction on the number of guests.
LEMMA BindAll ==
  ASSUME BootOrderIsFixed
  PROVE  BoundTo(BindToRoleList(containers), Len(containers))
<1> DEFINE empty == [r \in Roles |-> <<>>]
           N == Len(containers)
           After(f, n) == IF n = 0 THEN empty ELSE BindGuest(f[n - 1], containers[n])
           Defines(f, n) == f = [m \in 0 .. n |-> f[m]] /\ \A m \in 0 .. n : f[m] = After(f, m)
<1>1. N \in Nat
  BY DEF BootOrderIsFixed
<1> HIDE DEF N, empty
<1>2. \A n \in 0 .. N : \E f : Defines(f, n)
  <2> DEFINE T == {n \in Nat : n <= N /\ ~ \E f : Defines(f, n)}
  <2> SUFFICES ASSUME T # {} PROVE FALSE
    BY <1>1
  <2>1. PICK n \in T : \A m \in T : n <= m
    BY LeastNumber
  <2>2. n # 0
    <3> DEFINE f == [m \in 0 .. 0 |-> empty]
    <3>1. Defines(f, 0)
      OBVIOUS
    <3> QED
      BY <2>1, <3>1
  <2>3. n - 1 \in Nat /\ n - 1 <= N /\ ~ (n <= n - 1)
    BY <1>1, <2>1, <2>2
  <2>4. n - 1 \notin T
    BY <2>1, <2>3
  <2>5. PICK f : Defines(f, n - 1)
    BY <2>3, <2>4
  <2> DEFINE g == [m \in 0 .. n |-> IF m = n THEN BindGuest(f[n - 1], containers[n]) ELSE f[m]]
  <2>6. \A m \in 0 .. n : m # n => m \in 0 .. (n - 1) /\ (m # 0 => m - 1 \in 0 .. (n - 1) /\ m - 1 # n)
    BY <2>1
  <2>7. n - 1 \in 0 .. n /\ n - 1 # n /\ n \in 0 .. n
    BY <2>1, <2>2
  <2>8. \A m \in 0 .. n : g[m] = After(g, m)
    <3>1. ASSUME NEW m \in 0 .. n, m # n PROVE g[m] = After(g, m)
      <4>1. g[m] = f[m] /\ f[m] = After(f, m)
        BY <2>5, <2>6, <3>1
      <4>2. m # 0 => m - 1 \in 0 .. n /\ m - 1 # n /\ g[m - 1] = f[m - 1]
        BY <2>1, <2>6, <3>1
      <4> QED
        BY <4>1, <4>2
    <3>2. g[n] = After(g, n)
      BY <2>2, <2>7
    <3> QED
      BY <3>1, <3>2
  <2>9. Defines(g, n)
    BY <2>8
  <2> QED
    BY <2>1, <2>9
<1> DEFINE lists == CHOOSE f : f = [n \in 0 .. N |-> After(f, n)]
<1>3. lists = [n \in 0 .. N |-> After(lists, n)]
  <2>1. PICK f : Defines(f, N)
    BY <1>1, <1>2
  <2>2. f = [n \in 0 .. N |-> After(f, n)]
    BY <2>1
  <2> QED
    BY <2>2
<1>4. BindToRoleList(containers) = lists[N]
  BY DEF BindToRoleList, N, empty
<1> HIDE DEF lists
<1>5. \A n \in 0 .. N : BoundTo(lists[n], n)
  <2> DEFINE T == {n \in Nat : n <= N /\ ~ BoundTo(lists[n], n)}
  <2> SUFFICES ASSUME T # {} PROVE FALSE
    BY <1>1
  <2>1. PICK n \in T : \A m \in T : n <= m
    BY LeastNumber
  <2>2. n # 0
    <3>1. lists[0] = empty
      BY <1>1, <1>3
    <3>2. \A r : Bound(0, r) = {}
      BY DEF Bound
    <3> QED
      BY <2>1, <3>1, <3>2 DEF BoundTo, empty
  <2>3. n - 1 \in Nat /\ n - 1 <= N /\ ~ (n <= n - 1) /\ n - 1 < N /\ n - 1 + 1 = n /\ n \in 0 .. N
    BY <1>1, <2>1, <2>2
  <2>4. BoundTo(lists[n - 1], n - 1)
    BY <2>1, <2>3
  <2>5. BoundTo(BindGuest(lists[n - 1], containers[n - 1 + 1]), n - 1 + 1)
    BY <2>3, <2>4, BindOne DEF N
  <2>6. lists[n] = BindGuest(lists[n - 1], containers[n])
    BY <1>3, <2>2, <2>3
  <2> QED
    BY <2>1, <2>3, <2>5, <2>6
<1>6. BoundTo(lists[N], N)
  BY <1>1, <1>5
<1> QED
  BY <1>4, <1>6 DEF N

\* The terminator is at the head exactly when no guest has autoboot.
LEMMA HeadOfOrder ==
  ASSUME NEW members \in SUBSET Guest, NEW list, Lists(list, members)
  PROVE  Head(list) # Dummy <=> members \cap Autoboot # {}
<1>1. Len(list) \in Nat /\ DOMAIN list = 1 .. Len(list)
  BY DEF Lists
<1>2. PICK d \in DOMAIN list : list[d] = Dummy
  BY ToSetMember DEF Lists
<1>3. 1 \in DOMAIN list /\ Head(list) = list[1] /\ \A i \in DOMAIN list : i # 1 => 1 < i
  BY <1>1, <1>2 DEF Lists
<1>4. ASSUME list[1] # Dummy PROVE members \cap Autoboot # {}
  <2>1. Precedes(list[1], Dummy)
    BY <1>2, <1>3, <1>4 DEF Lists, InBootOrder
  <2>2. list[1] \in Autoboot
    BY <2>1 DEF Precedes
  <2>3. list[1] \in members
    BY <1>3, <1>4, ToSetMember DEF Lists
  <2> QED
    BY <2>2, <2>3
<1>5. ASSUME NEW c \in members \cap Autoboot PROVE list[1] # Dummy
  <2>1. PICK i \in DOMAIN list : list[i] = c
    BY ToSetMember DEF Lists
  <2>2. SUFFICES ASSUME list[1] = Dummy PROVE FALSE
    OBVIOUS
  <2>3. c # Dummy /\ Dummy \notin Autoboot
    BY ExternalAssumption
  <2>4. Precedes(Dummy, c)
    BY <1>3, <2>1, <2>2, <2>3 DEF Lists, InBootOrder
  <2> QED
    BY <2>3, <2>4 DEF Precedes
<1> QED
  BY <1>3, <1>4, <1>5

-----------------------------------------------------------------------------
(***************************************************************************)
(* The role lists, which only a change command touches.                    *)
(***************************************************************************)

ListInv ==
  /\ BootOrderIsFixed
  /\ role_list \in [Roles -> Seq(Guest \cup {Dummy})]
  /\ RoleListsAgree

LEMMA InitLists == Init => ListInv
<1> SUFFICES ASSUME Init PROVE ListInv
  OBVIOUS
<1> DEFINE N == Len(containers)
<1>1. BootOrderIsFixed
  BY DirectoryOrder DEF Init
<1>2. BoundTo(role_list, N)
  BY <1>1, BindAll DEF Init
<1>3. \A r \in Roles : Bound(N, r) = Members(r) /\ Members(r) \in SUBSET Guest
  <2>1. DOMAIN containers = 1 .. N /\ \A i \in 1 .. N : containers[i] \in Guest
    BY <1>1 DEF BootOrderIsFixed
  <2> HIDE DEF N
  <2> QED
    BY <2>1 DEF Bound, Members, ToSet
<1> HIDE DEF N
<1>4. role_list \in [Roles -> Seq(Guest \cup {Dummy})]
  <2>1. <<>> \in Seq(Guest \cup {Dummy})
    OBVIOUS
  <2> QED
    BY <1>2, <2>1 DEF BoundTo, Lists
<1>5. ASSUME NEW c \in ToSet(containers)
      PROVE  Lists(role_list[RoleOf[c]], Members(RoleOf[c])) /\ Members(RoleOf[c]) \in SUBSET Guest
  <2>1. c \in Guest /\ RoleOf[c] \in Roles
    BY <1>1, ToSetMember DEF BootOrderIsFixed, Roles
  <2>2. c \in Members(RoleOf[c])
    BY DEF Members
  <2> QED
    BY <1>2, <1>3, <2>1, <2>2 DEF BoundTo
<1>6. RoleListsAgree
  <2> SUFFICES ASSUME NEW c \in ToSet(containers)
               PROVE  LET r == RoleOf[c]
                          list == role_list[r] IN
                        /\ ToSet(list) = Members(r) \cup {Dummy} /\ IsInjective(list)
                        /\ Head(list) # Dummy <=> Members(r) \cap Autoboot # {}
                        /\ \A i, j \in DOMAIN list : i < j => Precedes(list[i], list[j])
    BY DEF RoleListsAgree
  <2> QED
    BY <1>5, HeadOfOrder DEF Lists, InBootOrder
<1> QED
  BY <1>1, <1>4, <1>6 DEF ListInv

\* A role keeps its list, or gets another with the same guests and one of them at its
\* head, which is on record as changed.
LEMMA ListsKept ==
  ASSUME ListInv, UNCHANGED <<containers, request>>,
         role_list' = [r \in Roles |-> role_list'[r]],
         \A r \in Roles : Changed(r) => Changed(r)',
         \A r \in {RoleOf[c] : c \in ToSet(containers)} :
           \/ role_list'[r] = role_list[r]
           \/ /\ role_list'[r] \in Seq(Guest \cup {Dummy}) /\ IsInjective(role_list'[r])
              /\ ToSet(role_list'[r]) = ToSet(role_list[r])
              /\ Head(role_list'[r]) # Dummy /\ Head(role_list[r]) # Dummy
              /\ Changed(r)',
         \A r \in Roles : r \notin {RoleOf[c] : c \in ToSet(containers)} => role_list'[r] = role_list[r]
  PROVE  ListInv'
<1>1. BootOrderIsFixed'
  BY DEF ListInv, BootOrderIsFixed
<1>2. role_list' \in [Roles -> Seq(Guest \cup {Dummy})]
  BY DEF ListInv
<1>3. /\ ToSet(containers)' = ToSet(containers) /\ \A r : Members(r)' = Members(r)
      /\ \A a, b : Precedes(a, b)' <=> Precedes(a, b)
  BY DEF Members, Precedes, BootsBefore, ToSet
<1>4. ASSUME NEW r \in {RoleOf[c] : c \in ToSet(containers)}
      PROVE  /\ ToSet(role_list'[r]) = Members(r) \cup {Dummy} /\ IsInjective(role_list'[r])
             /\ Head(role_list'[r]) # Dummy <=> Members(r) \cap Autoboot # {}
             /\ ~ Changed(r)' => \A i, j \in DOMAIN role_list'[r] : i < j =>
                                   Precedes(role_list'[r][i], role_list'[r][j])
  <2>1. r \in Roles
    BY ToSetMember DEF ListInv, BootOrderIsFixed, Roles
  <2>2. /\ ToSet(role_list[r]) = Members(r) \cup {Dummy} /\ IsInjective(role_list[r])
        /\ Head(role_list[r]) # Dummy <=> Members(r) \cap Autoboot # {}
        /\ ~ Changed(r) => \A i, j \in DOMAIN role_list[r] : i < j =>
                              Precedes(role_list[r][i], role_list[r][j])
    BY DEF ListInv, RoleListsAgree
  <2>3. CASE role_list'[r] = role_list[r]
    BY <2>1, <2>2, <2>3
  <2>4. CASE role_list'[r] # role_list[r]
    BY <2>1, <2>2, <2>4
  <2> QED
    BY <2>3, <2>4
<1>5. RoleListsAgree'
  <2>1. \A r \in {RoleOf[c] : c \in ToSet(containers)} :
          /\ ToSet(role_list'[r]) = Members(r)' \cup {Dummy} /\ IsInjective(role_list'[r])
          /\ Head(role_list'[r]) # Dummy <=> Members(r)' \cap Autoboot # {}
          /\ ~ Changed(r)' => \A i, j \in DOMAIN role_list'[r] : i < j =>
                                Precedes(role_list'[r][i], role_list'[r][j])
    BY <1>3, <1>4
  <2> QED
    BY <1>3, <2>1 DEF RoleListsAgree
<1> QED
  BY <1>1, <1>2, <1>5 DEF ListInv

\* The guest that a client names is found in the list of its role, and goes to the
\* front of what is there.
LEMMA ChangeLists ==
  ASSUME IInv, ListInv, NEW k \in Client, request[k].command = "change", hit[k] = {},
         CommandChange(k), UNCHANGED <<containers, request>>,
         \A r \in Roles : Changed(r) => Changed(r)'
  PROVE  ListInv'
<1> DEFINE name == request[k].name
           named == NamedAt(containers, name)
           r == RoleOf[containers[Min(named)]]
           list == role_list[r]
           rotated == Rotated(list)
           i == Min(NamedAt(rotated, name))
<1>1. CASE role_list' = role_list
  BY <1>1, ListsKept DEF ListInv
<1>2. CASE role_list' # role_list
  <2>1. /\ named # {} /\ CanChange(list)
        /\ role_list' = [role_list EXCEPT ![r] = MoveToFront(rotated, i)]
        /\ hit' = [hit EXCEPT ![k] = {rotated[i]}]
    BY <1>2 DEF CommandChange
  <2> DEFINE c == containers[Min(named)]
  <2>2. c \in ToSet(containers) /\ c \in Guest /\ NameOf[c] = name
    <3>1. named \in SUBSET Nat
      BY DEF ListInv, BootOrderIsFixed, NamedAt
    <3>2. Min(named) \in named
      BY <2>1, <3>1, MinIsMember
    <3> HIDE DEF named
    <3>3. Min(named) \in DOMAIN containers /\ NameOf[containers[Min(named)]] = name
      BY <3>2 DEF named, NamedAt
    <3> QED
      BY <3>3, ToSetMember DEF ListInv, BootOrderIsFixed
  <2>3. r = RoleOf[c]
    OBVIOUS
  <2> HIDE DEF c, r
  <2>4. r \in {RoleOf[d] : d \in ToSet(containers)} /\ r \in Roles /\ c \in Members(r) /\ c # Dummy
    BY <2>2, <2>3, ExternalAssumption DEF Roles, Members
  <2>5. /\ list \in Seq(Guest \cup {Dummy}) /\ IsInjective(list)
        /\ ToSet(list) = Members(r) \cup {Dummy}
    BY <2>4 DEF ListInv, RoleListsAgree
  <2>6. list # <<>>
    <3>1. ASSUME list = <<>> PROVE DOMAIN list = {}
      BY <3>1
    <3> QED
      BY <2>5, <3>1, ToSetMember
  <2>7. /\ rotated \in Seq(Guest \cup {Dummy}) /\ ToSet(rotated) = ToSet(list)
        /\ IsInjective(rotated)
    BY <2>5, <2>6, RotatedList
  <2> HIDE DEF list, rotated
  <2>8. i \in NamedAt(rotated, name)
    <3>1. NamedAt(rotated, name) \in SUBSET Nat
      BY <2>7 DEF NamedAt
    <3>2. NamedAt(rotated, name) # {}
      <4>1. PICK j \in DOMAIN rotated : rotated[j] = c
        BY <2>4, <2>5, <2>7, ToSetMember
      <4> QED
        BY <2>2, <2>4, <4>1 DEF NamedAt
    <3> QED
      BY <3>1, <3>2, MinIsMember
  <2> HIDE DEF i
  <2>9. i \in DOMAIN rotated /\ rotated[i] # Dummy
    BY <2>8 DEF NamedAt
  <2>10. rotated[i] \in Members(r)
    BY <2>5, <2>7, <2>9, ToSetMember
  <2> DEFINE new == MoveToFront(rotated, i)
  <2>11. /\ new \in Seq(Guest \cup {Dummy}) /\ IsInjective(new)
         /\ ToSet(new) = ToSet(list) /\ Head(new) # Dummy
    BY <2>7, <2>9, MovedList
  <2> HIDE DEF new
  <2>12. ASSUME NEW q \in Roles, q = r PROVE Changed(q)'
    <3>1. hit'[k] = {rotated[i]} /\ RoleOf[rotated[i]] = r
      BY <2>1, <2>10 DEF Members, IInv, ClientTypes
    <3>2. k \in Client /\ request'[k].command = "change" /\ rotated[i] \in hit'[k]
      BY <3>1
    <3> QED
      BY <2>12, <3>1, <3>2 DEF Changed
  <2>13. Head(list) # Dummy
    BY <2>1 DEF CanChange
  <2>14. /\ role_list' = [q \in Roles |-> role_list'[q]] /\ role_list'[r] = new
         /\ \A q \in Roles : q # r => role_list'[q] = role_list[q]
    BY <2>1, <2>4 DEF ListInv, new
  <2>15. \A q \in {RoleOf[d] : d \in ToSet(containers)} : q \in Roles
    BY ToSetMember DEF ListInv, BootOrderIsFixed, Roles
  <2>16. list = role_list[r]
    BY DEF list
  <2>17. \A q \in {RoleOf[d] : d \in ToSet(containers)} :
           \/ role_list'[q] = role_list[q]
           \/ /\ role_list'[q] \in Seq(Guest \cup {Dummy}) /\ IsInjective(role_list'[q])
              /\ ToSet(role_list'[q]) = ToSet(role_list[q])
              /\ Head(role_list'[q]) # Dummy /\ Head(role_list[q]) # Dummy
              /\ Changed(q)'
    BY <2>11, <2>12, <2>13, <2>14, <2>15, <2>16
  <2>18. \A q \in Roles : q \notin {RoleOf[d] : d \in ToSet(containers)} => role_list'[q] = role_list[q]
    BY <2>4, <2>14
  <2> HIDE DEF name, named
  <2> QED
    BY <2>14, <2>17, <2>18, ListsKept
<1> QED
  BY <1>1, <1>2

LEMMA StepLists ==
  ASSUME IInv, ListInv, [Next]_vars
  PROVE  ListInv'
<1>1. CASE UNCHANGED <<containers, role_list, request, hit>>
  <2>1. \A r \in Roles : Changed(r) => Changed(r)'
    BY <1>1 DEF Changed
  <2> QED
    BY <1>1, <2>1, ListsKept DEF ListInv
<1>2. CASE SessionExec
  <2>1. /\ session \in Client /\ client[session] \in {"sent", "given_up"} /\ hit[session] = {}
    BY <1>2 DEF SessionExec, IInv, SessionIsFresh
  <2>2. Exec(session) /\ UNCHANGED <<containers, request>>
    BY <1>2 DEF SessionExec
  <2>3. CommandEffect(session)
    BY <2>1, <2>2, ExecEffect DEF IInv
  <2>4. \A r \in Roles : Changed(r) => Changed(r)'
    <3> SUFFICES ASSUME NEW r, NEW o \in Client, request[o].command = "change",
                        NEW c \in hit[o], RoleOf[c] = r
                 PROVE  Changed(r)'
      BY DEF Changed
    <3>1. hit'[o] = hit[o]
      BY <2>1, <2>3 DEF CommandEffect
    <3> QED
      BY <2>2, <3>1 DEF Changed
  <2>5. CASE role_list' = role_list
    BY <2>2, <2>4, <2>5, ListsKept DEF ListInv
  <2>6. CASE role_list' # role_list
    <3>1. request[session].command = "change" /\ CommandChange(session)
      BY <2>2, <2>6 DEF Exec, CommandLifecycle, CommandGet
    <3> QED
      BY <2>1, <2>2, <2>4, <3>1, ChangeLists
  <2> QED
    BY <2>5, <2>6
<1>3. CASE Incoming \/ SessionHangup \/ SessionReadable \/ ManagerEnds \/ UNCHANGED vars
           \/ (\E c \in Guest : LifeCycle(c))
           \/ \E k \in Client : Connect(k) \/ SendPacket(k) \/ GiveUp(k)
  <2>1. UNCHANGED <<containers, role_list, request, hit>>
    BY <1>3 DEF Incoming, SessionHangup, SessionReadable, ManagerEnds, LifeCycle, Connect,
      SendPacket, GiveUp, ServerUnchanged, vars, guestVars, clientVars
  <2> QED
    BY <1>1, <2>1
<1> QED
  BY <1>2, <1>3 DEF Next, Manager

-----------------------------------------------------------------------------
(***************************************************************************)
(* The theorems.                                                           *)
(***************************************************************************)

\* container_external_interface_exec answers every client in agreement with what it
\* has done, for any number of clients that come, are turned away and give up.
THEOREM AnswersAreTrue == Spec => []AnswerIsTrue
<1>1. IInv => AnswerIsTrue
  BY DEF IInv
<1> QED
  BY <1>1, Invariance, PTL

\* bind_container_to_role_list puts each guest into the list of its role once, in the
\* order that its autoboot calls for, and container_external_interface_command_change
\* loses none, for any number of guests, roles, equal priorities and commands.
THEOREM RoleListsAreKept == Spec => []RoleListsAgree
<1>1. IInv /\ ListInv /\ [Next]_vars => ListInv'
  BY StepLists
<1>2. ListInv => RoleListsAgree
  BY DEF ListInv
<1> QED
  BY <1>1, <1>2, InitLists, Invariance, PTL DEF Spec
=============================================================================

--------------------------- MODULE EwsConnections ---------------------------
(***************************************************************************)
(* The calls of one mailbox to Exchange and the connections they ride on   *)
(* (ews-transport.ts).  NTLM authenticates a connection: Exchange answers  *)
(* 401 when it has dropped the connection's context, or when two calls mix *)
(* their handshakes on it, as well as for a wrong password.  An agent is a *)
(* pool of connections; it is modelled as one.                             *)
(***************************************************************************)
EXTENDS Naturals

CONSTANTS Calls,
          MaxAgents, MaxEvents \* bounds: agents made; calls, faults and logouts

NoAgent == 0

VARIABLES
    pool,          \* agent of the mailbox, or none
    made, open,    \* how many were made; those not destroyed
    warm, stale,   \* those a call has left a connection on; whose context is gone
    pc, isolated,  \* of each call; does it have connections of its own?
    tries, rounds, \* 401s answered; throttled before?
    agent, private,
    password,      \* is the stored password right?
    events,
    company,       \* history: calls that had to share the pool
    evicted,       \* calls that a logout overtook
    owned,         \* agents made for one call
    ended          \* how calls have failed

conns == <<pool, made, open, warm, stale>>
state == <<pc, isolated, tries, rounds, agent, private>>
vars  == <<conns, state, password, events, company, evicted, owned, ended>>

Failures == [how : {"unauthorized", "reset"}, isolated : BOOLEAN, wrong : BOOLEAN,
             company : BOOLEAN, evicted : BOOLEAN]

TypeOK ==
    /\ pool \in {NoAgent} \cup open /\ made \in 0 .. MaxAgents /\ open \subseteq 1 .. made
    /\ warm \subseteq 1 .. made /\ stale \subseteq 1 .. made
    /\ pc \in [Calls -> {"idle", "next", "asking"}] /\ isolated \in [Calls -> BOOLEAN]
    /\ tries \in [Calls -> 0 .. 1] /\ rounds \in [Calls -> 0 .. 1]
    /\ agent \in [Calls -> 0 .. made] /\ private \in [Calls -> SUBSET (1 .. made)]
    /\ password \in BOOLEAN /\ events \in 0 .. MaxEvents
    /\ company \subseteq Calls /\ evicted \subseteq Calls /\ owned \subseteq 1 .. made
    /\ ended \subseteq Failures

Init ==
    /\ pool = NoAgent /\ made = 0 /\ open = {} /\ warm = {} /\ stale = {}
    /\ pc = [c \in Calls |-> "idle"] /\ isolated = [c \in Calls |-> FALSE]
    /\ tries = [c \in Calls |-> 0] /\ rounds = tries /\ agent = tries
    /\ private = [c \in Calls |-> {}]
    /\ password \in BOOLEAN /\ events = 0 /\ company = {} /\ evicted = {} /\ owned = {} /\ ended = {}

Event == events < MaxEvents /\ events' = events + 1

Pooled == {c \in Calls : pc[c] # "idle" /\ ~isolated[c]}
Beside(c) == {d \in Calls \ {c} : pc[d] = "asking" /\ agent[d] = agent[c]}

-----------------------------------------------------------------------------
Begin(c) ==
    /\ pc[c] = "idle" /\ Event /\ pc' = [pc EXCEPT ![c] = "next"]
    /\ \E own \in BOOLEAN :
          /\ isolated' = [isolated EXCEPT ![c] = own]
          /\ company' = IF own \/ Pooled = {} THEN company ELSE company \cup Pooled \cup {c}
    /\ UNCHANGED <<conns, tries, rounds, agent, private, password, evicted, owned, ended>>

\* nextAgent: a new one of its own, or the pool's, made when there is none.
Ask(c) ==
    /\ pc[c] = "next" /\ pc' = [pc EXCEPT ![c] = "asking"]
    /\ IF isolated[c] \/ pool = NoAgent
       THEN /\ made < MaxAgents /\ made' = made + 1 /\ open' = open \cup {made'}
            /\ agent' = [agent EXCEPT ![c] = made']
            /\ IF isolated[c]
               THEN /\ private' = [private EXCEPT ![c] = @ \cup {made'}] /\ owned' = owned \cup {made'}
                    /\ UNCHANGED pool
               ELSE pool' = made' /\ UNCHANGED <<private, owned>>
       ELSE agent' = [agent EXCEPT ![c] = pool] /\ UNCHANGED <<pool, made, open, private, owned>>
    /\ UNCHANGED <<warm, stale, isolated, tries, rounds, password, events, company, evicted, ended>>

\* The finally of call.
Closes(c) == private[c]

Returns(c, to) ==
    /\ open' = open \ Closes(c)
    /\ private' = [private EXCEPT ![c] = {}] /\ agent' = [agent EXCEPT ![c] = NoAgent]
    /\ tries' = [tries EXCEPT ![c] = 0] /\ pc' = [pc EXCEPT ![c] = to]
    /\ IF to = "idle"
       THEN /\ isolated' = [isolated EXCEPT ![c] = FALSE] /\ rounds' = [rounds EXCEPT ![c] = 0]
            /\ company' = company \ {c} /\ evicted' = evicted \ {c}
       ELSE rounds' = [rounds EXCEPT ![c] = 1] /\ UNCHANGED <<isolated, company, evicted>>

FailsWith(c, how) ==
    ended' = ended \cup {[how |-> how, isolated |-> isolated[c], wrong |-> ~password,
                          company |-> c \in company, evicted |-> c \in evicted]}

\* The answer, or an error that is not about the connection.
Answered(c) ==
    /\ pc[c] = "asking" /\ agent[c] \in open /\ password /\ agent[c] \notin stale
    /\ warm' = warm \cup ({agent[c]} \ private[c])
    /\ Returns(c, "idle") /\ UNCHANGED <<pool, made, stale, password, events, owned, ended>>

\* ErrorServerBusy: the whole call once more after the back-off.
Busy(c) ==
    /\ pc[c] = "asking" /\ agent[c] \in open /\ password /\ agent[c] \notin stale /\ Event
    /\ Returns(c, IF rounds[c] = 0 THEN "next" ELSE "idle")
    /\ UNCHANGED <<pool, made, warm, stale, password, owned, ended>>

\* Mutant: the pool is kept.
RetireNothing(c) == UNCHANGED <<pool, open>>

\* Whatever agent the pool has by now.
Retire(c) == pool' = (IF isolated[c] THEN pool ELSE NoAgent) /\ UNCHANGED open

Unauthorized(c) ==
    /\ pc[c] = "asking" /\ agent[c] \in open
    /\ ~password \/ agent[c] \in stale \/ Beside(c) # {}
    /\ IF tries[c] = 0
       THEN /\ Retire(c)
            /\ tries' = [tries EXCEPT ![c] = 1] /\ pc' = [pc EXCEPT ![c] = "next"]
            /\ UNCHANGED <<isolated, rounds, agent, private, company, evicted, owned, ended>>
       ELSE FailsWith(c, "unauthorized") /\ Returns(c, "idle") /\ UNCHANGED pool
    /\ UNCHANGED <<made, warm, stale, password, events, owned>>

\* The agent was destroyed under the call.
Reset(c) ==
    /\ pc[c] = "asking" /\ agent[c] \notin open
    /\ FailsWith(c, "reset") /\ Returns(c, "idle")
    /\ UNCHANGED <<pool, made, warm, stale, password, events, owned>>

\* A transport error of the network: no second try.
NetworkFails(c) ==
    /\ pc[c] = "asking" /\ Event
    /\ Returns(c, "idle") /\ UNCHANGED <<pool, made, warm, stale, password, owned, ended>>

\* Exchange, or an idle timeout, drops what a connection knew.
Recycle ==
    /\ Event /\ \E a \in (warm \cap open) \ stale : stale' = stale \cup {a}
    /\ UNCHANGED <<pool, made, open, warm, state, password, company, evicted, owned, ended>>

PasswordChanges ==
    /\ Event /\ password' = ~password
    /\ UNCHANGED <<conns, state, company, evicted, owned, ended>>

\* evict: destroyed, sockets and all.
Logout ==
    /\ pool # NoAgent /\ Event
    /\ open' = open \ {pool} /\ pool' = NoAgent
    /\ evicted' = evicted \cup {c \in Calls : pc[c] = "asking" /\ agent[c] = pool}
    /\ UNCHANGED <<made, warm, stale, state, password, company, owned, ended>>

Next ==
    \/ Recycle \/ PasswordChanges \/ Logout
    \/ \E c \in Calls : \/ Begin(c) \/ Ask(c) \/ Answered(c) \/ Busy(c) \/ Unauthorized(c)
                        \/ Reset(c) \/ NetworkFails(c)

Spec == Init /\ [][Next]_vars

-----------------------------------------------------------------------------
(* With the right password a call that has its connections for itself is   *)
(* never told it is not authorised (which would sign the user out), however*)
(* often Exchange drops connections that wait.                             *)
NotSignedOutInVain ==
    \A e \in ended : e.how = "unauthorized" => e.wrong \/ (e.company /\ ~e.isolated)

(* No call loses its connection but by a logout: a 401 of one call takes   *)
(* nothing from the others.                                                *)
ResetByLogoutOnly == \A e \in ended : e.how = "reset" => e.evicted

(* A private connection is closed when its call has ended.                 *)
PrivateClosed == open \cap owned \subseteq UNION {private[c] : c \in Calls}

\* A connection of its own is one call's, and the pool knows nothing of it.
PrivateInv ==
    /\ pool \notin owned /\ warm \cap owned = {} /\ stale \subseteq warm
    /\ \A c \in Calls :
          /\ private[c] \subseteq owned /\ (~isolated[c] => private[c] = {})
          /\ pc[c] = "idle" => tries[c] = 0 /\ private[c] = {}
          /\ pc[c] = "asking" =>
                agent[c] # NoAgent /\ (IF isolated[c] THEN agent[c] \in private[c] ELSE agent[c] \notin owned)
    /\ \A c \in Calls : \A d \in Calls \ {c} : private[c] \cap private[d] = {}

\* Calls that share the pool are known to; one that does not has after a 401
\* an empty pool, or a connection nobody used before it.
CompanyInv ==
    /\ \A c \in Pooled : \A d \in Pooled \ {c} : c \in company
    /\ \A c \in Pooled \ company : tries[c] = 1 =>
          IF pc[c] = "next" THEN pool = NoAgent ELSE agent[c] \notin warm

\* What was closed under a call, a logout closed.
EvictedInv == \A c \in Calls : pc[c] = "asking" /\ agent[c] \notin open => c \in evicted

(* The right password is never found wrong by a call that has its          *)
(* connections for itself, a 401 takes nothing from other calls, nothing   *)
(* leaks.                                                                  *)
ConnectionsHold ==
    /\ TypeOK /\ PrivateInv /\ CompanyInv /\ EvictedInv
    /\ NotSignedOutInVain /\ ResetByLogoutOnly /\ PrivateClosed
=============================================================================

----------------------------- MODULE Enrollment -----------------------------
(***************************************************************************)
(* How a client gets an identity and how it loses it.  An operator mints   *)
(* join tokens; a client registers with one, writes the identity it gets   *)
(* into its state file and shows it in every heartbeat and poll, until the *)
(* server refuses it.  Between any two queries of a registration, and any  *)
(* two steps of a client, the other side may stop, answer late or not at   *)
(* all.                                                                    *)
(*                                                                         *)
(* The secret of an identity is random and never shared, so an identity    *)
(* stands for both.                                                        *)
(***************************************************************************)
EXTENDS Naturals, FiniteSets

CONSTANTS
  Clients,   \* client processes, each with a state file
  Ids,       \* identities that may be registered
  Tokens,    \* join tokens that may be minted
  Handlers,  \* registrations the server may work on at a time
  MaxUses,   \* largest limit of a token
  MaxFaults, \* crashes, lost messages, failed queries and wrong flags in a behaviour
  NoId,
  NoToken,
  NoHandler

ASSUME EnrollmentAssumption ==
  /\ IsFiniteSet(Ids) /\ IsFiniteSet(Handlers)
  /\ MaxUses \in Nat /\ MaxFaults \in Nat
  /\ NoId \notin Ids /\ NoToken \notin Tokens /\ NoHandler \notin Handlers

VARIABLES
  token,      \* rows of join tokens
  suspended,  \* the tenant besides the default one is suspended
  row,        \* rows of clients
  server,     \* how far its start has come
  handler,    \* registrations under way on the server
  client,     \* the processes
  file,       \* the identity in the state file
  faults,
  \* history
  raced,      \* tokens whose count was written over
  lost        \* identities that went missing through a fault

history == <<raced, lost>>
vars == <<token, suspended, row, server, handler, client, file, faults, history>>

\* A token is closed when it is revoked or past its expiry; max = 0 is no limit.
Token == [status : {"none", "open", "closed"}, tenant : {"default", "other"},
          max : 0 .. MaxUses + 1, used : Nat, known : BOOLEAN]
Row == [status : {"none", "live", "revoked"}, by : Tokens \cup {NoToken}]
Handler == [at : {"idle", "read", "counted", "admitted", "answer"}, token : Tokens \cup {NoToken},
            seen : Nat, id : Ids \cup {NoId}]
Client == [at : {"down", "joining", "waiting", "saving", "beating", "clearing"},
           id : Ids \cup {NoId}, proof : BOOLEAN, join : Tokens \cup {NoToken},
           via : Handlers \cup {NoHandler}]

NoRow == [status |-> "none", by |-> NoToken]
Unminted == [status |-> "none", tenant |-> "default", max |-> 0, used |-> 0, known |-> FALSE]
Idle == [at |-> "idle", token |-> NoToken, seen |-> 0, id |-> NoId]
Down == [at |-> "down", id |-> NoId, proof |-> FALSE, join |-> NoToken, via |-> NoHandler]

Init ==
  /\ token = [t \in Tokens |-> Unminted]
  /\ suspended = FALSE
  /\ row = [i \in Ids |-> NoRow]
  /\ server = "down"
  /\ handler = [h \in Handlers |-> Idle]
  /\ client = [c \in Clients |-> Down]
  /\ file = [c \in Clients |-> NoId]
  /\ faults = 0
  /\ raced = {} /\ lost = {}

Fault == faults < MaxFaults /\ faults' = faults + 1
Live(i) == i # NoId /\ row[i].status = "live"
Barred(t) == token[t].tenant = "other" /\ suspended
OverSpent(t) == token[t].max > 0 /\ token[t].used > token[t].max
Spent(t) == token[t].max > 0 /\ token[t].used >= token[t].max
Usable(t) == token[t].status = "open" /\ ~Spent(t)

-----------------------------------------------------------------------------
(* The operator.                                                           *)

Mint(t, tenant, max) ==
  /\ server = "up" /\ token[t].status = "none"
  /\ ~(tenant = "other" /\ suspended)
  /\ token' = [token EXCEPT ![t] = [status |-> "open", tenant |-> tenant, max |-> max,
                                    used |-> 0, known |-> TRUE]]
  /\ UNCHANGED <<suspended, row, server, handler, client, file, faults, history>>

\* RevokeEnrollmentToken, or the token expires.
Close(t) ==
  /\ token[t].status = "open"
  /\ token' = [token EXCEPT ![t].status = "closed"]
  /\ UNCHANGED <<suspended, row, server, handler, client, file, faults, history>>

SetSuspended ==
  /\ server = "up"
  /\ suspended' = ~suspended
  /\ UNCHANGED <<token, row, server, handler, client, file, faults, history>>

RevokeClient(i) ==
  /\ server = "up" /\ Live(i)
  /\ row' = [row EXCEPT ![i].status = "revoked"]
  /\ UNCHANGED <<token, suspended, server, handler, client, file, faults, history>>

-----------------------------------------------------------------------------
(* The server starts: a one-time token is there, or is created and printed.  *)

HasUsable == \E t \in Tokens : token[t].tenant = "default" /\ Usable(t)

Boot ==
  /\ server = "down"
  /\ server' = IF HasUsable THEN "up" ELSE "creating"
  /\ UNCHANGED <<token, suspended, row, handler, client, file, faults, history>>

BootCreate ==
  /\ server = "creating"
  /\ \/ /\ \E t \in Tokens :
             /\ token[t].status = "none"
             /\ token' = [token EXCEPT ![t] = [Unminted EXCEPT !.status = "open", !.max = 1]]
        /\ server' = "printing"
     \/ server' = "up" /\ UNCHANGED token   \* a failure is only logged
  /\ UNCHANGED <<suspended, row, handler, client, file, faults, history>>

BootPrint ==
  /\ server = "printing"
  /\ token' = [t \in Tokens |-> IF token[t].status = "open" THEN [token[t] EXCEPT !.known = TRUE]
                                ELSE token[t]]
  /\ server' = "up"
  /\ UNCHANGED <<suspended, row, handler, client, file, faults, history>>

\* It stops, with what it was working on.
Stop ==
  /\ server # "down" /\ Fault
  /\ server' = "down"
  /\ handler' = [h \in Handlers |-> Idle]
  /\ lost' = lost \cup ({ handler[h].id : h \in Handlers } \ {NoId})
  /\ client' = [c \in Clients |->
       IF client[c].at = "waiting" THEN [client[c] EXCEPT !.at = "joining", !.via = NoHandler]
       ELSE client[c]]
  /\ UNCHANGED <<token, suspended, row, file, raced>>

-----------------------------------------------------------------------------
(* A registration.  One that is refused changes nothing.                   *)

\* ConsumeEnrollmentToken reads the row of the token and finds it good ...
Register(c, h) ==
  /\ client[c].at = "joining" /\ server = "up" /\ handler[h].at = "idle"
  /\ LET t == client[c].join
     IN /\ t # NoToken
        /\ Usable(t) /\ ~Barred(t)
        /\ handler' = [handler EXCEPT ![h] = [at |-> "read", token |-> t,
                                              seen |-> token[t].used, id |-> NoId]]
  /\ client' = [client EXCEPT ![c] = [@ EXCEPT !.at = "waiting", !.via = h]]
  /\ UNCHANGED <<token, suspended, row, server, file, faults, history>>

Answers(h, id) ==
  handler' = [handler EXCEPT ![h] = [at |-> "answer", token |-> NoToken, seen |-> 0, id |-> id]]

\* ... and writes one more than the count it has read, which is followed only for a
\* token that has a limit ...
Count(h) ==
  /\ handler[h].at = "read"
  /\ LET t == handler[h].token
     IN /\ token' = IF token[t].max = 0 THEN token
                    ELSE [token EXCEPT ![t].used = handler[h].seen + 1]
        /\ raced' = IF token[t].used # handler[h].seen THEN raced \cup {t} ELSE raced
  /\ handler' = [handler EXCEPT ![h].at = "counted"]
  /\ UNCHANGED <<suspended, row, server, client, file, faults, lost>>

\* ... RegisterClient looks at the tenant of the token ...
Check(h) ==
  /\ handler[h].at = "counted"
  /\ IF Barred(handler[h].token) THEN Answers(h, NoId)
     ELSE handler' = [handler EXCEPT ![h].at = "admitted"]
  /\ UNCHANGED <<token, suspended, row, server, client, file, faults, history>>

\* ... and inserts the client.
Insert(h, i) ==
  /\ handler[h].at = "admitted" /\ row[i].status = "none"
  /\ row' = [row EXCEPT ![i] = [status |-> "live", by |-> handler[h].token]]
  /\ Answers(h, i)
  /\ UNCHANGED <<token, suspended, server, client, file, faults, history>>

\* A query fails: the use it has counted stays counted.
Fail(h) ==
  /\ handler[h].at \in {"read", "admitted"} /\ Fault
  /\ Answers(h, NoId)
  /\ UNCHANGED <<token, suspended, row, server, client, file, history>>

\* The answer reaches the client if that still waits for it.
Reply(h) ==
  /\ handler[h].at = "answer"
  /\ LET i == handler[h].id
         waiting == { c \in Clients : client[c].via = h }
     IN /\ client' = [c \in Clients |->
             IF c \notin waiting THEN client[c]
             ELSE IF i = NoId THEN [client[c] EXCEPT !.at = "joining", !.via = NoHandler]
             ELSE [client[c] EXCEPT !.at = "saving", !.via = NoHandler, !.id = i, !.proof = TRUE]]
        /\ lost' = IF waiting = {} THEN lost \cup ({i} \ {NoId}) ELSE lost
  /\ handler' = [handler EXCEPT ![h] = Idle]
  /\ UNCHANGED <<token, suspended, row, server, file, faults, raced>>

\* The connection breaks while the server works on: the client tries again.
Abandon(c) ==
  /\ client[c].at = "waiting" /\ Fault
  /\ client' = [client EXCEPT ![c] = [@ EXCEPT !.at = "joining", !.via = NoHandler]]
  /\ UNCHANGED <<token, suspended, row, server, handler, file, history>>

-----------------------------------------------------------------------------
(* The client process.                                                     *)

Offered(join) == join # NoToken => token[join].known

\* It starts with the identity of its state file.
Start(c, join) ==
  /\ client[c].at = "down" /\ Offered(join)
  /\ LET i == file[c]
     IN client' = [client EXCEPT ![c] =
          [at |-> IF i = NoId THEN "joining" ELSE "beating", id |-> i, proof |-> i # NoId,
           join |-> join, via |-> NoHandler]]
  /\ UNCHANGED <<token, suspended, row, server, handler, file, faults, history>>

\* It is started with a client id that is not the saved one: it has no secret for it,
\* and the saved one is given up when the server refuses it.
StartAs(c, i, join) ==
  /\ client[c].at = "down" /\ Fault
  /\ Offered(join) /\ i # file[c]
  /\ client' = [client EXCEPT ![c] =
       [at |-> "beating", id |-> i, proof |-> FALSE, join |-> join, via |-> NoHandler]]
  /\ lost' = lost \cup ({file[c]} \ {NoId})
  /\ UNCHANGED <<token, suspended, row, server, handler, file, raced>>

Save(c) ==
  /\ client[c].at = "saving"
  /\ file' = [file EXCEPT ![c] = client[c].id]
  /\ client' = [client EXCEPT ![c].at = "beating"]
  /\ UNCHANGED <<token, suspended, row, server, handler, faults, history>>

Forgets(c) ==
  client' = [client EXCEPT ![c] = [@ EXCEPT !.at = "clearing", !.id = NoId, !.proof = FALSE]]

\* What makes the client drop its identity: the server refuses it.
AnyAnswer(c) == TRUE
Unknown(c) == ~client[c].proof
Refused(c) == ~(client[c].proof /\ Live(client[c].id))

\* A heartbeat or a poll that is not refused changes nothing.
BeatRefused(c) ==
  /\ client[c].at = "beating" /\ server = "up"
  /\ Refused(c)
  /\ Forgets(c)
  /\ UNCHANGED <<token, suspended, row, server, handler, file, faults, history>>

\* The query for the client's row fails, and the server answers that the token is wrong.
BeatFails(c) ==
  /\ client[c].at = "beating" /\ server = "up" /\ Fault
  /\ Forgets(c)
  /\ lost' = lost \cup ({client[c].id} \ {NoId})
  /\ UNCHANGED <<token, suspended, row, server, handler, file, raced>>

\* The state file is overwritten, whatever it held.
Clear(c) ==
  /\ client[c].at = "clearing"
  /\ file' = [file EXCEPT ![c] = NoId]
  /\ client' = [client EXCEPT ![c].at = "joining"]
  /\ UNCHANGED <<token, suspended, row, server, handler, faults, history>>

\* The process is killed; a file that is being written is left empty.
Crash(c) ==
  /\ client[c].at # "down" /\ Fault
  /\ client' = [client EXCEPT ![c] = Down]
  /\ IF client[c].at \in {"saving", "clearing"}
     THEN /\ file' \in {file, [file EXCEPT ![c] = NoId]}
          /\ lost' = lost \cup ({client[c].id} \ {NoId})
     ELSE UNCHANGED <<file, lost>>
  /\ UNCHANGED <<token, suspended, row, server, handler, raced>>

-----------------------------------------------------------------------------

OperatorStep ==
  \/ \E t \in Tokens : Close(t)
                       \/ \E tenant \in {"default", "other"}, max \in 0 .. MaxUses : Mint(t, tenant, max)
  \/ SetSuspended
  \/ \E i \in Ids : RevokeClient(i)

ServerStep ==
  \/ Boot \/ BootCreate \/ BootPrint \/ Stop
  \/ \E h \in Handlers : Count(h) \/ Check(h) \/ Fail(h) \/ Reply(h)
                         \/ \E i \in Ids : Insert(h, i)

ClientStep(c) ==
  \/ \E join \in Tokens \cup {NoToken} :
       Start(c, join) \/ \E i \in Ids : StartAs(c, i, join)
  \/ \E h \in Handlers : Register(c, h)
  \/ Save(c) \/ BeatRefused(c) \/ BeatFails(c) \/ Clear(c) \/ Abandon(c) \/ Crash(c)

Next == OperatorStep \/ ServerStep \/ \E c \in Clients : ClientStep(c)

\* The server comes up and finishes what it works on; a client that runs loops for ever.
Fairness ==
  /\ WF_vars(Boot \/ BootCreate \/ BootPrint)
  /\ \A h \in Handlers : WF_vars(Count(h) \/ Check(h) \/ Reply(h) \/ \E i \in Ids : Insert(h, i))
  /\ \A c \in Clients :
       /\ WF_vars(\E h \in Handlers : Register(c, h))
       /\ WF_vars(Save(c) \/ BeatRefused(c) \/ Clear(c))

Spec == Init /\ [][Next]_vars
FairSpec == Spec /\ Fairness

-----------------------------------------------------------------------------

TypeOK ==
  /\ token \in [Tokens -> Token]
  /\ suspended \in BOOLEAN
  /\ row \in [Ids -> Row]
  /\ server \in {"down", "creating", "printing", "up"}
  /\ handler \in [Handlers -> Handler]
  /\ client \in [Clients -> Client]
  /\ file \in [Clients -> Ids \cup {NoId}]
  /\ faults \in 0 .. MaxFaults
  /\ raced \subseteq Tokens /\ lost \subseteq Ids

\* A token admits at most max_uses clients, whatever fails or is abandoned on the way;
\* only two registrations that read the count at the same time get past it.
Admitted(t) == { i \in Ids : row[i].by = t }
LimitsHold ==
  \A t \in Tokens \ raced :
    token[t].max > 0 => Cardinality(Admitted(t)) <= token[t].used /\ token[t].used <= token[t].max

\* The comment at dropIdentity: failures that pass keep the identity.  An identity
\* that is good is held by its client, in memory or on disk, or is on its way to it,
\* unless a fault made away with it.
Holds(c, i) == (client[c].id = i /\ client[c].proof) \/ file[c] = i
IdentitiesAreKept ==
  \A i \in Ids :
    Live(i) => \/ i \in lost
               \/ \E c \in Clients : Holds(c, i)
               \/ \E h \in Handlers : handler[h].id = i

\* A client whose identity was revoked lets go of it.
RevokedLetsGo ==
  \A c \in Clients, i \in Ids :
    (client[c].id = i /\ row[i].status = "revoked") ~> (client[c].id # i)

\* A client that runs with a token that is good gets in, and gets back in.
Welcome(c) ==
  /\ client[c].at # "down" /\ server = "up"
  /\ LET t == client[c].join IN t # NoToken /\ Usable(t) /\ ~Barred(t)
  /\ \E i \in Ids : row[i].status = "none"
IsIn(c) == client[c].proof /\ Live(client[c].id)
GetsIn == \A c \in Clients : []<>(IsIn(c) \/ ~Welcome(c))

-----------------------------------------------------------------------------
(* Why the promises hold.                                                  *)

\* Nothing refers to a token that was never minted.
TokensAreMinted ==
  /\ \A i \in Ids : row[i].by # NoToken => token[row[i].by].status # "none"
  /\ \A h \in Handlers :
       /\ handler[h].token # NoToken => token[handler[h].token].status # "none"
       /\ handler[h].at \in {"read", "counted", "admitted"} <=> handler[h].token # NoToken
       /\ handler[h].id # NoId => handler[h].at = "answer"

\* A use is counted before the client is inserted, and was left when it was read.
Counted(t) == { h \in Handlers : handler[h].token = t /\ handler[h].at \in {"counted", "admitted"} }
UsesAreCounted ==
  \A t \in Tokens \ raced :
    token[t].max > 0 =>
      /\ Cardinality(Admitted(t)) + Cardinality(Counted(t)) <= token[t].used
      /\ token[t].used <= token[t].max
      /\ \A h \in Handlers :
           handler[h].token = t /\ handler[h].at = "read" => handler[h].seen < token[t].max

\* Nobody has an identity that was never registered.
Registered(i) == row[i].status # "none"
IdsAreRegistered ==
  /\ \A c \in Clients : /\ file[c] # NoId => Registered(file[c])
                        /\ client[c].proof => client[c].id # NoId /\ Registered(client[c].id)
  /\ \A h \in Handlers : handler[h].id # NoId => Registered(handler[h].id)

\* The state file follows what the process holds.
FileFollows ==
  \A c \in Clients :
    /\ client[c].at \in {"down", "joining", "waiting", "clearing"} => ~client[c].proof
    /\ client[c].at \in {"joining", "waiting", "saving"} => file[c] = NoId
    /\ client[c].at = "saving" => client[c].proof
    /\ client[c].at = "beating" /\ client[c].proof => file[c] = client[c].id
    /\ client[c].at \in {"beating", "clearing"} /\ ~client[c].proof /\ Live(file[c]) => file[c] \in lost
    /\ client[c].via # NoHandler => client[c].at = "waiting"

Inv ==
  /\ TypeOK /\ TokensAreMinted /\ UsesAreCounted /\ IdsAreRegistered /\ FileFollows
  /\ IdentitiesAreKept

=============================================================================

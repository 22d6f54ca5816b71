-------------------------- MODULE Enrollment_proofs --------------------------
(* The promises of enrollment, for any clients, tokens, handlers and faults. *)
EXTENDS Enrollment, FiniteSetTheorems, TLAPS

USE EnrollmentAssumption DEF history, vars

LEMMA Rows ==
  /\ Idle \in Handler /\ Down \in Client /\ NoRow \in Row /\ Unminted \in Token
BY DEF Idle, Down, NoRow, Unminted, Handler, Client, Row, Token

(* What a step that writes one entry of a table leaves behind.             *)

LEMMA ClientWrite ==
  ASSUME TypeOK, NEW x \in Clients, NEW y \in Client, client' = [client EXCEPT ![x] = y]
  PROVE  /\ client' \in [Clients -> Client] /\ client'[x] = y
         /\ \A z \in Clients \ {x} : client'[z] = client[z]
BY DEF TypeOK

LEMMA HandlerWrite ==
  ASSUME TypeOK, NEW x \in Handlers, NEW y \in Handler, handler' = [handler EXCEPT ![x] = y]
  PROVE  /\ handler' \in [Handlers -> Handler] /\ handler'[x] = y
         /\ \A z \in Handlers \ {x} : handler'[z] = handler[z]
BY DEF TypeOK

LEMMA TokenWrite ==
  ASSUME TypeOK, NEW x \in Tokens, NEW y \in Token, token' = [token EXCEPT ![x] = y]
  PROVE  /\ token' \in [Tokens -> Token] /\ token'[x] = y
         /\ \A z \in Tokens \ {x} : token'[z] = token[z]
BY DEF TypeOK

LEMMA RowWrite ==
  ASSUME TypeOK, NEW x \in Ids, NEW y \in Row, row' = [row EXCEPT ![x] = y]
  PROVE  /\ row' \in [Ids -> Row] /\ row'[x] = y
         /\ \A z \in Ids \ {x} : row'[z] = row[z]
BY DEF TypeOK

\* What a token has admitted and counted are finite sets.
LEMMA Finite ==
  ASSUME NEW t
  PROVE  /\ IsFiniteSet(Admitted(t)) /\ IsFiniteSet(Counted(t))
         /\ Cardinality(Admitted(t)) \in Nat /\ Cardinality(Counted(t)) \in Nat
<1>1. Admitted(t) \in SUBSET Ids /\ Counted(t) \in SUBSET Handlers
  BY DEF Admitted, Counted
<1> QED BY <1>1, FS_Subset, FS_CardinalityType

(* A step that counts nothing and admits nobody keeps the count.           *)
LEMMA UsesKept ==
  ASSUME Inv, TypeOK', raced' = raced,
         \A t \in Tokens :
           \/ token'[t].max = token[t].max /\ token'[t].used = token[t].used
           \/ token[t].status = "none" /\ token'[t].used = 0,
         \A i \in Ids : row'[i].by = row[i].by,
         \A h \in Handlers :
           \/ handler'[h] = handler[h]
           \/ handler'[h].token \notin Tokens
           \/ handler'[h].token = handler[h].token /\ handler[h].at = "counted"
              /\ handler'[h].at = "admitted"
           \/ /\ handler'[h].at = "read"
              /\ token[handler'[h].token].max > 0
                   => handler'[h].seen < token[handler'[h].token].max
              /\ token[handler'[h].token].status # "none"
  PROVE  UsesAreCounted'
<1> SUFFICES ASSUME NEW t \in Tokens, t \notin raced, token'[t].max > 0
             PROVE  /\ Cardinality(Admitted(t)') + Cardinality(Counted(t)') <= token'[t].used
                    /\ token'[t].used <= token'[t].max
                    /\ \A h \in Handlers :
                         handler'[h].token = t /\ handler'[h].at = "read"
                           => handler'[h].seen < token'[t].max
  BY DEF UsesAreCounted
<1>1. Admitted(t)' = Admitted(t)
  BY DEF Admitted
<1>2. Counted(t)' \in SUBSET Counted(t)
  BY DEF Counted
<1>3. Cardinality(Counted(t)') <= Cardinality(Counted(t)) /\ Cardinality(Counted(t)') \in Nat
  BY <1>2, Finite, FS_Subset, FS_CardinalityType
<1>4. /\ token'[t].used \in Nat /\ token'[t].max \in Nat
      /\ token[t].max \in Nat /\ token[t].used \in Nat
  BY DEF Inv, TypeOK, Token
<1>5. CASE token'[t].max = token[t].max /\ token'[t].used = token[t].used
  <2>1. /\ Cardinality(Admitted(t)) + Cardinality(Counted(t)) <= token[t].used
        /\ token[t].used <= token[t].max
    BY <1>5 DEF Inv, UsesAreCounted
  <2>2. \A h \in Handlers : handler'[h].token = t /\ handler'[h].at = "read"
                             => handler'[h].seen < token'[t].max
    BY <1>5 DEF Inv, UsesAreCounted
  <2> QED BY <1>1, <1>3, <1>4, <1>5, <2>1, <2>2, Finite
<1>6. CASE token[t].status = "none" /\ token'[t].used = 0
  <2>1. \A h \in Handlers : handler'[h].token # t
    BY <1>6 DEF Inv, TokensAreMinted
  <2>2. Admitted(t) = {} /\ Counted(t)' = {}
    BY <1>6, <2>1 DEF Inv, TokensAreMinted, Admitted, Counted
  <2> QED BY <1>1, <1>4, <1>6, <2>1, <2>2, FS_EmptySet
<1> QED BY <1>5, <1>6

(* The operator and the start of the server.                               *)

LEMMA MintKeeps ==
  ASSUME Inv, NEW t \in Tokens, NEW tenant \in {"default", "other"},
         NEW max \in 0 .. MaxUses, Mint(t, tenant, max)
  PROVE  Inv'
<1> DEFINE tokenNow == [status |-> "open", tenant |-> tenant, max |-> max, used |-> 0,
                        known |-> TRUE]
<1>1. tokenNow \in Token
  BY DEF Inv, TypeOK, Mint, Token
<1>2. /\ token' \in [Tokens -> Token] /\ token'[t] = tokenNow
      /\ \A z \in Tokens \ {t} : token'[z] = token[z]
  BY <1>1, TokenWrite DEF Inv, Mint
<1>3. TypeOK'
  BY <1>2 DEF Inv, TypeOK, Mint
<1>4. TokensAreMinted'
  BY <1>2 DEF Inv, TypeOK, Mint, TokensAreMinted, Token
<1>5. UsesAreCounted'
  BY <1>2, <1>3, UsesKept DEF Inv, TypeOK, Mint
<1>6. IdsAreRegistered'
  BY <1>2 DEF Inv, TypeOK, Mint, IdsAreRegistered, Registered, TokensAreMinted, FileFollows, Token
<1>7. FileFollows'
  BY <1>2 DEF Inv, TypeOK, Mint, FileFollows, Live, Token
<1>8. IdentitiesAreKept'
  BY <1>2 DEF Inv, TypeOK, Mint, IdentitiesAreKept, FileFollows, TokensAreMinted, Holds, Live,
     Token
<1> QED BY <1>3, <1>4, <1>5, <1>6, <1>7, <1>8 DEF Inv

LEMMA CloseKeeps ==
  ASSUME Inv, NEW t \in Tokens, Close(t)
  PROVE  Inv'
<1> DEFINE tokenNow == [token[t] EXCEPT !.status = "closed"]
<1>1. tokenNow \in Token
  BY DEF Inv, TypeOK, Close, Token
<1>2. /\ token' \in [Tokens -> Token] /\ token'[t] = tokenNow
      /\ \A z \in Tokens \ {t} : token'[z] = token[z]
  BY <1>1, TokenWrite DEF Inv, Close
<1>3. TypeOK'
  BY <1>2 DEF Inv, TypeOK, Close
<1>4. TokensAreMinted'
  BY <1>2 DEF Inv, TypeOK, Close, TokensAreMinted, Token
<1>5. UsesAreCounted'
  BY <1>2, <1>3, UsesKept DEF Inv, TypeOK, Close
<1>6. IdsAreRegistered'
  BY <1>2 DEF Inv, TypeOK, Close, IdsAreRegistered, Registered, TokensAreMinted, FileFollows,
     Token
<1>7. FileFollows'
  BY <1>2 DEF Inv, TypeOK, Close, FileFollows, Live, Token
<1>8. IdentitiesAreKept'
  BY <1>2 DEF Inv, TypeOK, Close, IdentitiesAreKept, FileFollows, TokensAreMinted, Holds, Live,
     Token
<1> QED BY <1>3, <1>4, <1>5, <1>6, <1>7, <1>8 DEF Inv

LEMMA SetSuspendedKeeps ==
  ASSUME Inv, SetSuspended
  PROVE  Inv'
<1>1. TypeOK'
  BY DEF Inv, TypeOK, SetSuspended
<1>2. TokensAreMinted'
  BY DEF Inv, TypeOK, SetSuspended, TokensAreMinted
<1>3. UsesAreCounted'
  BY <1>1, UsesKept DEF Inv, TypeOK, SetSuspended
<1>4. IdsAreRegistered'
  BY DEF Inv, TypeOK, SetSuspended, IdsAreRegistered, Registered, TokensAreMinted, FileFollows
<1>5. FileFollows'
  BY DEF Inv, TypeOK, SetSuspended, FileFollows, Live
<1>6. IdentitiesAreKept'
  BY DEF Inv, TypeOK, SetSuspended, IdentitiesAreKept, FileFollows, TokensAreMinted, Holds, Live
<1> QED BY <1>1, <1>2, <1>3, <1>4, <1>5, <1>6 DEF Inv

LEMMA RevokeClientKeeps ==
  ASSUME Inv, NEW i \in Ids, RevokeClient(i)
  PROVE  Inv'
<1> DEFINE rowNow == [row[i] EXCEPT !.status = "revoked"]
<1>1. rowNow \in Row
  BY DEF Inv, TypeOK, RevokeClient, Row
<1>2. /\ row' \in [Ids -> Row] /\ row'[i] = rowNow
      /\ \A z \in Ids \ {i} : row'[z] = row[z]
  BY <1>1, RowWrite DEF Inv, RevokeClient
<1>3. TypeOK'
  BY <1>2 DEF Inv, TypeOK, RevokeClient
<1>4. TokensAreMinted'
  BY <1>2 DEF Inv, TypeOK, RevokeClient, TokensAreMinted, Row
<1>5. UsesAreCounted'
  BY <1>2, <1>3, UsesKept DEF Inv, TypeOK, RevokeClient
<1>6. IdsAreRegistered'
  BY <1>2 DEF Inv, TypeOK, RevokeClient, IdsAreRegistered, Registered, TokensAreMinted,
     FileFollows, Row
<1>7. FileFollows'
  BY <1>2 DEF Inv, TypeOK, RevokeClient, FileFollows, Live, Row
<1>8. IdentitiesAreKept'
  BY <1>2 DEF Inv, TypeOK, RevokeClient, IdentitiesAreKept, FileFollows, TokensAreMinted, Holds,
     Live, Row
<1> QED BY <1>3, <1>4, <1>5, <1>6, <1>7, <1>8 DEF Inv

LEMMA BootKeeps ==
  ASSUME Inv, Boot
  PROVE  Inv'
<1>1. TypeOK'
  BY DEF Inv, TypeOK, Boot
<1>2. TokensAreMinted'
  BY DEF Inv, TypeOK, Boot, TokensAreMinted
<1>3. UsesAreCounted'
  BY <1>1, UsesKept DEF Inv, TypeOK, Boot
<1>4. IdsAreRegistered'
  BY DEF Inv, TypeOK, Boot, IdsAreRegistered, Registered, TokensAreMinted, FileFollows
<1>5. FileFollows'
  BY DEF Inv, TypeOK, Boot, FileFollows, Live
<1>6. IdentitiesAreKept'
  BY DEF Inv, TypeOK, Boot, IdentitiesAreKept, FileFollows, TokensAreMinted, Holds, Live
<1> QED BY <1>1, <1>2, <1>3, <1>4, <1>5, <1>6 DEF Inv

(* A registration.                                                         *)

LEMMA RegisterKeeps ==
  ASSUME Inv, NEW c \in Clients, NEW h \in Handlers, Register(c, h)
  PROVE  Inv'
<1> DEFINE clientNow == [client[c] EXCEPT !.at = "waiting", !.via = h]
<1> DEFINE handlerNow == [at |-> "read", token |-> client[c].join, 
                          seen |-> token[client[c].join].used, id |-> NoId]
<1>1. clientNow \in Client
  BY DEF Inv, TypeOK, Register, Client, Token
<1>2. /\ client' \in [Clients -> Client] /\ client'[c] = clientNow
      /\ \A z \in Clients \ {c} : client'[z] = client[z]
  BY <1>1, ClientWrite DEF Inv, Register
<1>3. handlerNow \in Handler
  BY DEF Inv, TypeOK, Register, Handler, Client, Token
<1>4. /\ handler' \in [Handlers -> Handler] /\ handler'[h] = handlerNow
      /\ \A z \in Handlers \ {h} : handler'[z] = handler[z]
  BY <1>3, HandlerWrite DEF Inv, Register
<1>5. TypeOK'
  BY <1>2, <1>4 DEF Inv, TypeOK, Register
<1>6. TokensAreMinted'
  BY <1>2, <1>4 DEF Inv, TypeOK, Register, TokensAreMinted, Usable, Spent, Handler, Client
<1>7. UsesAreCounted'
  <2>1. /\ raced' = raced /\ token' = token /\ row' = row
    BY DEF Register, history
  <2>2. /\ handler'[h].at = "read" /\ handler'[h].token \in Tokens
        /\ token[handler'[h].token].max > 0
             => handler'[h].seen < token[handler'[h].token].max
        /\ token[handler'[h].token].status # "none"
    <3>1. /\ client[c].join \in Tokens /\ Usable(client[c].join)
      BY DEF Register, Inv, TypeOK, Client
    <3>2. /\ token[client[c].join].used \in Nat /\ token[client[c].join].max \in Nat
          /\ token[client[c].join].status # "none"
          /\ token[client[c].join].max > 0
               => token[client[c].join].used < token[client[c].join].max
      BY <3>1 DEF Usable, Spent, Inv, TypeOK, Token
    <3> QED BY <1>4, <3>1, <3>2
  <2>3. \A z \in Handlers : handler'[z] = handler[z] \/ z = h
    BY <1>4
  <2> QED BY <1>5, <2>1, <2>2, <2>3, UsesKept
<1>8. IdsAreRegistered'
  BY <1>2, <1>4 DEF Inv, TypeOK, Register, IdsAreRegistered, Registered, TokensAreMinted,
     FileFollows, Usable, Spent, Handler, Client
<1>9. FileFollows'
  BY <1>2, <1>4 DEF Inv, TypeOK, Register, FileFollows, Live, Usable, Spent, Handler, Client
<1>10. IdentitiesAreKept'
  BY <1>2, <1>4 DEF Inv, TypeOK, Register, IdentitiesAreKept, FileFollows, TokensAreMinted,
     Holds, Live, Usable, Spent, Handler, Client
<1> QED BY <1>5, <1>6, <1>7, <1>8, <1>9, <1>10 DEF Inv

\* A token is raced when another use was counted since this one read it.
LEMMA CountKeeps ==
  ASSUME Inv, NEW h \in Handlers, Count(h)
  PROVE  Inv'
<1> DEFINE t == handler[h].token
           now == [handler[h] EXCEPT !.at = "counted"]
<1>1. /\ t \in Tokens /\ handler[h].seen \in Nat /\ handler[h].at = "read"
      /\ now \in Handler
  BY DEF Inv, TypeOK, Count, TokensAreMinted, Handler
<1>2. /\ handler' \in [Handlers -> Handler] /\ handler'[h] = now
      /\ \A z \in Handlers \ {h} : handler'[z] = handler[z]
  BY <1>1, HandlerWrite DEF Inv, Count
<1>3. /\ token' \in [Tokens -> Token]
      /\ \A x \in Tokens : token'[x].max = token[x].max /\ token'[x].status = token[x].status
      /\ \A x \in Tokens \ {t} : token'[x] = token[x]
      /\ token[t].max > 0 => token'[t].used = handler[h].seen + 1
  BY <1>1 DEF Inv, TypeOK, Count, Token
<1>4. TypeOK'
  BY <1>1, <1>2, <1>3 DEF Inv, TypeOK, Count
<1>5. TokensAreMinted'
  <2>1. \A x \in Tokens : token'[x].status = token[x].status
    BY <1>3
  <2>2. /\ now.token = handler[h].token /\ now.id = handler[h].id
        /\ now.at = "counted" /\ handler[h].at = "read"
    BY <1>1 DEF Inv, TypeOK, Handler, Count
  <2>3. \A i \in Ids : row'[i].by # NoToken => token'[row'[i].by].status # "none"
    BY <2>1 DEF Inv, TypeOK, Count, TokensAreMinted, Row
  <2>4. ASSUME NEW z \in Handlers
        PROVE  /\ handler'[z].token # NoToken => token'[handler'[z].token].status # "none"
               /\ handler'[z].at \in {"read", "counted", "admitted"} <=> handler'[z].token # NoToken
               /\ handler'[z].id # NoId => handler'[z].at = "answer"
    <3>1. /\ handler[z] \in Handler
          /\ handler[z].token # NoToken => token[handler[z].token].status # "none"
          /\ handler[z].at \in {"read", "counted", "admitted"} <=> handler[z].token # NoToken
          /\ handler[z].id # NoId => handler[z].at = "answer"
      BY DEF Inv, TypeOK, TokensAreMinted
    <3> HIDE DEF now
    <3>2. CASE z = h
      BY <1>2, <2>1, <2>2, <3>1, <3>2 DEF Handler
    <3>3. CASE z # h
      BY <1>2, <2>1, <3>1, <3>3 DEF Handler
    <3> QED BY <3>2, <3>3
  <2> QED BY <2>3, <2>4 DEF TokensAreMinted
<1>6. UsesAreCounted'
  <2> SUFFICES ASSUME NEW x \in Tokens, x \notin raced', token'[x].max > 0
               PROVE  /\ Cardinality(Admitted(x)') + Cardinality(Counted(x)') <= token'[x].used
                      /\ token'[x].used <= token'[x].max
                      /\ \A g \in Handlers :
                           handler'[g].token = x /\ handler'[g].at = "read"
                             => handler'[g].seen < token'[x].max
    BY DEF UsesAreCounted
  <2>1. Admitted(x)' = Admitted(x) /\ raced \subseteq raced'
    BY DEF Count, Admitted
  <2>2. /\ Cardinality(Admitted(x)) + Cardinality(Counted(x)) <= token[x].used
        /\ token[x].used <= token[x].max
        /\ \A g \in Handlers : handler[g].token = x /\ handler[g].at = "read"
                                 => handler[g].seen < token[x].max
    BY <1>3, <2>1 DEF Inv, UsesAreCounted
  <2>3. \A g \in Handlers : handler'[g].token = x /\ handler'[g].at = "read"
                              => handler'[g].seen < token'[x].max
    BY <1>1, <1>2, <1>3, <2>2 DEF Handler
  <2>4. CASE x # t
    <3>1. Counted(x)' = Counted(x)
      BY <1>1, <1>2, <2>4 DEF Counted, Handler
    <3> QED BY <1>3, <2>1, <2>2, <2>3, <2>4, <3>1
  <2>5. CASE x = t
    <3>1. Counted(x)' = Counted(x) \cup {h} /\ h \notin Counted(x)
      BY <1>1, <1>2, <2>5 DEF Counted, Handler
    <3>2. Cardinality(Counted(x)') = Cardinality(Counted(x)) + 1
      BY <3>1, Finite, FS_AddElement
    <3>3. token[x].used = handler[h].seen /\ token'[x].used = handler[h].seen + 1
      BY <1>3, <2>5 DEF Count
    <3>4. handler[h].seen < token[x].max /\ token[x].max \in Nat /\ token'[x].max = token[x].max
      BY <1>1, <1>3, <2>2, <2>5 DEF Inv, TypeOK, Token
    <3> QED BY <1>1, <2>1, <2>2, <2>3, <3>2, <3>3, <3>4, Finite
  <2> QED BY <2>4, <2>5
<1>7. IdsAreRegistered' /\ FileFollows'
  BY <1>1, <1>2 DEF Inv, Count, IdsAreRegistered, Registered, FileFollows, Live, Handler
<1>8. IdentitiesAreKept'
  BY <1>1, <1>2 DEF Inv, Count, IdentitiesAreKept, Holds, Live, Handler
<1> QED BY <1>4, <1>5, <1>6, <1>7, <1>8 DEF Inv

\* The client takes the place of the use that was counted for it.
LEMMA InsertKeeps ==
  ASSUME Inv, NEW h \in Handlers, NEW i \in Ids, Insert(h, i)
  PROVE  Inv'
<1> DEFINE handlerNow == [at |-> "answer", token |-> NoToken, seen |-> 0, id |-> i]
<1> DEFINE rowNow == [status |-> "live", by |-> handler[h].token]
<1>1. handlerNow \in Handler
  BY DEF Inv, TypeOK, Insert, Handler
<1>2. /\ handler' \in [Handlers -> Handler] /\ handler'[h] = handlerNow
      /\ \A z \in Handlers \ {h} : handler'[z] = handler[z]
  BY <1>1, HandlerWrite DEF Inv, Insert, Answers
<1>3. rowNow \in Row
  BY DEF Inv, TypeOK, Insert, Row, Handler
<1>4. /\ row' \in [Ids -> Row] /\ row'[i] = rowNow
      /\ \A z \in Ids \ {i} : row'[z] = row[z]
  BY <1>3, RowWrite DEF Inv, Insert, Answers
<1>5. TypeOK'
  BY <1>2, <1>4 DEF Inv, TypeOK, Insert, Answers
<1>6. TokensAreMinted'
  <2>1. handler[h].at = "admitted" /\ UNCHANGED token
    BY DEF Insert
  <2>2. handler[h].token # NoToken /\ token[handler[h].token].status # "none"
    BY <2>1 DEF Inv, TokensAreMinted
  <2>3. /\ rowNow.by = handler[h].token
        /\ handlerNow.at = "answer" /\ handlerNow.token = NoToken
    OBVIOUS
  <2> HIDE DEF rowNow, handlerNow
  <2>4. \A z \in Ids : row'[z].by # NoToken => token'[row'[z].by].status # "none"
    BY <1>4, <2>1, <2>2, <2>3 DEF Inv, TokensAreMinted
  <2> QED BY <1>2, <2>1, <2>3, <2>4 DEF Inv, TokensAreMinted
<1>7. UsesAreCounted'
  <2> DEFINE t == handler[h].token
  <2>1. handler[h].at = "admitted" /\ UNCHANGED <<token, raced>> /\ row[i].status = "none"
    BY DEF Insert
  <2>2. t \in Tokens
    BY <2>1 DEF Inv, TypeOK, TokensAreMinted, Handler
  <2> SUFFICES ASSUME NEW x \in Tokens, x \notin raced, token[x].max > 0
               PROVE  /\ Cardinality(Admitted(x)') + Cardinality(Counted(x)') <= token[x].used
                      /\ token[x].used <= token[x].max
                      /\ \A g \in Handlers :
                           handler'[g].token = x /\ handler'[g].at = "read"
                             => handler'[g].seen < token[x].max
    BY <2>1 DEF UsesAreCounted
  <2>3. /\ Cardinality(Admitted(x)) + Cardinality(Counted(x)) <= token[x].used
        /\ token[x].used <= token[x].max
        /\ \A g \in Handlers : handler[g].token = x /\ handler[g].at = "read"
                                 => handler[g].seen < token[x].max
    BY DEF Inv, UsesAreCounted
  <2>4. \A g \in Handlers : handler'[g].token = x /\ handler'[g].at = "read"
                              => handler'[g].seen < token[x].max
    BY <1>2, <2>3
  <2>5. token[x].used \in Nat
    BY DEF Inv, TypeOK, Token
  <2>6. CASE x # t
    <3>1. Counted(x)' \in SUBSET Counted(x)
      BY <1>2 DEF Counted
    <3>2. Admitted(x)' \in SUBSET Admitted(x)
      BY <1>4, <2>6 DEF Admitted
    <3>3. /\ Cardinality(Counted(x)') <= Cardinality(Counted(x))
          /\ Cardinality(Admitted(x)') <= Cardinality(Admitted(x))
          /\ Cardinality(Counted(x)') \in Nat /\ Cardinality(Admitted(x)') \in Nat
      BY <3>1, <3>2, Finite, FS_Subset, FS_CardinalityType
    <3> QED BY <2>3, <2>4, <2>5, <3>3, Finite
  <2>7. CASE x = t
    <3>1. Counted(x)' = Counted(x) \ {h} /\ h \in Counted(x)
      BY <1>2, <2>1, <2>2, <2>7 DEF Counted
    <3>2. Cardinality(Counted(x)') = Cardinality(Counted(x)) - 1
      BY <3>1, Finite, FS_RemoveElement
    <3>3. Admitted(x)' \in SUBSET (Admitted(x) \cup {i})
      BY <1>4 DEF Admitted
    <3>4. /\ IsFiniteSet(Admitted(x) \cup {i})
          /\ Cardinality(Admitted(x) \cup {i}) <= Cardinality(Admitted(x)) + 1
          /\ Cardinality(Admitted(x) \cup {i}) \in Nat
      <4>1. IsFiniteSet(Admitted(x)) /\ Cardinality(Admitted(x)) \in Nat
        BY Finite
      <4>2. /\ IsFiniteSet(Admitted(x) \cup {i})
            /\ Cardinality(Admitted(x) \cup {i})
                 = IF i \in Admitted(x) THEN Cardinality(Admitted(x))
                   ELSE Cardinality(Admitted(x)) + 1
        BY <4>1, FS_AddElement
      <4> QED BY <4>1, <4>2
    <3>5. /\ Cardinality(Admitted(x)') <= Cardinality(Admitted(x)) + 1
          /\ Cardinality(Admitted(x)') \in Nat
      BY <3>3, <3>4, Finite, FS_Subset, FS_CardinalityType
    <3> QED BY <2>3, <2>4, <2>5, <3>2, <3>5, Finite
  <2> QED BY <2>6, <2>7
<1>8. IdsAreRegistered'
  BY <1>2, <1>4 DEF Inv, TypeOK, Insert, IdsAreRegistered, Registered, TokensAreMinted,
     FileFollows, Handler, Row
<1>9. FileFollows'
  BY <1>2, <1>4 DEF Inv, TypeOK, Insert, FileFollows, IdsAreRegistered, Registered, Live, Row
<1>10. IdentitiesAreKept'
  <2>1. handler[h].id = NoId /\ row[i].status = "none" /\ UNCHANGED <<client, file, lost>>
    BY DEF Insert, Inv, TokensAreMinted
  <2>2. handler'[h].id = i
    BY <1>2
  <2> QED BY <1>2, <1>4, <2>1, <2>2 DEF Inv, IdentitiesAreKept, Holds, Live
<1> QED BY <1>5, <1>6, <1>7, <1>8, <1>9, <1>10 DEF Inv

LEMMA FailKeeps ==
  ASSUME Inv, NEW h \in Handlers, Fail(h)
  PROVE  Inv'
<1> DEFINE handlerNow == [at |-> "answer", token |-> NoToken, seen |-> 0, id |-> NoId]
<1>1. handlerNow \in Handler
  BY DEF Inv, TypeOK, Fail, Handler
<1>2. /\ handler' \in [Handlers -> Handler] /\ handler'[h] = handlerNow
      /\ \A z \in Handlers \ {h} : handler'[z] = handler[z]
  BY <1>1, HandlerWrite DEF Inv, Fail, Answers
<1>3. TypeOK'
  BY <1>2 DEF Inv, TypeOK, Fail, Answers, Fault
<1>4. TokensAreMinted'
  BY <1>2 DEF Inv, TypeOK, Fail, TokensAreMinted, Handler
<1>5. UsesAreCounted'
  BY <1>2, <1>3, UsesKept DEF Inv, TypeOK, Fail, Answers
<1>6. IdsAreRegistered'
  BY <1>2 DEF Inv, TypeOK, Fail, IdsAreRegistered, Registered, TokensAreMinted, FileFollows,
     Handler
<1>7. FileFollows'
  BY <1>2 DEF Inv, TypeOK, Fail, FileFollows, Live, Handler
<1>8. IdentitiesAreKept'
  <2>1. handler[h].id = NoId /\ UNCHANGED <<row, client, file, lost>>
    BY DEF Fail, Inv, TokensAreMinted
  <2> QED BY <1>2, <2>1 DEF Inv, IdentitiesAreKept, Holds, Live
<1> QED BY <1>3, <1>4, <1>5, <1>6, <1>7, <1>8 DEF Inv

LEMMA AbandonKeeps ==
  ASSUME Inv, NEW c \in Clients, Abandon(c)
  PROVE  Inv'
<1> DEFINE clientNow == [client[c] EXCEPT !.at = "joining", !.via = NoHandler]
<1>1. clientNow \in Client
  BY DEF Inv, TypeOK, Abandon, Client, Token
<1>2. /\ client' \in [Clients -> Client] /\ client'[c] = clientNow
      /\ \A z \in Clients \ {c} : client'[z] = client[z]
  BY <1>1, ClientWrite DEF Inv, Abandon
<1>3. TypeOK'
  BY <1>2 DEF Inv, TypeOK, Abandon, Fault
<1>4. TokensAreMinted'
  BY <1>2 DEF Inv, TypeOK, Abandon, TokensAreMinted, Client
<1>5. UsesAreCounted'
  BY <1>2, <1>3, UsesKept DEF Inv, TypeOK, Abandon
<1>6. IdsAreRegistered'
  BY <1>2 DEF Inv, TypeOK, Abandon, IdsAreRegistered, Registered, TokensAreMinted, FileFollows,
     Client
<1>7. FileFollows'
  BY <1>2 DEF Inv, TypeOK, Abandon, FileFollows, Live, Client
<1>8. IdentitiesAreKept'
  BY <1>2 DEF Inv, TypeOK, Abandon, IdentitiesAreKept, FileFollows, TokensAreMinted, Holds,
     Live, Client
<1> QED BY <1>3, <1>4, <1>5, <1>6, <1>7, <1>8 DEF Inv

(* The client.                                                             *)

LEMMA StartKeeps ==
  ASSUME Inv, NEW c \in Clients, NEW join \in Tokens \cup {NoToken}, Start(c, join)
  PROVE  Inv'
<1> DEFINE clientNow == [at |-> IF file[c] = NoId THEN "joining" ELSE "beating", id |-> file[c],
           proof |-> file[c] # NoId, join |-> join, via |-> NoHandler]
<1>1. clientNow \in Client
  BY DEF Inv, TypeOK, Start, Client
<1>2. /\ client' \in [Clients -> Client] /\ client'[c] = clientNow
      /\ \A z \in Clients \ {c} : client'[z] = client[z]
  BY <1>1, ClientWrite DEF Inv, Start
<1>3. TypeOK'
  BY <1>2 DEF Inv, TypeOK, Start
<1>4. TokensAreMinted'
  BY <1>2 DEF Inv, TypeOK, Start, TokensAreMinted, Client
<1>5. UsesAreCounted'
  BY <1>2, <1>3, UsesKept DEF Inv, TypeOK, Start
<1>6. IdsAreRegistered'
  BY <1>2 DEF Inv, TypeOK, Start, IdsAreRegistered, Registered, TokensAreMinted, FileFollows,
     Client
<1>7. FileFollows'
  BY <1>2 DEF Inv, TypeOK, Start, FileFollows, Live, Client
<1>8. IdentitiesAreKept'
  BY <1>2 DEF Inv, TypeOK, Start, IdentitiesAreKept, FileFollows, TokensAreMinted, Holds, Live,
     Client
<1> QED BY <1>3, <1>4, <1>5, <1>6, <1>7, <1>8 DEF Inv

LEMMA StartAsKeeps ==
  ASSUME Inv, NEW c \in Clients, NEW i \in Ids, NEW join \in Tokens \cup {NoToken},
         StartAs(c, i, join)
  PROVE  Inv'
<1> DEFINE clientNow == [at |-> "beating", id |-> i, proof |-> FALSE, join |-> join,
                         via |-> NoHandler]
<1>1. clientNow \in Client
  BY DEF Inv, TypeOK, StartAs, Client
<1>2. /\ client' \in [Clients -> Client] /\ client'[c] = clientNow
      /\ \A z \in Clients \ {c} : client'[z] = client[z]
  BY <1>1, ClientWrite DEF Inv, StartAs
<1>3. TypeOK'
  BY <1>2 DEF Inv, TypeOK, StartAs, Fault
<1>4. TokensAreMinted'
  BY <1>2 DEF Inv, TypeOK, StartAs, TokensAreMinted, Client
<1>5. UsesAreCounted'
  BY <1>2, <1>3, UsesKept DEF Inv, TypeOK, StartAs
<1>6. IdsAreRegistered'
  BY <1>2 DEF Inv, TypeOK, StartAs, IdsAreRegistered, Registered, TokensAreMinted, FileFollows,
     Client
<1>7. FileFollows'
  BY <1>2 DEF Inv, TypeOK, StartAs, FileFollows, Live, Client
<1>8. IdentitiesAreKept'
  BY <1>2 DEF Inv, TypeOK, StartAs, IdentitiesAreKept, FileFollows, TokensAreMinted, Holds,
     Live, Client
<1> QED BY <1>3, <1>4, <1>5, <1>6, <1>7, <1>8 DEF Inv

LEMMA SaveKeeps ==
  ASSUME Inv, NEW c \in Clients, Save(c)
  PROVE  Inv'
<1> DEFINE clientNow == [client[c] EXCEPT !.at = "beating"]
<1>1. clientNow \in Client
  BY DEF Inv, TypeOK, Save, Client, Token
<1>2. /\ client' \in [Clients -> Client] /\ client'[c] = clientNow
      /\ \A z \in Clients \ {c} : client'[z] = client[z]
  BY <1>1, ClientWrite DEF Inv, Save
<1>3. TypeOK'
  BY <1>2 DEF Inv, TypeOK, Save, Client
<1>4. TokensAreMinted'
  BY <1>2 DEF Inv, TypeOK, Save, TokensAreMinted, Client
<1>5. UsesAreCounted'
  BY <1>2, <1>3, UsesKept DEF Inv, TypeOK, Save
<1>6. IdsAreRegistered'
  BY <1>2 DEF Inv, TypeOK, Save, IdsAreRegistered, Registered, TokensAreMinted, FileFollows,
     Client
<1>7. FileFollows'
  BY <1>2 DEF Inv, TypeOK, Save, FileFollows, Live, Client
<1>8. IdentitiesAreKept'
  BY <1>2 DEF Inv, TypeOK, Save, IdentitiesAreKept, FileFollows, TokensAreMinted, Holds, Live,
     Client
<1> QED BY <1>3, <1>4, <1>5, <1>6, <1>7, <1>8 DEF Inv

LEMMA BeatRefusedKeeps ==
  ASSUME Inv, NEW c \in Clients, BeatRefused(c)
  PROVE  Inv'
<1> DEFINE clientNow == [client[c] EXCEPT !.at = "clearing", !.id = NoId, !.proof = FALSE]
<1>1. clientNow \in Client
  BY DEF Inv, TypeOK, BeatRefused, Client, Token
<1>2. /\ client' \in [Clients -> Client] /\ client'[c] = clientNow
      /\ \A z \in Clients \ {c} : client'[z] = client[z]
  BY <1>1, ClientWrite DEF Inv, BeatRefused, Forgets
<1>3. TypeOK'
  BY <1>2 DEF Inv, TypeOK, BeatRefused, Forgets
<1>4. TokensAreMinted'
  BY <1>2 DEF Inv, TypeOK, BeatRefused, Forgets, TokensAreMinted, Refused, Client
<1>5. UsesAreCounted'
  BY <1>2, <1>3, UsesKept DEF Inv, TypeOK, BeatRefused, Forgets
<1>6. IdsAreRegistered'
  BY <1>2 DEF Inv, TypeOK, BeatRefused, Forgets, IdsAreRegistered, Registered, TokensAreMinted,
     FileFollows, Refused, Client
<1>7. FileFollows'
  BY <1>2 DEF Inv, TypeOK, BeatRefused, Forgets, FileFollows, Live, Refused, Client
<1>8. IdentitiesAreKept'
  BY <1>2 DEF Inv, TypeOK, BeatRefused, Forgets, IdentitiesAreKept, FileFollows,
     TokensAreMinted, Holds, Live, Refused, Client
<1> QED BY <1>3, <1>4, <1>5, <1>6, <1>7, <1>8 DEF Inv

\* The server errs, and the fault is recorded.
LEMMA BeatFailsKeeps ==
  ASSUME Inv, NEW c \in Clients, BeatFails(c)
  PROVE  Inv'
<1> DEFINE clientNow == [client[c] EXCEPT !.at = "clearing", !.id = NoId, !.proof = FALSE]
<1>1. clientNow \in Client
  BY DEF Inv, TypeOK, BeatFails, Client, Token
<1>2. /\ client' \in [Clients -> Client] /\ client'[c] = clientNow
      /\ \A z \in Clients \ {c} : client'[z] = client[z]
  BY <1>1, ClientWrite DEF Inv, BeatFails, Forgets
<1>3. TypeOK'
  BY <1>2 DEF Inv, TypeOK, BeatFails, Forgets, Fault, Client
<1>4. TokensAreMinted'
  BY <1>2 DEF Inv, TypeOK, BeatFails, Forgets, TokensAreMinted, Client
<1>5. UsesAreCounted'
  BY <1>2, <1>3, UsesKept DEF Inv, TypeOK, BeatFails, Forgets
<1>6. IdsAreRegistered'
  BY <1>2 DEF Inv, TypeOK, BeatFails, Forgets, IdsAreRegistered, Registered, TokensAreMinted,
     FileFollows, Client
<1>7. FileFollows'
  BY <1>2 DEF Inv, TypeOK, BeatFails, Forgets, FileFollows, Live, Client
<1>8. IdentitiesAreKept'
  BY <1>2 DEF Inv, TypeOK, BeatFails, Forgets, IdentitiesAreKept, FileFollows, TokensAreMinted,
     Holds, Live, Client
<1> QED BY <1>3, <1>4, <1>5, <1>6, <1>7, <1>8 DEF Inv

LEMMA ClearKeeps ==
  ASSUME Inv, NEW c \in Clients, Clear(c)
  PROVE  Inv'
<1> DEFINE clientNow == [client[c] EXCEPT !.at = "joining"]
<1>1. clientNow \in Client
  BY DEF Inv, TypeOK, Client
<1>2. /\ client' \in [Clients -> Client] /\ client'[c] = clientNow
      /\ \A z \in Clients \ {c} : client'[z] = client[z]
  BY <1>1, ClientWrite DEF Inv, Clear
<1>3. TypeOK'
  BY <1>2 DEF Inv, TypeOK, Clear
<1>4. TokensAreMinted'
  BY <1>2 DEF Inv, TypeOK, Clear, TokensAreMinted, Client
<1>5. UsesAreCounted'
  BY <1>2, <1>3, UsesKept DEF Inv, TypeOK, Clear
<1>6. IdsAreRegistered'
  BY <1>2 DEF Inv, TypeOK, Clear, IdsAreRegistered, Registered, TokensAreMinted, FileFollows,
     Client
<1>7. FileFollows'
  BY <1>2 DEF Inv, TypeOK, Clear, FileFollows, Live, Client
<1>8. IdentitiesAreKept'
  BY <1>2 DEF Inv, TypeOK, Clear, IdentitiesAreKept, FileFollows, TokensAreMinted, Holds, Live,
     Client
<1> QED BY <1>3, <1>4, <1>5, <1>6, <1>7, <1>8 DEF Inv

LEMMA CrashKeeps ==
  ASSUME Inv, NEW c \in Clients, Crash(c)
  PROVE  Inv'
<1> DEFINE clientNow == [at |-> "down", id |-> NoId, proof |-> FALSE, join |-> NoToken,
                         via |-> NoHandler]
<1>1. clientNow \in Client
  BY DEF Inv, TypeOK, Crash, Client
<1>2. /\ client' \in [Clients -> Client] /\ client'[c] = clientNow
      /\ \A z \in Clients \ {c} : client'[z] = client[z]
  BY <1>1, ClientWrite DEF Inv, Crash, Down
<1>3. TypeOK'
  BY <1>2 DEF Inv, TypeOK, Crash, Down, Fault, Client
<1>4. TokensAreMinted'
  BY <1>2 DEF Inv, TypeOK, Crash, Down, TokensAreMinted, Client
<1>5. UsesAreCounted'
  BY <1>2, <1>3, UsesKept DEF Inv, TypeOK, Crash, Down
<1>6. IdsAreRegistered'
  BY <1>2 DEF Inv, TypeOK, Crash, Down, IdsAreRegistered, Registered, TokensAreMinted,
     FileFollows, Client
<1>7. FileFollows'
  BY <1>2 DEF Inv, TypeOK, Crash, Down, FileFollows, Live, Client
<1>8. IdentitiesAreKept'
  BY <1>2 DEF Inv, TypeOK, Crash, Down, IdentitiesAreKept, FileFollows, TokensAreMinted, Holds,
     Live, Client
<1> QED BY <1>3, <1>4, <1>5, <1>6, <1>7, <1>8 DEF Inv

\* The bootstrap token is fresh, and printing one changes no count.
LEMMA BootCreateKeeps ==
  ASSUME Inv, BootCreate
  PROVE  Inv'
<1>1. CASE UNCHANGED token
  <2>1. TypeOK'
    BY <1>1 DEF Inv, TypeOK, BootCreate
  <2>2. UsesAreCounted'
    BY <1>1, <2>1, UsesKept DEF Inv, BootCreate
  <2> QED BY <1>1, <2>1, <2>2 DEF Inv, BootCreate, TokensAreMinted, IdsAreRegistered, Registered,
             FileFollows, Live, IdentitiesAreKept, Holds
<1>2. ASSUME NEW t \in Tokens, token[t].status = "none",
             token' = [token EXCEPT ![t] = [Unminted EXCEPT !.status = "open", !.max = 1]],
             server' = "printing"
      PROVE  Inv'
  <2> DEFINE tokenNow == [Unminted EXCEPT !.status = "open", !.max = 1]
  <2>1. tokenNow \in Token /\ tokenNow.used = 0 /\ tokenNow.status = "open"
    <3>1. 1 \in 0 .. MaxUses + 1
      OBVIOUS
    <3>2. Unminted \in Token
      BY Rows
    <3>3. tokenNow.used = 0 /\ tokenNow.status = "open"
      BY DEF Unminted
    <3>4. tokenNow \in Token
      BY <3>1, <3>2 DEF Token
    <3> QED BY <3>3, <3>4
  <2> HIDE DEF tokenNow
  <2>2. /\ token' \in [Tokens -> Token] /\ token'[t] = tokenNow
        /\ \A z \in Tokens \ {t} : token'[z] = token[z]
    BY <1>2, <2>1, TokenWrite DEF Inv, tokenNow
  <2>3. TypeOK'
    BY <1>2, <2>2 DEF Inv, TypeOK, BootCreate
  <2>4. TokensAreMinted'
    BY <1>2, <2>1, <2>2 DEF Inv, TypeOK, BootCreate, TokensAreMinted
  <2>5. UsesAreCounted'
    BY <1>2, <2>1, <2>2, <2>3, UsesKept DEF Inv, TypeOK, BootCreate
  <2>6. IdsAreRegistered' /\ FileFollows' /\ IdentitiesAreKept'
    BY DEF Inv, BootCreate, IdsAreRegistered, Registered, FileFollows, Live, IdentitiesAreKept,
       Holds
  <2> QED BY <2>3, <2>4, <2>5, <2>6 DEF Inv
<1> QED BY <1>1, <1>2 DEF BootCreate

LEMMA BootPrintKeeps ==
  ASSUME Inv, BootPrint
  PROVE  Inv'
<1>1. \A t \in Tokens : /\ token'[t] \in Token /\ token'[t].status = token[t].status
                        /\ token'[t].max = token[t].max /\ token'[t].used = token[t].used
  BY DEF Inv, TypeOK, BootPrint, Token
<1>2. token' \in [Tokens -> Token]
  BY <1>1 DEF BootPrint
<1>3. TypeOK'
  BY <1>2 DEF Inv, TypeOK, BootPrint
<1>4. TokensAreMinted'
  BY <1>1 DEF Inv, TypeOK, BootPrint, TokensAreMinted, Row, Handler
<1>5. UsesAreCounted'
  BY <1>1, <1>3, UsesKept DEF Inv, BootPrint
<1>6. IdsAreRegistered' /\ FileFollows' /\ IdentitiesAreKept'
  BY DEF Inv, BootPrint, IdsAreRegistered, Registered, FileFollows, Live, IdentitiesAreKept, Holds
<1> QED BY <1>3, <1>4, <1>5, <1>6 DEF Inv

\* The server stops: what it had registered and not answered is lost.
LEMMA StopKeeps ==
  ASSUME Inv, Stop
  PROVE  Inv'
<1>1. \A h \in Handlers : handler'[h] = Idle
  BY DEF Stop
<1>2. \A c \in Clients :
        /\ client'[c] \in Client /\ client'[c].id = client[c].id
        /\ client'[c].proof = client[c].proof /\ client'[c].join = client[c].join
        /\ \/ client'[c] = client[c] /\ client[c].at # "waiting"
           \/ client[c].at = "waiting" /\ client'[c].at = "joining" /\ client'[c].via = NoHandler
  BY DEF Inv, TypeOK, Stop, Client
<1>3. client' \in [Clients -> Client] /\ handler' \in [Handlers -> Handler]
  BY <1>2, Rows DEF Stop
<1>4. \A h \in Handlers : handler[h].id # NoId => handler[h].id \in lost'
  BY DEF Stop
<1>5. lost \subseteq lost' /\ lost' \subseteq Ids
  BY DEF Inv, TypeOK, Stop, Handler
<1>6. TypeOK'
  <2>1. faults' \in 0 .. MaxFaults
    <3>1. faults \in Nat /\ faults < MaxFaults /\ faults' = faults + 1
      <4>1. Fault
        BY DEF Stop
      <4>2. faults \in 0 .. MaxFaults
        BY DEF Inv, TypeOK
      <4> QED BY <4>1, <4>2 DEF Fault
    <3> QED BY <3>1
  <2> QED BY <1>3, <1>5, <2>1 DEF Inv, TypeOK, Stop
<1>7. TokensAreMinted'
  BY <1>1 DEF Inv, Stop, TokensAreMinted, Idle
<1>8. UsesAreCounted'
  BY <1>1, <1>6, UsesKept DEF Inv, Stop, Idle
<1>9. IdsAreRegistered'
  <2>1. /\ UNCHANGED <<row, file>>
        /\ \A h \in Handlers : handler'[h].id = NoId
    BY <1>1 DEF Stop, Idle
  <2>2. \A c \in Clients : client'[c].proof = client[c].proof /\ client'[c].id = client[c].id
    BY <1>2
  <2> QED BY <2>1, <2>2 DEF Inv, IdsAreRegistered, Registered
<1>10. FileFollows'
  BY <1>2, <1>5 DEF Inv, Stop, FileFollows, Live
<1>11. IdentitiesAreKept'
  <2> SUFFICES ASSUME NEW i \in Ids, Live(i), i \notin lost'
               PROVE  \E c \in Clients : Holds(c, i)'
    BY DEF IdentitiesAreKept, Stop, Live
  <2>1. i \notin lost /\ i # NoId
    BY <1>5 DEF Live
  <2>2. PICK c \in Clients : Holds(c, i)
    BY <1>4, <2>1 DEF Inv, IdentitiesAreKept
  <2>3. file' = file /\ client'[c].id = client[c].id /\ client'[c].proof = client[c].proof
    BY <1>2 DEF Stop
  <2> QED BY <2>2, <2>3 DEF Holds
<1> QED BY <1>6, <1>7, <1>8, <1>9, <1>10, <1>11 DEF Inv

LEMMA CheckKeeps ==
  ASSUME Inv, NEW h \in Handlers, Check(h)
  PROVE  Inv'
<1>1. ASSUME NEW handlerNow \in Handler, handler' = [handler EXCEPT ![h] = handlerNow],
             handlerNow.id = NoId, handler[h].at = "counted",
             UNCHANGED <<token, suspended, row, server, client, file, faults, history>>,
             \/ handlerNow.at = "answer" /\ handlerNow.token = NoToken
             \/ handlerNow.at = "admitted" /\ handlerNow.token = handler[h].token
      PROVE  Inv'
  <2>1. /\ handler' \in [Handlers -> Handler] /\ handler'[h] = handlerNow
        /\ \A z \in Handlers \ {h} : handler'[z] = handler[z]
    BY <1>1, HandlerWrite DEF Inv
  <2>2. handler[h].id = NoId
    BY <1>1 DEF Inv, TokensAreMinted
  <2>3. TypeOK'
    BY <1>1, <2>1 DEF Inv, TypeOK
  <2>4. TokensAreMinted'
    BY <1>1, <2>1 DEF Inv, TokensAreMinted
  <2>5. UsesAreCounted'
    BY <1>1, <2>1, <2>3, UsesKept DEF Inv
  <2>6. IdsAreRegistered' /\ FileFollows'
    BY <1>1, <2>1 DEF Inv, IdsAreRegistered, Registered, FileFollows, Live
  <2>7. IdentitiesAreKept'
    BY <1>1, <2>1, <2>2 DEF Inv, IdentitiesAreKept, Holds, Live
  <2> QED BY <2>3, <2>4, <2>5, <2>6, <2>7 DEF Inv
<1>2. handler[h].at = "counted" /\ handler[h] \in Handler /\ handler[h].id = NoId
  BY DEF Check, Inv, TypeOK, TokensAreMinted
<1>3. CASE Answers(h, NoId)
  <2> DEFINE handlerNow == [at |-> "answer", token |-> NoToken, seen |-> 0, id |-> NoId]
  <2>1. handlerNow \in Handler /\ handlerNow.at = "answer" /\ handlerNow.token = NoToken
        /\ handlerNow.id = NoId /\ handler' = [handler EXCEPT ![h] = handlerNow]
    BY <1>3 DEF Handler, Answers
  <2> HIDE DEF handlerNow
  <2> QED BY <1>1, <1>2, <2>1 DEF Check
<1>4. CASE handler' = [handler EXCEPT ![h].at = "admitted"]
  <2> DEFINE handlerNow == [handler[h] EXCEPT !.at = "admitted"]
  <2>1. handlerNow \in Handler /\ handlerNow.at = "admitted" /\ handlerNow.id = NoId
        /\ handlerNow.token = handler[h].token
    BY <1>2 DEF Handler
  <2>2. handler' = [handler EXCEPT ![h] = handlerNow]
    BY <1>4 DEF Inv, TypeOK
  <2> HIDE DEF handlerNow
  <2> QED BY <1>1, <1>2, <2>1, <2>2 DEF Check
<1> QED BY <1>3, <1>4 DEF Check

\* The answer: the client that waits holds the identity, or it is lost.
LEMMA ReplyKeeps ==
  ASSUME Inv, NEW h \in Handlers, Reply(h)
  PROVE  Inv'
<1> DEFINE i == handler[h].id
<1> DEFINE waiting == { c \in Clients : client[c].via = h }
<1>1. /\ handler' \in [Handlers -> Handler] /\ handler'[h] = Idle
      /\ \A z \in Handlers \ {h} : handler'[z] = handler[z]
  BY Rows, HandlerWrite DEF Inv, Reply
<1>2. i \in Ids \cup {NoId} /\ (i # NoId => Registered(i))
  BY DEF Inv, TypeOK, Handler, IdsAreRegistered
<1>3. \A c \in Clients : c \in waiting => client[c].at = "waiting" /\ ~client[c].proof
                                       /\ file[c] = NoId
  BY DEF Inv, TypeOK, FileFollows
<1>4. \A c \in Clients :
        /\ client'[c] \in Client
        /\ c \notin waiting => client'[c] = client[c]
        /\ c \in waiting /\ i = NoId =>
             /\ client'[c].at = "joining" /\ client'[c].via = NoHandler
             /\ client'[c].id = client[c].id /\ client'[c].proof = client[c].proof
        /\ c \in waiting /\ i # NoId =>
             /\ client'[c].at = "saving" /\ client'[c].via = NoHandler
             /\ client'[c].id = i /\ client'[c].proof
  <2> SUFFICES ASSUME NEW c \in Clients
               PROVE  /\ client'[c] \in Client
                      /\ c \notin waiting => client'[c] = client[c]
                      /\ c \in waiting /\ i = NoId =>
                           /\ client'[c].at = "joining" /\ client'[c].via = NoHandler
                           /\ client'[c].id = client[c].id /\ client'[c].proof = client[c].proof
                      /\ c \in waiting /\ i # NoId =>
                           /\ client'[c].at = "saving" /\ client'[c].via = NoHandler
                           /\ client'[c].id = i /\ client'[c].proof
    OBVIOUS
  <2>1. client[c] \in Client
    BY DEF Inv, TypeOK
  <2>2. client'[c] = IF c \notin waiting THEN client[c]
                     ELSE IF i = NoId
                       THEN [client[c] EXCEPT !.at = "joining", !.via = NoHandler]
                     ELSE [client[c] EXCEPT !.at = "saving", !.via = NoHandler, !.id = i,
                                            !.proof = TRUE]
    BY DEF Reply
  <2> HIDE DEF waiting, i
  <2>3. CASE c \notin waiting
    BY <2>1, <2>2, <2>3
  <2>4. CASE c \in waiting /\ i = NoId
    BY <2>1, <2>2, <2>4 DEF Client
  <2>5. CASE c \in waiting /\ i # NoId
    BY <1>2, <2>1, <2>2, <2>5 DEF Client
  <2> QED BY <2>3, <2>4, <2>5
<1>5. client' \in [Clients -> Client]
  BY <1>4 DEF Reply
<1>6. /\ lost \subseteq lost' /\ lost' \subseteq Ids
      /\ waiting = {} /\ i # NoId => i \in lost'
  BY <1>2 DEF Inv, TypeOK, Reply
<1>7. TypeOK'
  BY <1>1, <1>5, <1>6 DEF Inv, TypeOK, Reply
<1>8. TokensAreMinted'
  BY <1>1 DEF Inv, Reply, TokensAreMinted, Idle
<1>9. UsesAreCounted'
  BY <1>1, <1>7, UsesKept DEF Inv, Reply, Idle
<1>10. IdsAreRegistered'
  <2>1. /\ UNCHANGED <<row, file>>
        /\ \A g \in Handlers : handler'[g].id # NoId => handler'[g] = handler[g]
    BY <1>1 DEF Reply, Idle
  <2> HIDE DEF waiting, i
  <2>2. \A c \in Clients : client'[c].proof => client'[c].id # NoId /\ Registered(client'[c].id)
    BY <1>2, <1>3, <1>4 DEF Inv, IdsAreRegistered
  <2> QED BY <2>1, <2>2 DEF Inv, IdsAreRegistered, Registered
<1>11. FileFollows'
  BY <1>3, <1>4, <1>6 DEF Inv, Reply, FileFollows, Live
<1>12. IdentitiesAreKept'
  <2> SUFFICES ASSUME NEW x \in Ids, Live(x), x \notin lost'
               PROVE  \/ \E c \in Clients : Holds(c, x)'
                      \/ \E g \in Handlers : handler'[g].id = x
    BY DEF IdentitiesAreKept, Reply, Live
  <2>1. x \notin lost /\ x # NoId
    BY <1>6 DEF Live
  <2>2. CASE \E c \in Clients : Holds(c, x)
    <3>1. PICK c \in Clients : Holds(c, x)
      BY <2>2
    <3>2. c \notin waiting
      BY <1>3, <2>1, <3>1 DEF Holds
    <3> QED BY <1>4, <3>1, <3>2 DEF Holds, Reply
  <2>3. CASE \E g \in Handlers \ {h} : handler[g].id = x
    BY <1>1, <2>3
  <2>4. CASE i = x
    <3>1. PICK c \in Clients : c \in waiting
      BY <1>6, <2>1, <2>4
    <3> QED BY <1>4, <2>1, <2>4, <3>1 DEF Holds
  <2> QED BY <2>1, <2>2, <2>3, <2>4 DEF Inv, IdentitiesAreKept
<1> QED BY <1>7, <1>8, <1>9, <1>10, <1>11, <1>12 DEF Inv

-----------------------------------------------------------------------------

LEMMA InitInv == Init => Inv
<1> SUFFICES ASSUME Init PROVE Inv
  OBVIOUS
<1>1. TypeOK
  <2>1. faults \in 0 .. MaxFaults
    BY DEF Init
  <2> QED BY <2>1, Rows DEF Init, TypeOK
<1>2. TokensAreMinted /\ IdsAreRegistered /\ FileFollows /\ IdentitiesAreKept
  BY DEF Init, TokensAreMinted, IdsAreRegistered, Registered, FileFollows, IdentitiesAreKept,
     Live,
     NoRow, Idle, Down
<1>3. UsesAreCounted
  BY DEF Init, UsesAreCounted, Unminted
<1> QED BY <1>1, <1>2, <1>3 DEF Inv

LEMMA StepInv == Inv /\ [Next]_vars => Inv'
<1> SUFFICES ASSUME Inv, [Next]_vars PROVE Inv'
  OBVIOUS
<1>1. CASE UNCHANGED vars
  BY <1>1 DEF Inv, TypeOK, TokensAreMinted, UsesAreCounted, Admitted, Counted, IdsAreRegistered,
     Registered, FileFollows, Live, IdentitiesAreKept, Holds
<1>2. CASE OperatorStep
  BY <1>2, CloseKeeps, MintKeeps, SetSuspendedKeeps, RevokeClientKeeps DEF OperatorStep
<1>3. CASE ServerStep
  BY <1>3, BootKeeps, BootCreateKeeps, BootPrintKeeps, StopKeeps, CountKeeps, CheckKeeps,
     FailKeeps,
     ReplyKeeps, InsertKeeps DEF ServerStep
<1>4. ASSUME NEW c \in Clients, ClientStep(c)
      PROVE  Inv'
  BY <1>4, StartKeeps, StartAsKeeps, RegisterKeeps, SaveKeeps, BeatRefusedKeeps, BeatFailsKeeps,
     ClearKeeps, AbandonKeeps, CrashKeeps DEF ClientStep
<1> QED BY <1>1, <1>2, <1>3, <1>4 DEF Next

\* The conditions that carry the promises hold in every reachable state.
THEOREM InvCorrect == Spec => []Inv
<1> QED BY InitInv, StepInv, PTL DEF Spec

\* Every variable keeps its type: a row, a handler or a client is never half written.
THEOREM TypeCorrect == Spec => []TypeOK
<1>1. Inv => TypeOK
  BY DEF Inv
<1> QED BY <1>1, InvCorrect, PTL

\* A token admits no more clients than it was minted for, unless two registrations
\* read its count at the same time.
THEOREM LimitsCorrect == Spec => []LimitsHold
<1>1. Inv => LimitsHold
  <2> SUFFICES ASSUME Inv, NEW t \in Tokens, t \notin raced, token[t].max > 0
               PROVE  Cardinality(Admitted(t)) <= token[t].used /\ token[t].used <= token[t].max
    BY DEF LimitsHold
  <2>1. /\ Cardinality(Admitted(t)) + Cardinality(Counted(t)) <= token[t].used
        /\ token[t].used <= token[t].max
    BY DEF Inv, UsesAreCounted
  <2>2. token[t].used \in Nat
    BY DEF Inv, TypeOK, Token
  <2> QED BY <2>1, <2>2, Finite
<1> QED BY <1>1, InvCorrect, PTL

\* An identity that is good is held or on its way, unless a fault made away with it.
THEOREM IdentitiesCorrect == Spec => []IdentitiesAreKept
<1>1. Inv => IdentitiesAreKept
  BY DEF Inv
<1> QED BY <1>1, InvCorrect, PTL
=============================================================================

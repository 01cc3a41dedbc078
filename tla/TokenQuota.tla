----------------------------- MODULE TokenQuota -----------------------------
(***************************************************************************)
(* The monthly quota of AI tokens of one organization, and the chat that   *)
(* spends it.  The quota is a document that is read, changed in memory and *)
(* written back by every question (which resets it in a new month) and     *)
(* after every call of the language model (which adds the tokens used).    *)
(* That increment is a callback of LangChain, which runs callbacks in the  *)
(* background, one after the other: the chat goes on without waiting.      *)
(* The organization's AI configuration switches the chat on and off.       *)
(* The properties are proved at the end of the module.                     *)
(***************************************************************************)
EXTENDS Naturals, Sequences, FiniteSets, FiniteSetTheorems, SequenceTheorems, TLAPS

CONSTANTS
    Handlers,           \* requests in flight at the same time
    Background,         \* what runs the callbacks the chats left behind
    Tokens,             \* tokens one call of the model may report
    Limit,              \* OPEN_DPP_DEFAULT_AI_TOKEN_QUOTA; 0 is no quota
    MaxMonth,           \* bound: months that pass
    MaxAsks,            \* bound: questions and configuration changes in all
    MaxCount,           \* bound: tokens counted in a month
    MaxEnded            \* bound: callbacks waiting to be run

QuotaAssumption ==
    /\ Tokens \subseteq Nat \ {0} /\ Limit \in Nat
    /\ MaxMonth \in Nat /\ MaxAsks \in Nat /\ MaxCount \in Nat /\ MaxEnded \in Nat
    /\ Background \notin Handlers

\* All that read and write the quota.
Actors == Handlers \cup {Background}

VARIABLES
    quotas,             \* the quota documents; a read finds the first
    config,             \* the AI configuration: none or one
    handlers,           \* the local state of the handlers and of the background
    ended,              \* tokens of the calls whose callbacks wait to be run
    month,              \* the clock
    counted,            \* history: tokens that callbacks read the quota for
    midway,             \* history: the month began in the middle of something
    asks                \* counter for the bound

vars == <<quotas, config, handlers, ended, month, counted, midway, asks>>

Quota == [count : 0..MaxCount, lastSetBack : 0..MaxMonth]
Config == [id : 1..MaxAsks, isEnabled : BOOLEAN]

Idle == [at |-> "idle"]
\* amount: tokens to add, 0 while the question is being admitted
HandlerStates ==
    {Idle} \cup [at : {"read", "llm"}, amount : Tokens \cup {0}]
           \cup [at : {"reset", "save", "insert", "enforce"},
                 amount : Tokens \cup {0}, quota : Quota]
           \cup [at : {"configure"}, config : Config]

WaitingOK == ended \in Seq(Tokens) /\ Len(ended) <= MaxEnded /\ midway \in BOOLEAN

TypeOK ==
    /\ quotas \in Seq(Quota) /\ Len(quotas) <= Cardinality(Actors)
    /\ config \in SUBSET Config /\ Cardinality(config) <= 1
    /\ handlers \in [Actors -> HandlerStates]
    /\ WaitingOK
    /\ month \in 0..MaxMonth /\ counted \in 0..MaxCount /\ asks \in 0..MaxAsks

Init ==
    /\ quotas = <<>> /\ config = {}
    /\ handlers = [h \in Actors |-> Idle] /\ ended = <<>>
    /\ month = 0 /\ counted = 0 /\ midway = FALSE /\ asks = 0

Goto(h, state) == handlers' = [handlers EXCEPT ![h] = state]
At(h, at) == handlers[h].at = at

-----------------------------------------------------------------------------
\* handleMessage: the passport was resolved and its organization is known.
AskAgent(h) ==
    /\ At(h, "idle") /\ asks < MaxAsks /\ asks' = asks + 1
    /\ Goto(h, [at |-> "read", amount |-> 0])
    /\ UNCHANGED <<quotas, config, ended, month, counted, midway>>

NeedsReset(quota) == quota.lastSetBack # month

Create == [count |-> 0, lastSetBack |-> month]

\* Mutant: the count survives the reset.
ResetDate(quota) == [quota EXCEPT !.lastSetBack = month]
Reset(quota) == [quota EXCEPT !.count = 0, !.lastSetBack = month]

Increment(quota, amount) == [quota EXCEPT !.count = @ + amount]

\* getQuota, and the increment of a quota that needs no reset.
GetQuota(h) ==
    LET amount == handlers[h].amount
        Continue(at, quota) ==
            Goto(h, [at |-> at, amount |-> amount, quota |-> quota])
    IN  /\ At(h, "read") /\ counted + amount <= MaxCount
        /\ counted' = counted + amount
        /\ CASE quotas = <<>> -> Continue("save", Increment(Create, amount))
             [] quotas # <<>> /\ NeedsReset(quotas[1]) ->
                  Continue("reset", Reset(quotas[1]))
             [] OTHER -> Continue(IF amount = 0 THEN "enforce" ELSE "save",
                                  Increment(quotas[1], amount))
        /\ UNCHANGED <<quotas, config, ended, month, midway, asks>>

\* The reset is saved before the increment of the quota that needed it.
ResetQuota(h) ==
    /\ At(h, "reset")
    /\ quotas' = [quotas EXCEPT ![1] = handlers[h].quota]
    /\ LET amount == handlers[h].amount
       IN  Goto(h, [at |-> IF amount = 0 THEN "enforce" ELSE "save", amount |-> amount,
                    quota |-> Increment(handlers[h].quota, amount)])
    /\ UNCHANGED <<config, ended, month, counted, midway, asks>>

\* findOneAndUpdate with upsert: without a unique index, two upserts that
\* found nothing insert two documents.
UpsertQuota(h) ==
    /\ At(h, "save") /\ quotas = <<>>
    /\ handlers' = [handlers EXCEPT ![h].at = "insert"]
    /\ UNCHANGED <<quotas, config, ended, month, counted, midway, asks>>

SaveQuota(h) ==
    /\ \/ /\ At(h, "save") /\ quotas # <<>>
          /\ quotas' = [quotas EXCEPT ![1] = handlers[h].quota]
       \/ At(h, "insert") /\ quotas' = Append(quotas, handlers[h].quota)
    /\ IF handlers[h].amount = 0
       THEN handlers' = [handlers EXCEPT ![h].at = "enforce"]
       ELSE Goto(h, Idle)
    /\ UNCHANGED <<config, ended, month, counted, midway, asks>>

-----------------------------------------------------------------------------
Exceeded(quota) == Limit # 0 /\ quota.count >= Limit

\* enforce, and the configuration that is read after it.
Admit(h) ==
    /\ At(h, "enforce")
    /\ IF ~Exceeded(handlers[h].quota) /\ \E c \in config : c.isEnabled
       THEN Goto(h, [at |-> "llm", amount |-> 0])
       ELSE Goto(h, Idle)
    /\ UNCHANGED <<quotas, config, ended, month, counted, midway, asks>>

\* A call of the model ends.  The agent does not wait for the callback: it
\* calls the model again, or answers.
HandleLLMEnd(h) ==
    /\ At(h, "llm") /\ Len(ended) < MaxEnded
    /\ \E amount \in Tokens : ended' = Append(ended, amount)
    /\ UNCHANGED <<quotas, config, handlers, month, counted, midway, asks>>

\* The next callback is run, when the one before it has counted its tokens.
RunCallback ==
    /\ At(Background, "idle") /\ ended # <<>>
    /\ Goto(Background, [at |-> "read", amount |-> Head(ended)])
    /\ ended' = Tail(ended)
    /\ UNCHANGED <<quotas, config, month, counted, midway, asks>>

BotMessage(h) ==
    /\ At(h, "llm") /\ Goto(h, Idle)
    /\ UNCHANGED <<quotas, config, ended, month, counted, midway, asks>>

-----------------------------------------------------------------------------
UpsertConfiguration(h, isEnabled) ==
    /\ At(h, "idle") /\ asks < MaxAsks /\ asks' = asks + 1
    /\ Goto(h, [at |-> "configure",
                config |-> [id |-> IF config = {} THEN asks + 1
                                   ELSE (CHOOSE c \in config : TRUE).id,
                            isEnabled |-> isEnabled]])
    /\ UNCHANGED <<quotas, config, ended, month, counted, midway>>

\* The organization is a unique key: a second creation is refused.
SaveConfiguration(h) ==
    /\ At(h, "configure") /\ Goto(h, Idle)
    /\ config' = IF \A c \in config : c.id = handlers[h].config.id
                 THEN {handlers[h].config} ELSE config
    /\ UNCHANGED <<quotas, ended, month, counted, midway, asks>>

\* Nobody is asking, and what the calls reported is counted.
Quiet == ended = <<>> /\ \A a \in Actors : At(a, "idle") \/ At(a, "configure")

NextMonth ==
    /\ month < MaxMonth /\ month' = month + 1
    /\ counted' = 0 /\ midway' = ~Quiet
    /\ UNCHANGED <<quotas, config, handlers, ended, asks>>

Next ==
    \/ \E a \in Actors : GetQuota(a) \/ ResetQuota(a) \/ UpsertQuota(a) \/ SaveQuota(a)
    \/ \E h \in Handlers :
         \/ AskAgent(h) \/ Admit(h) \/ HandleLLMEnd(h) \/ BotMessage(h)
         \/ \E b \in BOOLEAN : UpsertConfiguration(h, b)
         \/ SaveConfiguration(h)
    \/ RunCallback
    \/ NextMonth

Spec == Init /\ [][Next]_vars

-----------------------------------------------------------------------------
Saving(h) == handlers[h].at \in {"reset", "save", "insert"}

\* What the quota says of the month, between two writes, is what the callbacks
\* counted.  A month that began in the middle of a question, or before all that
\* was spent had been counted, is left out.
QuotaCountsTokens ==
    ~midway /\ (\A a \in Actors : ~Saving(a)) =>
        counted = IF quotas # <<>> /\ ~NeedsReset(quotas[1])
                  THEN quotas[1].count ELSE 0

\* No quota document of this month ever counts more than was spent, so no
\* organization is refused for tokens it did not use.
NeverOvercharged ==
    \A i \in DOMAIN quotas :
        quotas[i].lastSetBack = month => quotas[i].count <= counted

-----------------------------------------------------------------------------
(* TypeOK and NeverOvercharged, for every number of handlers               *)

\* In month m, when c tokens were spent, a quota document that may still have
\* to count some tokens says no more than was spent, and does not come from a
\* month to come.
Honest(quota, due, m, c) ==
    /\ quota.lastSetBack <= m
    /\ quota.lastSetBack = m => quota.count + due <= c

\* The copies in memory are honest as well; a copy that was reset starts at
\* zero, and the tokens of its call are spent but not yet in it.
CopyOK(s, m, c) ==
    /\ s.at \in {"save", "insert", "enforce"} => Honest(s.quota, 0, m, c)
    /\ s.at = "reset" => /\ Honest(s.quota, s.amount, m, c)
                         /\ s.quota.count = 0 /\ s.amount <= MaxCount

Inserting == {h \in Actors : At(h, "insert")}

\* Only those that found no quota insert one.
InsertionsBounded ==
    Len(quotas) + Cardinality(Inserting) <= Cardinality(Actors)

HonestInv ==
    /\ TypeOK
    /\ \A i \in DOMAIN quotas : Honest(quotas[i], 0, month, counted)
    /\ \A h \in Actors : CopyOK(handlers[h], month, counted)
    /\ InsertionsBounded

\* What a handler has in hand, by where it is.
LEMMA InHand ==
    ASSUME NEW s \in HandlerStates
    PROVE  /\ s.at \in {"idle", "read", "llm", "reset", "save", "insert", "enforce",
                        "configure"}
           /\ s.at \in {"read", "llm"} =>
                /\ s = [at |-> s.at, amount |-> s.amount]
                /\ s.amount \in Tokens \cup {0}
           /\ s.at \in {"reset", "save", "insert", "enforce"} =>
                /\ s = [at |-> s.at, amount |-> s.amount, quota |-> s.quota]
                /\ s.amount \in Tokens \cup {0} /\ s.quota \in Quota
           /\ s.at = "configure" => s.config \in Config
<1>1. CASE s = Idle
  BY <1>1 DEF Idle
<1>2. CASE s \in [at : {"read", "llm"}, amount : Tokens \cup {0}]
  BY <1>2
<1>3. CASE s \in [at : {"reset", "save", "insert", "enforce"},
                  amount : Tokens \cup {0}, quota : Quota]
  BY <1>3
<1>4. CASE s \in [at : {"configure"}, config : Config]
  BY <1>4
<1> QED BY <1>1, <1>2, <1>3, <1>4 DEF HandlerStates

\* The states a handler goes to.
LEMMA States ==
    /\ Idle \in HandlerStates
    /\ \A at \in {"read", "llm"}, n \in Tokens \cup {0} :
         [at |-> at, amount |-> n] \in HandlerStates
    /\ \A at \in {"reset", "save", "insert", "enforce"}, n \in Tokens \cup {0}, q \in Quota :
         [at |-> at, amount |-> n, quota |-> q] \in HandlerStates
    /\ \A c \in Config : [at |-> "configure", config |-> c] \in HandlerStates
BY DEF HandlerStates

LEMMA QuotaValues ==
    ASSUME NEW q \in Quota, QuotaAssumption
    PROVE  /\ q.count \in 0..MaxCount /\ q.lastSetBack \in 0..MaxMonth
           /\ \A n \in Nat : q.count + n <= MaxCount =>
                /\ Increment(q, n) \in Quota
                /\ Increment(q, n).count = q.count + n
                /\ Increment(q, n).lastSetBack = q.lastSetBack
           /\ month \in 0..MaxMonth =>
                /\ Reset(q) \in Quota
                /\ Reset(q).count = 0 /\ Reset(q).lastSetBack = month
<1>1. q.count \in 0..MaxCount /\ q.lastSetBack \in 0..MaxMonth /\ MaxCount \in Nat
  BY DEF Quota, QuotaAssumption
<1>2. q = [count |-> q.count, lastSetBack |-> q.lastSetBack]
  BY DEF Quota
<1>3. \A n \in Nat : Increment(q, n) = [count |-> q.count + n,
                                        lastSetBack |-> q.lastSetBack]
  BY <1>2 DEF Increment
<1>4. Reset(q) = [count |-> 0, lastSetBack |-> month]
  <2>1. [q EXCEPT !.count = 0] = [count |-> 0, lastSetBack |-> q.lastSetBack]
    BY <1>2
  <2>2. Reset(q) = [[q EXCEPT !.count = 0] EXCEPT !.lastSetBack = month]
    BY <1>2 DEF Reset
  <2> QED BY <2>1, <2>2
<1> QED BY <1>1, <1>3, <1>4 DEF Quota

\* A handler that takes a step keeps the bound on insertions, if it inserts
\* nothing and does not come to insert one that is not missing.
LEMMA StepsOf ==
    ASSUME IsFiniteSet(Actors), HonestInv, NEW h \in Actors, NEW s,
           handlers' = [handlers EXCEPT ![h] = s]
    PROVE  /\ Cardinality(Inserting) \in Nat /\ Cardinality(Actors) \in Nat
           /\ Cardinality(Inserting') \in Nat
           /\ Cardinality(Inserting') <= Cardinality(Actors)
           /\ handlers[h].at # "insert" /\ s.at # "insert" => Inserting' = Inserting
           /\ handlers[h].at = "insert" /\ s.at # "insert" =>
                Cardinality(Inserting') = Cardinality(Inserting) - 1
           /\ handlers' [h] = s
           /\ \A g \in Actors \ {h} : handlers'[g] = handlers[g]
<1>0. handlers \in [Actors -> HandlerStates]
  BY DEF HonestInv, TypeOK
<1>1. /\ handlers'[h] = s
      /\ \A g \in Actors \ {h} : handlers'[g] = handlers[g]
  BY <1>0
<1>2. Inserting \in SUBSET Actors /\ Inserting' \in SUBSET Actors
  BY DEF Inserting
<1>3. /\ IsFiniteSet(Inserting) /\ IsFiniteSet(Inserting')
      /\ Cardinality(Inserting') <= Cardinality(Actors)
  BY <1>2, FS_Subset
<1>4. /\ Cardinality(Inserting) \in Nat /\ Cardinality(Actors) \in Nat
      /\ Cardinality(Inserting') \in Nat
  BY <1>3, FS_CardinalityType
<1>5. handlers[h].at # "insert" /\ s.at # "insert" => Inserting' = Inserting
  BY <1>1 DEF Inserting, At
<1>6. ASSUME handlers[h].at = "insert", s.at # "insert"
      PROVE  Cardinality(Inserting') = Cardinality(Inserting) - 1
  <2>1. h \in Inserting /\ Inserting' = Inserting \ {h}
    BY <1>1, <1>6 DEF Inserting, At
  <2> QED BY <1>3, <2>1, FS_RemoveElement
<1> QED BY <1>1, <1>3, <1>4, <1>5, <1>6

\* What is honest stays so as tokens are spent and months pass.
LEMMA StaysHonest ==
    ASSUME NEW q \in Quota, NEW n \in Nat, NEW m \in Nat, NEW c \in Nat,
           QuotaAssumption, Honest(q, n, m, c)
    PROVE  /\ \A d \in Nat : d >= c => Honest(q, n, m, d)
           /\ Honest(q, n, m + 1, 0)
BY QuotaValues DEF Honest

\* A step that changes nothing but one handler and, perhaps, the bounds.
LEMMA Steps ==
    ASSUME QuotaAssumption, IsFiniteSet(Actors), HonestInv,
           NEW h \in Actors, NEW s \in HandlerStates,
           handlers' = [handlers EXCEPT ![h] = s],
           handlers[h].at # "insert", s.at # "insert" \/ quotas = <<>>,
           CopyOK(s, month, counted'),
           UNCHANGED <<quotas, month>>, config' \in SUBSET Config,
           Cardinality(config') <= 1, asks' \in 0..MaxAsks, WaitingOK',
           counted' \in counted..MaxCount
    PROVE  HonestInv'
<1>0. /\ handlers \in [Actors -> HandlerStates]
      /\ quotas \in Seq(Quota) /\ Len(quotas) \in Nat
      /\ counted \in 0..MaxCount /\ month \in 0..MaxMonth
      /\ counted \in Nat /\ counted' \in Nat /\ counted' >= counted /\ month \in Nat
      /\ MaxCount \in Nat /\ MaxMonth \in Nat
  BY DEF HonestInv, TypeOK, QuotaAssumption
<1>1. TypeOK'
  BY <1>0 DEF HonestInv, TypeOK
<1>2. \A i \in DOMAIN quotas : Honest(quotas[i], 0, month, counted')
  <2> SUFFICES ASSUME NEW i \in DOMAIN quotas
               PROVE  Honest(quotas[i], 0, month, counted')
    OBVIOUS
  <2>1. quotas[i] \in Quota
    BY <1>0
  <2>2. Honest(quotas[i], 0, month, counted)
    BY DEF HonestInv
  <2> QED BY <1>0, <2>1, <2>2, StaysHonest
<1>3. \A g \in Actors : CopyOK(handlers'[g], month, counted')
  <2> SUFFICES ASSUME NEW g \in Actors PROVE CopyOK(handlers'[g], month, counted')
    OBVIOUS
  <2>1. CASE g = h
    BY <1>0, <2>1
  <2>2. CASE g # h
    <3>1. handlers'[g] = handlers[g] /\ handlers[g] \in HandlerStates
      BY <1>0, <2>2
    <3>2. CopyOK(handlers[g], month, counted)
      BY DEF HonestInv
    <3>3. handlers[g].at \in {"reset", "save", "insert", "enforce"} =>
            handlers[g].amount \in Nat /\ handlers[g].quota \in Quota
      BY <3>1, InHand DEF QuotaAssumption
    <3>4. ASSUME handlers[g].at \in {"save", "insert", "enforce"}
          PROVE  Honest(handlers[g].quota, 0, month, counted')
      <4>1. Honest(handlers[g].quota, 0, month, counted)
        BY <3>2, <3>4 DEF CopyOK
      <4> QED BY <1>0, <3>3, <3>4, <4>1, StaysHonest
    <3>5. ASSUME handlers[g].at = "reset"
          PROVE  Honest(handlers[g].quota, handlers[g].amount, month, counted')
      <4>1. Honest(handlers[g].quota, handlers[g].amount, month, counted)
        BY <3>2, <3>5 DEF CopyOK
      <4> QED BY <1>0, <3>3, <3>5, <4>1, StaysHonest
    <3> QED BY <3>1, <3>2, <3>4, <3>5 DEF CopyOK
  <2> QED BY <2>1, <2>2
<1>4. InsertionsBounded'
  <2>1. /\ Cardinality(Inserting) \in Nat /\ Cardinality(Actors) \in Nat
        /\ Cardinality(Inserting') \in Nat
        /\ Cardinality(Inserting') <= Cardinality(Actors)
        /\ s.at # "insert" => Inserting' = Inserting
    BY StepsOf
  <2>2. InsertionsBounded
    BY DEF HonestInv
  <2>3. quotas = <<>> => Len(quotas) = 0
    OBVIOUS
  <2>4. quotas' = quotas
    OBVIOUS
  <2>5. CASE s.at # "insert"
    BY <2>1, <2>2, <2>4, <2>5 DEF InsertionsBounded
  <2>6. CASE quotas = <<>>
    BY <2>1, <2>3, <2>4, <2>6 DEF InsertionsBounded
  <2> QED BY <2>5, <2>6
<1> QED BY <1>1, <1>2, <1>3, <1>4 DEF HonestInv

LEMMA InitHonest ==
    ASSUME QuotaAssumption, IsFiniteSet(Actors), Init
    PROVE  HonestInv
<1>1. /\ quotas = <<>> /\ Len(quotas) = 0 /\ DOMAIN quotas = {}
      /\ handlers = [h \in Actors |-> Idle] /\ ended = <<>> /\ midway = FALSE
      /\ month = 0 /\ counted = 0 /\ asks = 0 /\ config = {}
  BY DEF Init
<1>w. WaitingOK
  <2>1. ended \in Seq(Tokens)
    BY <1>1
  <2>2. Len(ended) = 0 /\ midway \in BOOLEAN
    BY <1>1
  <2>3. Len(ended) <= MaxEnded
    BY <2>2 DEF QuotaAssumption
  <2> QED BY <2>1, <2>2, <2>3 DEF WaitingOK
<1>2. Cardinality(config) = 0
  BY <1>1, FS_EmptySet
<1>3. Inserting = {}
  BY <1>1 DEF Inserting, At, Idle
<1>4. Cardinality(Actors) \in Nat /\ Cardinality(Inserting) = 0
  BY <1>3, FS_EmptySet, FS_CardinalityType
<1>5. quotas \in Seq(Quota)
  BY <1>1
<1>6. TypeOK
  BY <1>1, <1>w, <1>2, <1>4, <1>5, States DEF TypeOK, QuotaAssumption
<1>7. \A h \in Actors : CopyOK(handlers[h], month, counted)
  BY <1>1 DEF CopyOK, Idle
<1>8. InsertionsBounded
  BY <1>1, <1>4 DEF InsertionsBounded
<1> QED BY <1>1, <1>6, <1>7, <1>8 DEF HonestInv

\* A step that writes the first quota document.
LEMMA Writes ==
    ASSUME QuotaAssumption, IsFiniteSet(Actors), HonestInv,
           NEW h \in Actors, NEW s \in HandlerStates,
           handlers' = [handlers EXCEPT ![h] = s],
           s.at # "insert", CopyOK(s, month, counted),
           quotas' \in Seq(Quota),
           \A i \in DOMAIN quotas' : Honest(quotas'[i], 0, month, counted),
           \/ handlers[h].at # "insert" /\ Len(quotas') = Len(quotas)
           \/ handlers[h].at = "insert" /\ Len(quotas') = Len(quotas) + 1,
           UNCHANGED <<config, ended, month, counted, midway, asks>>
    PROVE  HonestInv'
<1>0. /\ handlers \in [Actors -> HandlerStates]
      /\ Len(quotas) \in Nat /\ Len(quotas') \in Nat
  BY DEF HonestInv, TypeOK
<1>1. \A g \in Actors : CopyOK(handlers'[g], month, counted)
  BY <1>0 DEF HonestInv
<1>2. InsertionsBounded'
  <2>1. /\ Cardinality(Inserting) \in Nat /\ Cardinality(Actors) \in Nat
        /\ Cardinality(Inserting') \in Nat
        /\ handlers[h].at # "insert" => Inserting' = Inserting
        /\ handlers[h].at = "insert" =>
             Cardinality(Inserting') = Cardinality(Inserting) - 1
    BY StepsOf
  <2>2. Len(quotas) + Cardinality(Inserting) <= Cardinality(Actors)
    BY DEF HonestInv, InsertionsBounded
  <2>3. Len(quotas') + Cardinality(Inserting') <= Cardinality(Actors)
    BY <1>0, <2>1, <2>2
  <2> QED BY <2>3 DEF InsertionsBounded
<1>3. Len(quotas') <= Cardinality(Actors)
  <2>1. Cardinality(Inserting') \in Nat /\ Cardinality(Actors) \in Nat
    BY StepsOf
  <2>2. Len(quotas') + Cardinality(Inserting') <= Cardinality(Actors)
    BY <1>2 DEF InsertionsBounded
  <2> QED BY <1>0, <2>1, <2>2
<1>4. TypeOK'
  BY <1>0, <1>3 DEF HonestInv, TypeOK, WaitingOK
<1> QED BY <1>1, <1>2, <1>4 DEF HonestInv

LEMMA GetQuotaHonest ==
    ASSUME QuotaAssumption, IsFiniteSet(Actors), HonestInv,
           NEW h \in Actors, GetQuota(h)
    PROVE  HonestInv'
<1> DEFINE amount == handlers[h].amount
<1> DEFINE To(at, q) == [at |-> at, amount |-> amount, quota |-> q]
<1>0. /\ handlers[h] \in HandlerStates /\ handlers[h].at = "read"
      /\ quotas \in Seq(Quota) /\ month \in 0..MaxMonth /\ counted \in 0..MaxCount
      /\ MaxCount \in Nat /\ MaxMonth \in Nat /\ month \in Nat /\ counted \in Nat
      /\ config \in SUBSET Config /\ Cardinality(config) <= 1 /\ asks \in 0..MaxAsks
  BY DEF HonestInv, TypeOK, QuotaAssumption, GetQuota, At
<1>1. amount \in Tokens \cup {0} /\ amount \in Nat
  BY <1>0, InHand DEF QuotaAssumption
<1>2. /\ counted' = counted + amount /\ counted + amount <= MaxCount
      /\ UNCHANGED <<quotas, config, month, asks>> /\ WaitingOK'
  BY DEF GetQuota, HonestInv, TypeOK, WaitingOK
<1> HIDE DEF amount
<1>3. counted' \in counted..MaxCount
  BY <1>0, <1>1, <1>2
<1>4. ASSUME NEW at \in {"reset", "save", "enforce"}, NEW q \in Quota,
             handlers' = [handlers EXCEPT ![h] = To(at, q)],
             IF at = "reset" THEN Honest(q, amount, month, counted') /\ q.count = 0
                             ELSE Honest(q, 0, month, counted')
      PROVE  HonestInv'
  <2>1. To(at, q) \in HandlerStates
    BY <1>1, States
  <2>2. CopyOK(To(at, q), month, counted')
    BY <1>0, <1>1, <1>2, <1>4 DEF CopyOK
  <2> QED BY <1>0, <1>2, <1>3, <1>4, <2>1, <2>2, Steps
<1>5. CASE quotas = <<>>
  <2>1. handlers' = [handlers EXCEPT ![h] = To("save", Increment(Create, amount))]
    BY <1>5 DEF GetQuota, Goto, amount
  <2>2. Create \in Quota /\ Create.count = 0 /\ Create.lastSetBack = month
    BY <1>0 DEF Create, Quota
  <2>3. /\ Increment(Create, amount) \in Quota
        /\ Increment(Create, amount).count = amount
        /\ Increment(Create, amount).lastSetBack = month
    BY <1>0, <1>1, <1>2, <2>2, QuotaValues
  <2>4. Honest(Increment(Create, amount), 0, month, counted')
    BY <1>0, <1>1, <1>2, <2>3 DEF Honest
  <2> QED BY <1>4, <2>1, <2>3, <2>4
<1>6. CASE quotas # <<>>
  <2>1. quotas[1] \in Quota /\ Honest(quotas[1], 0, month, counted)
    <3>1. 1 \in DOMAIN quotas
      BY <1>0, <1>6
    <3> QED BY <1>0, <3>1 DEF HonestInv
  <2>2. CASE NeedsReset(quotas[1])
    <3>1. handlers' = [handlers EXCEPT ![h] = To("reset", Reset(quotas[1]))]
      BY <1>6, <2>2 DEF GetQuota, Goto, amount
    <3>2. /\ Reset(quotas[1]) \in Quota
          /\ Reset(quotas[1]).count = 0 /\ Reset(quotas[1]).lastSetBack = month
      BY <1>0, <2>1, QuotaValues
    <3>3. Honest(Reset(quotas[1]), amount, month, counted')
      BY <1>0, <1>1, <1>2, <3>2 DEF Honest
    <3> QED BY <1>4, <3>1, <3>2, <3>3
  <2>3. CASE ~NeedsReset(quotas[1])
    <3> DEFINE at == IF amount = 0 THEN "enforce" ELSE "save"
    <3>1. handlers' = [handlers EXCEPT ![h] = To(at, Increment(quotas[1], amount))]
      BY <1>6, <2>3 DEF GetQuota, Goto, amount
    <3>2. quotas[1].lastSetBack = month /\ quotas[1].count <= counted
          /\ quotas[1].count \in Nat
      BY <1>0, <2>1, <2>3, QuotaValues DEF NeedsReset, Honest
    <3>3. quotas[1].count + amount <= MaxCount
      BY <1>0, <1>1, <1>2, <3>2
    <3>4. /\ Increment(quotas[1], amount) \in Quota
          /\ Increment(quotas[1], amount).count = quotas[1].count + amount
          /\ Increment(quotas[1], amount).lastSetBack = month
      BY <1>1, <2>1, <3>2, <3>3, QuotaValues
    <3>5. Honest(Increment(quotas[1], amount), 0, month, counted')
      BY <1>0, <1>1, <1>2, <3>2, <3>4 DEF Honest
    <3>6. at \in {"reset", "save", "enforce"} /\ at # "reset"
      OBVIOUS
    <3> QED BY <1>4, <3>1, <3>4, <3>5, <3>6
  <2> QED BY <2>2, <2>3
<1> QED BY <1>5, <1>6

\* Replacing the first of the documents.
LEMMA FirstReplaced ==
    ASSUME NEW w \in Seq(Quota), NEW q \in Quota
    PROVE  /\ [w EXCEPT ![1] = q] \in Seq(Quota)
           /\ Len([w EXCEPT ![1] = q]) = Len(w)
           /\ DOMAIN [w EXCEPT ![1] = q] = DOMAIN w
           /\ \A i \in DOMAIN w : [w EXCEPT ![1] = q][i] = IF i = 1 THEN q ELSE w[i]
<1>1. CASE w = <<>>
  <2>1. DOMAIN w = {}
    BY <1>1
  <2>2. [w EXCEPT ![1] = q] = w
    BY <1>1, <2>1
  <2> QED BY <2>1, <2>2
<1>2. CASE w # <<>>
  <2>1. 1 \in 1..Len(w) /\ DOMAIN w = 1..Len(w)
    BY <1>2
  <2> QED BY <2>1, ExceptSeq
<1> QED BY <1>1, <1>2

LEMMA ResetQuotaHonest ==
    ASSUME QuotaAssumption, IsFiniteSet(Actors), HonestInv,
           NEW h \in Actors, ResetQuota(h)
    PROVE  HonestInv'
<1> DEFINE amount == handlers[h].amount
           q == handlers[h].quota
           at == IF amount = 0 THEN "enforce" ELSE "save"
           r == Increment(q, amount)
           s == [at |-> at, amount |-> amount, quota |-> r]
<1>0. /\ handlers \in [Actors -> HandlerStates]
      /\ handlers[h] \in HandlerStates /\ handlers[h].at = "reset"
      /\ quotas \in Seq(Quota) /\ month \in 0..MaxMonth /\ counted \in 0..MaxCount
      /\ MaxCount \in Nat /\ MaxMonth \in Nat /\ month \in Nat /\ counted \in Nat
  BY DEF HonestInv, TypeOK, QuotaAssumption, ResetQuota, At
<1>1. /\ amount \in Tokens \cup {0} /\ amount \in Nat /\ q \in Quota
      /\ handlers[h] = [at |-> "reset", amount |-> amount, quota |-> q]
  BY <1>0, InHand DEF QuotaAssumption
<1>2. /\ Honest(q, amount, month, counted) /\ q.count = 0 /\ amount <= MaxCount
      /\ q.lastSetBack \in Nat
  BY <1>0, <1>1, QuotaValues DEF HonestInv, CopyOK
<1>3. /\ quotas' = [quotas EXCEPT ![1] = q]
      /\ UNCHANGED <<config, ended, month, counted, midway, asks>>
  BY DEF ResetQuota
<1>4. handlers' = [handlers EXCEPT ![h] = s]
  BY DEF ResetQuota, Goto
<1> HIDE DEF amount, q
<1>5. /\ r \in Quota
      /\ r.count = amount
      /\ r.lastSetBack = q.lastSetBack
  BY <1>1, <1>2, QuotaValues
<1> HIDE DEF r
<1>6. /\ Honest(r, 0, month, counted)
      /\ Honest(q, 0, month, counted)
  BY <1>0, <1>1, <1>2, <1>5 DEF Honest
<1>7. s \in HandlerStates /\ s.at # "insert" /\ CopyOK(s, month, counted)
  <2>1. at \in {"reset", "save", "insert", "enforce"} /\ at \notin {"insert", "reset"}
    OBVIOUS
  <2>2. s \in HandlerStates
    BY <1>1, <1>5, <2>1, States
  <2>3. s.at = at /\ s.quota = r
    OBVIOUS
  <2> HIDE DEF s, at
  <2> QED BY <1>6, <2>1, <2>2, <2>3 DEF CopyOK
<1>8. /\ quotas' \in Seq(Quota) /\ Len(quotas') = Len(quotas)
      /\ \A i \in DOMAIN quotas' : Honest(quotas'[i], 0, month, counted)
  <2>1. quotas' \in Seq(Quota) /\ Len(quotas') = Len(quotas) /\ DOMAIN quotas' = DOMAIN quotas
    BY <1>0, <1>1, <1>3, FirstReplaced
  <2>2. \A i \in DOMAIN quotas : quotas'[i] = IF i = 1 THEN q ELSE quotas[i]
    BY <1>0, <1>1, <1>3, FirstReplaced
  <2> QED BY <1>6, <2>1, <2>2 DEF HonestInv
<1> HIDE DEF s
<1> QED BY <1>0, <1>3, <1>4, <1>7, <1>8, Writes

LEMMA UpsertQuotaHonest ==
    ASSUME QuotaAssumption, IsFiniteSet(Actors), HonestInv,
           NEW h \in Actors, UpsertQuota(h)
    PROVE  HonestInv'
<1> DEFINE s == [at |-> "insert", amount |-> handlers[h].amount,
                 quota |-> handlers[h].quota]
<1>0. /\ handlers \in [Actors -> HandlerStates]
      /\ handlers[h] \in HandlerStates /\ handlers[h].at = "save"
      /\ handlers' = [handlers EXCEPT ![h].at = "insert"]
      /\ quotas = <<>>
      /\ UNCHANGED <<quotas, config, month, counted, asks>> /\ WaitingOK'
      /\ counted \in 0..MaxCount /\ MaxCount \in Nat
      /\ config \in SUBSET Config /\ Cardinality(config) <= 1 /\ asks \in 0..MaxAsks
  BY DEF HonestInv, TypeOK, QuotaAssumption, UpsertQuota, At, WaitingOK
<1>1. /\ handlers[h].amount \in Tokens \cup {0} /\ handlers[h].quota \in Quota
      /\ handlers[h] = [at |-> "save", amount |-> handlers[h].amount,
                        quota |-> handlers[h].quota]
  BY <1>0, InHand
<1>2. handlers' = [handlers EXCEPT ![h] = s]
  <2>1. [handlers[h] EXCEPT !.at = "insert"] = s
    BY <1>1
  <2> HIDE DEF s
  <2> QED BY <1>0, <2>1
<1>3. s \in HandlerStates
  BY <1>1, States
<1>4. CopyOK(s, month, counted)
  <2>1. Honest(handlers[h].quota, 0, month, counted)
    BY <1>0 DEF HonestInv, CopyOK
  <2> QED BY <2>1 DEF CopyOK
<1>5. CopyOK(s, month, counted') /\ counted' \in counted..MaxCount
  BY <1>0, <1>4
<1> HIDE DEF s
<1> QED BY <1>0, <1>2, <1>3, <1>5, Steps

LEMMA SaveQuotaHonest ==
    ASSUME QuotaAssumption, IsFiniteSet(Actors), HonestInv,
           NEW h \in Actors, SaveQuota(h)
    PROVE  HonestInv'
<1> DEFINE amount == handlers[h].amount
           q == handlers[h].quota
<1>0. /\ handlers \in [Actors -> HandlerStates]
      /\ handlers[h] \in HandlerStates /\ handlers[h].at \in {"save", "insert"}
      /\ quotas \in Seq(Quota) /\ month \in 0..MaxMonth /\ counted \in 0..MaxCount
      /\ UNCHANGED <<config, ended, month, counted, midway, asks>>
  BY DEF HonestInv, TypeOK, SaveQuota, At
<1>1. /\ amount \in Tokens \cup {0} /\ q \in Quota
      /\ handlers[h] = [at |-> handlers[h].at, amount |-> amount, quota |-> q]
  BY <1>0, InHand
<1>2. Honest(q, 0, month, counted)
  BY <1>0 DEF HonestInv, CopyOK
<1>3. PICK s \in HandlerStates :
        /\ handlers' = [handlers EXCEPT ![h] = s]
        /\ s.at # "insert" /\ CopyOK(s, month, counted)
  <2>1. CASE amount = 0
    <3> DEFINE s == [at |-> "enforce", amount |-> amount, quota |-> q]
    <3>1. handlers' = [handlers EXCEPT ![h] = s]
      <4>1. [handlers[h] EXCEPT !.at = "enforce"] = s
        BY <1>1
      <4>2. handlers' = [handlers EXCEPT ![h].at = "enforce"]
        BY <2>1 DEF SaveQuota
      <4> HIDE DEF s
      <4> QED BY <1>0, <4>1, <4>2
    <3>2. s \in HandlerStates
      BY <1>1, States
    <3>3. s.at # "insert" /\ CopyOK(s, month, counted)
      BY <1>2 DEF CopyOK
    <3> QED BY <3>1, <3>2, <3>3
  <2>2. CASE amount # 0
    <3>1. handlers' = [handlers EXCEPT ![h] = Idle]
      BY <2>2 DEF SaveQuota, Goto
    <3>2. Idle \in HandlerStates /\ Idle.at # "insert" /\ CopyOK(Idle, month, counted)
      BY States DEF CopyOK, Idle
    <3> QED BY <3>1, <3>2
  <2> QED BY <2>1, <2>2
<1> HIDE DEF amount, q
<1>4. CASE handlers[h].at = "save"
  <2>1. quotas' = [quotas EXCEPT ![1] = q]
    BY <1>4 DEF SaveQuota, At, q
  <2>2. quotas' \in Seq(Quota) /\ Len(quotas') = Len(quotas) /\ DOMAIN quotas' = DOMAIN quotas
    BY <1>0, <1>1, <2>1, FirstReplaced
  <2>3. \A i \in DOMAIN quotas : quotas'[i] = IF i = 1 THEN q ELSE quotas[i]
    BY <1>0, <1>1, <2>1, FirstReplaced
  <2>4. \A i \in DOMAIN quotas' : Honest(quotas'[i], 0, month, counted)
    BY <1>2, <2>2, <2>3 DEF HonestInv
  <2> QED BY <1>0, <1>3, <1>4, <2>2, <2>4, Writes
<1>5. CASE handlers[h].at = "insert"
  <2>1. quotas' = Append(quotas, q)
    BY <1>5 DEF SaveQuota, At, q
  <2>2. quotas' \in Seq(Quota) /\ Len(quotas') = Len(quotas) + 1
        /\ DOMAIN quotas' = 1..(Len(quotas) + 1)
    BY <1>0, <1>1, <2>1, AppendProperties
  <2>3. \A i \in DOMAIN quotas' :
        \/ quotas'[i] = q
        \/ i \in DOMAIN quotas /\ quotas'[i] = quotas[i]
    <3>1. DOMAIN quotas = 1..Len(quotas) /\ Len(quotas) \in Nat
      BY <1>0
    <3>2. /\ \A i \in 1..Len(quotas) : quotas'[i] = quotas[i]
          /\ quotas'[Len(quotas) + 1] = q
      BY <1>0, <1>1, <2>1, AppendProperties
    <3> QED BY <2>2, <3>1, <3>2
  <2>4. \A i \in DOMAIN quotas' : Honest(quotas'[i], 0, month, counted)
    BY <1>2, <2>2, <2>3 DEF HonestInv
  <2> QED BY <1>0, <1>3, <1>5, <2>2, <2>4, Writes
<1> QED BY <1>0, <1>4, <1>5

\* A step to a state without a quota document in hand.
LEMMA StepsAside ==
    ASSUME QuotaAssumption, IsFiniteSet(Actors), HonestInv,
           NEW h \in Actors, NEW s \in HandlerStates,
           handlers' = [handlers EXCEPT ![h] = s],
           handlers[h].at # "insert", s.at \in {"idle", "read", "llm", "configure"},
           UNCHANGED <<quotas, month, counted>>, config' \in SUBSET Config,
           Cardinality(config') <= 1, asks' \in 0..MaxAsks, WaitingOK'
    PROVE  HonestInv'
<1>1. CopyOK(s, month, counted')
  BY DEF CopyOK
<1>2. counted \in 0..MaxCount /\ MaxCount \in Nat
  BY DEF HonestInv, TypeOK, QuotaAssumption
<1>3. counted' \in counted..MaxCount
  BY <1>2
<1> QED BY <1>1, <1>3, Steps

\* The other steps of a handler.
LEMMA AsideHonest ==
    ASSUME QuotaAssumption, IsFiniteSet(Actors), HonestInv, NEW h \in Handlers,
           \/ AskAgent(h) \/ Admit(h) \/ BotMessage(h)
           \/ \E b \in BOOLEAN : UpsertConfiguration(h, b)
           \/ SaveConfiguration(h)
    PROVE  HonestInv'
<1>h. h \in Actors
  BY DEF Actors
<1>0. /\ handlers[h] \in HandlerStates /\ WaitingOK
      /\ asks \in 0..MaxAsks /\ MaxAsks \in Nat
      /\ config \in SUBSET Config /\ Cardinality(config) <= 1
  BY <1>h DEF HonestInv, TypeOK, QuotaAssumption
<1>w. UNCHANGED <<ended, midway>> => WaitingOK'
  BY <1>0 DEF WaitingOK
<1>1. Idle \in HandlerStates /\ Idle.at = "idle"
  BY States DEF Idle
<1>2. \A at \in {"read", "llm"}, n \in Tokens \cup {0} :
        [at |-> at, amount |-> n] \in HandlerStates /\ [at |-> at, amount |-> n].at = at
  BY States
<1>3. CASE AskAgent(h)
  <2> DEFINE s == [at |-> "read", amount |-> 0]
  <2>1. /\ handlers[h].at = "idle" /\ asks' \in 0..MaxAsks
        /\ handlers' = [handlers EXCEPT ![h] = s]
        /\ UNCHANGED <<quotas, config, ended, month, counted, midway>>
    BY <1>0, <1>3 DEF AskAgent, At, Goto
  <2>2. s \in HandlerStates /\ s.at = "read"
    BY <1>2
  <2> HIDE DEF s
  <2> QED BY <1>0, <2>1, <2>2, <1>h, <1>w, StepsAside
<1>4. CASE Admit(h)
  <2>1. PICK s \in {Idle, [at |-> "llm", amount |-> 0]} :
          /\ handlers[h].at = "enforce"
          /\ handlers' = [handlers EXCEPT ![h] = s]
          /\ UNCHANGED <<quotas, config, ended, month, counted, midway, asks>>
    BY <1>4 DEF Admit, At, Goto
  <2>2. s \in HandlerStates /\ s.at \in {"idle", "llm"}
    BY <1>1, <1>2
  <2> QED BY <1>0, <2>1, <2>2, <1>h, <1>w, StepsAside
<1>5. CASE BotMessage(h)
  <2>1. /\ handlers[h].at = "llm" /\ handlers' = [handlers EXCEPT ![h] = Idle]
        /\ UNCHANGED <<quotas, config, ended, month, counted, midway, asks>>
    BY <1>5 DEF BotMessage, At, Goto
  <2> QED BY <1>0, <1>1, <2>1, <1>h, <1>w, StepsAside
<1>6. ASSUME NEW b \in BOOLEAN, UpsertConfiguration(h, b)
      PROVE  HonestInv'
  <2> DEFINE n == IF config = {} THEN asks + 1 ELSE (CHOOSE c \in config : TRUE).id
             s == [at |-> "configure", config |-> [id |-> n, isEnabled |-> b]]
  <2>1. /\ handlers[h].at = "idle" /\ asks < MaxAsks /\ asks' = asks + 1
        /\ handlers' = [handlers EXCEPT ![h] = s]
        /\ UNCHANGED <<quotas, config, ended, month, counted, midway>>
    BY <1>6 DEF UpsertConfiguration, At, Goto
  <2>2. n \in 1..MaxAsks
    <3>1. CASE config = {}
      BY <1>0, <2>1, <3>1
    <3>2. CASE config # {}
      <4>1. (CHOOSE c \in config : TRUE) \in Config
        BY <1>0, <3>2
      <4> QED BY <3>2, <4>1 DEF Config
    <3> QED BY <3>1, <3>2
  <2> HIDE DEF n
  <2>3. [id |-> n, isEnabled |-> b] \in Config
    BY <1>6, <2>2 DEF Config
  <2>4. s \in HandlerStates /\ s.at = "configure"
    BY <2>3, States
  <2>5. asks' \in 0..MaxAsks
    BY <1>0, <2>1
  <2> HIDE DEF s
  <2> QED BY <1>0, <2>1, <2>4, <2>5, <1>h, <1>w, StepsAside
<1>7. CASE SaveConfiguration(h)
  <2>1. /\ handlers[h].at = "configure" /\ handlers' = [handlers EXCEPT ![h] = Idle]
        /\ config' = IF \A c \in config : c.id = handlers[h].config.id
                     THEN {handlers[h].config} ELSE config
        /\ UNCHANGED <<quotas, ended, month, counted, midway, asks>>
    BY <1>7 DEF SaveConfiguration, At, Goto
  <2>2. handlers[h].config \in Config
    BY <1>0, <2>1, InHand
  <2>3. Cardinality({handlers[h].config}) = 1
    BY FS_Singleton
  <2>4. config' \in SUBSET Config /\ Cardinality(config') <= 1
    BY <1>0, <2>1, <2>2, <2>3
  <2> QED BY <1>0, <1>1, <2>1, <2>4, <1>h, <1>w, StepsAside
<1> QED BY <1>3, <1>4, <1>5, <1>6, <1>7

\* A call of the model ends, and its callback is run.
LEMMA CallbacksHonest ==
    ASSUME QuotaAssumption, IsFiniteSet(Actors), HonestInv,
           RunCallback \/ \E h \in Handlers : HandleLLMEnd(h)
    PROVE  HonestInv'
<1>0. /\ ended \in Seq(Tokens) /\ Len(ended) <= MaxEnded /\ midway \in BOOLEAN
      /\ MaxEnded \in Nat /\ asks \in 0..MaxAsks
      /\ config \in SUBSET Config /\ Cardinality(config) <= 1
  BY DEF HonestInv, TypeOK, WaitingOK, QuotaAssumption
<1>1. CASE RunCallback
  <2> DEFINE s == [at |-> "read", amount |-> Head(ended)]
  <2>1. /\ Background \in Actors /\ handlers[Background].at = "idle" /\ ended # <<>>
        /\ handlers' = [handlers EXCEPT ![Background] = s] /\ ended' = Tail(ended)
        /\ UNCHANGED <<quotas, config, month, counted, midway, asks>>
    BY <1>1 DEF RunCallback, At, Goto, Actors
  <2>2. Head(ended) \in Tokens /\ WaitingOK'
    BY <1>0, <2>1 DEF WaitingOK
  <2>3. s \in HandlerStates /\ s.at = "read"
    BY <2>2, States
  <2> HIDE DEF s
  <2> QED BY <1>0, <2>1, <2>2, <2>3, StepsAside
<1>2. ASSUME NEW h \in Handlers, HandleLLMEnd(h) PROVE HonestInv'
  <2>1. PICK amount \in Tokens :
          /\ ended' = Append(ended, amount) /\ Len(ended) < MaxEnded
          /\ UNCHANGED <<quotas, config, handlers, month, counted, midway, asks>>
    BY <1>2 DEF HandleLLMEnd
  <2>2. WaitingOK'
    BY <1>0, <2>1, AppendProperties DEF WaitingOK
  <2> QED BY <2>1, <2>2 DEF HonestInv, TypeOK, InsertionsBounded, Inserting, At
<1> QED BY <1>1, <1>2

LEMMA NextMonthHonest ==
    ASSUME QuotaAssumption, HonestInv, NextMonth
    PROVE  HonestInv'
<1>0. /\ handlers \in [Actors -> HandlerStates] /\ quotas \in Seq(Quota)
      /\ month \in Nat /\ counted \in Nat
      /\ month' = month + 1 /\ counted' = 0 /\ midway' \in BOOLEAN
      /\ UNCHANGED <<quotas, config, handlers, ended, asks>>
  BY DEF HonestInv, TypeOK, QuotaAssumption, NextMonth
<1>1. TypeOK'
  BY <1>0 DEF HonestInv, TypeOK, WaitingOK, QuotaAssumption, NextMonth
<1>2. \A i \in DOMAIN quotas : Honest(quotas[i], 0, month + 1, 0)
  <2> SUFFICES ASSUME NEW i \in DOMAIN quotas
               PROVE  Honest(quotas[i], 0, month + 1, 0)
    OBVIOUS
  <2>1. quotas[i] \in Quota /\ Honest(quotas[i], 0, month, counted)
    BY <1>0 DEF HonestInv
  <2> QED BY <1>0, <2>1, StaysHonest
<1>3. \A h \in Actors : CopyOK(handlers[h], month + 1, 0)
  <2> SUFFICES ASSUME NEW h \in Actors PROVE CopyOK(handlers[h], month + 1, 0)
    OBVIOUS
  <2>1. CopyOK(handlers[h], month, counted) /\ handlers[h] \in HandlerStates
    BY <1>0 DEF HonestInv
  <2>2. handlers[h].at \in {"reset", "save", "insert", "enforce"} =>
          handlers[h].amount \in Nat /\ handlers[h].quota \in Quota
    BY <2>1, InHand DEF QuotaAssumption
  <2>3. ASSUME handlers[h].at \in {"save", "insert", "enforce"}
        PROVE  Honest(handlers[h].quota, 0, month + 1, 0)
    <3>1. Honest(handlers[h].quota, 0, month, counted)
      BY <2>1, <2>3 DEF CopyOK
    <3> QED BY <1>0, <2>2, <2>3, <3>1, StaysHonest
  <2>4. ASSUME handlers[h].at = "reset"
        PROVE  Honest(handlers[h].quota, handlers[h].amount, month + 1, 0)
    <3>1. Honest(handlers[h].quota, handlers[h].amount, month, counted)
      BY <2>1, <2>4 DEF CopyOK
    <3> QED BY <1>0, <2>2, <2>4, <3>1, StaysHonest
  <2> QED BY <2>1, <2>3, <2>4 DEF CopyOK
<1>4. InsertionsBounded'
  BY <1>0 DEF HonestInv, InsertionsBounded, Inserting, At
<1> QED BY <1>0, <1>1, <1>2, <1>3, <1>4 DEF HonestInv

LEMMA HonestAlways ==
    ASSUME QuotaAssumption, IsFiniteSet(Handlers)
    PROVE  Spec => []HonestInv
<1>0. IsFiniteSet(Actors)
  BY FS_Singleton, FS_Union DEF Actors
<1>1. Init => HonestInv
  BY <1>0, InitHonest
<1>2. HonestInv /\ [Next]_vars => HonestInv'
  <2> SUFFICES ASSUME HonestInv, [Next]_vars PROVE HonestInv'
    OBVIOUS
  <2>1. CASE UNCHANGED vars
    BY <2>1 DEF vars, HonestInv, TypeOK, WaitingOK, InsertionsBounded, Inserting, At
  <2>2. ASSUME NEW h \in Actors, GetQuota(h) PROVE HonestInv'
    BY <2>2, <1>0, GetQuotaHonest
  <2>3. ASSUME NEW h \in Actors, ResetQuota(h) PROVE HonestInv'
    BY <2>3, <1>0, ResetQuotaHonest
  <2>4. ASSUME NEW h \in Actors, UpsertQuota(h) PROVE HonestInv'
    BY <2>4, <1>0, UpsertQuotaHonest
  <2>5. ASSUME NEW h \in Actors, SaveQuota(h) PROVE HonestInv'
    BY <2>5, <1>0, SaveQuotaHonest
  <2>6. ASSUME NEW h \in Handlers,
               \/ AskAgent(h) \/ Admit(h) \/ BotMessage(h)
               \/ \E b \in BOOLEAN : UpsertConfiguration(h, b)
               \/ SaveConfiguration(h)
        PROVE  HonestInv'
    BY <2>6, <1>0, AsideHonest
  <2>7. CASE NextMonth
    BY <2>7, NextMonthHonest
  <2>8. CASE RunCallback \/ \E h \in Handlers : HandleLLMEnd(h)
    BY <1>0, <2>8, CallbacksHonest
  <2> QED BY <2>1, <2>2, <2>3, <2>4, <2>5, <2>6, <2>7, <2>8 DEF Next
<1> QED BY <1>1, <1>2, PTL DEF Spec

\* The quota documents, the configuration and the copies in memory keep their
\* forms; there are never more quota documents than handlers (policy.service.ts,
\* quota documents are upserted without a unique key).
THEOREM TypeCorrect ==
    ASSUME QuotaAssumption, IsFiniteSet(Handlers)
    PROVE  Spec => []TypeOK
BY HonestAlways, PTL DEF HonestInv

\* However many questions are answered at the same time, no quota document
\* counts more than the month has spent: what overlapping questions lose is
\* lost in favour of the organization (getQuota, incrementQuota).
THEOREM NobodyIsOvercharged ==
    ASSUME QuotaAssumption, IsFiniteSet(Handlers)
    PROVE  Spec => []NeverOvercharged
<1>1. HonestInv => NeverOvercharged
  <2> SUFFICES ASSUME HonestInv, NEW i \in DOMAIN quotas, quotas[i].lastSetBack = month
               PROVE  quotas[i].count <= counted
    BY DEF NeverOvercharged
  <2>1. Honest(quotas[i], 0, month, counted) /\ quotas[i] \in Quota
    BY DEF HonestInv, TypeOK
  <2>2. quotas[i].count \in Nat
    BY <2>1, QuotaValues DEF QuotaAssumption
  <2> QED BY <2>1, <2>2 DEF Honest
<1> QED BY <1>1, HonestAlways, PTL

-----------------------------------------------------------------------------
(* QuotaCountsTokens, with one chat at a time                              *)

\* A quota document says that c tokens were spent in month m.
Says(quota, m, c) == quota.lastSetBack = m /\ quota.count = c

\* So do the stored documents: those that are missing, that nothing was.
SayIn(stored, m, c) ==
    c = IF stored # <<>> /\ stored[1].lastSetBack = m THEN stored[1].count ELSE 0

\* The chat adds no tokens, the background nothing else.
RoleOf(s) == s.at \in {"read", "llm", "reset", "save", "insert", "enforce"} => s.amount = 0
BackgroundRole(w) ==
    /\ w.at \in {"idle", "read", "reset", "save", "insert"}
    /\ w.at # "idle" => w.amount \in Tokens

\* In a month that began quietly the chat, s, and the background, w, never write
\* at the same time: a call of the model comes after the chat has stored the
\* month's first quota or reset, and nothing but the background writes then.
InTurn(s, w, e, stored, m, c) ==
    /\ s.at \in {"enforce", "llm"} \/ e # <<>> \/ w.at # "idle" =>
         stored # <<>> /\ stored[1].lastSetBack = m
    /\ s.at \in {"save", "insert"} => stored = <<>> /\ Says(s.quota, m, 0)
    /\ s.at = "reset" => /\ stored # <<>> /\ stored[1].lastSetBack # m
                         /\ Says(s.quota, m, 0)
    /\ w.at \in {"idle", "read", "save"}
    /\ w.at = "save" => Says(w.quota, m, c)
    /\ w.at # "save" => SayIn(stored, m, c)

LoneInv ==
    /\ HonestInv
    /\ \A h \in Handlers : RoleOf(handlers[h])
    /\ BackgroundRole(handlers[Background])
    /\ ~midway => \A h \in Handlers :
         InTurn(handlers[h], handlers[Background], ended, quotas, month, counted)

\* What is known of a state, and what a step of one of the two has to show.
LEMMA LoneState ==
    ASSUME QuotaAssumption, NEW h, Handlers = {h}, LoneInv
    PROVE  /\ h \in Actors /\ Background \in Actors /\ h # Background
           /\ handlers \in [Actors -> HandlerStates]
           /\ handlers[h] \in HandlerStates /\ handlers[Background] \in HandlerStates
           /\ quotas \in Seq(Quota) /\ month \in Nat /\ counted \in Nat /\ MaxCount \in Nat
           /\ month \in 0..MaxMonth
           /\ quotas # <<>> => quotas[1] \in Quota /\ quotas[1].count \in 0..MaxCount
           /\ 0 \notin Tokens /\ Tokens \subseteq Nat
           /\ RoleOf(handlers[h]) /\ BackgroundRole(handlers[Background])
           /\ ~midway => InTurn(handlers[h], handlers[Background], ended, quotas, month, counted)
<1>1. h \in Actors /\ Background \in Actors /\ h # Background
  BY DEF Actors, QuotaAssumption
<1>2. /\ handlers \in [Actors -> HandlerStates] /\ quotas \in Seq(Quota)
      /\ month \in 0..MaxMonth /\ counted \in 0..MaxCount
  BY DEF LoneInv, HonestInv, TypeOK
<1>3. ASSUME quotas # <<>>
      PROVE  quotas[1] \in Quota /\ quotas[1].count \in 0..MaxCount
  <2>1. 1 \in DOMAIN quotas
    BY <1>2, <1>3
  <2> QED BY <1>2, <2>1, QuotaValues
<1>4. MaxCount \in Nat /\ MaxMonth \in Nat /\ Tokens \subseteq Nat \ {0}
  BY DEF QuotaAssumption
<1> QED BY <1>1, <1>2, <1>3, <1>4 DEF LoneInv

LEMMA LoneChat ==
    ASSUME QuotaAssumption, NEW h, Handlers = {h}, LoneInv, HonestInv', NEW s,
           handlers' = [handlers EXCEPT ![h] = s], RoleOf(s),
           ~midway' => InTurn(s, handlers[Background], ended', quotas', month', counted')
    PROVE  LoneInv'
<1>1. handlers'[h] = s /\ handlers'[Background] = handlers[Background]
  BY LoneState
<1> QED BY <1>1 DEF LoneInv

LEMMA LoneBackground ==
    ASSUME QuotaAssumption, NEW h, Handlers = {h}, LoneInv, HonestInv', NEW w,
           handlers' = [handlers EXCEPT ![Background] = w], BackgroundRole(w),
           ~midway' => InTurn(handlers[h], w, ended', quotas', month', counted')
    PROVE  LoneInv'
<1>1. handlers'[Background] = w /\ handlers'[h] = handlers[h]
  BY LoneState
<1> QED BY <1>1 DEF LoneInv

LEMMA LoneGetQuota ==
    ASSUME QuotaAssumption, NEW h, Handlers = {h}, LoneInv, HonestInv', GetQuota(h)
    PROVE  LoneInv'
<1> DEFINE To(at, q) == [at |-> at, amount |-> 0, quota |-> q]
<1>0. /\ handlers[h].at = "read" /\ handlers[h].amount = 0 /\ counted' = counted
      /\ UNCHANGED <<quotas, ended, month, midway>>
  BY LoneState DEF GetQuota, At, RoleOf
<1>1. /\ ~midway => InTurn(handlers[h], handlers[Background], ended, quotas, month, counted)
      /\ month \in 0..MaxMonth /\ MaxCount \in Nat
  BY LoneState
<1>2. CASE quotas = <<>>
  <2> DEFINE q == Increment(Create, 0)
  <2>1. handlers' = [handlers EXCEPT ![h] = To("save", q)]
    BY <1>0, <1>2 DEF GetQuota, Goto
  <2>2. Create \in Quota /\ Create.count = 0 /\ Create.lastSetBack = month
    BY <1>1 DEF Create, Quota
  <2>3. Says(q, month, 0)
    BY <1>1, <2>2, QuotaValues DEF Says
  <2> HIDE DEF q
  <2>4. RoleOf(To("save", q))
    BY DEF RoleOf
  <2>5. ~midway => InTurn(To("save", q), handlers[Background], ended, quotas, month, counted)
    BY <1>1, <1>2, <2>3 DEF InTurn
  <2> QED BY <1>0, <2>1, <2>4, <2>5, LoneChat
<1>3. CASE quotas # <<>> /\ NeedsReset(quotas[1])
  <2> DEFINE q == Reset(quotas[1])
  <2>1. handlers' = [handlers EXCEPT ![h] = To("reset", q)]
    BY <1>0, <1>3 DEF GetQuota, Goto
  <2>2. Says(q, month, 0)
    BY <1>1, <1>3, LoneState, QuotaValues DEF Says
  <2> HIDE DEF q
  <2>3. RoleOf(To("reset", q))
    BY DEF RoleOf
  <2>4. ~midway => InTurn(To("reset", q), handlers[Background], ended, quotas, month, counted)
    BY <1>1, <1>3, <2>2 DEF InTurn, NeedsReset
  <2> QED BY <1>0, <2>1, <2>3, <2>4, LoneChat
<1>4. CASE quotas # <<>> /\ ~NeedsReset(quotas[1])
  <2> DEFINE q == Increment(quotas[1], 0)
  <2>1. handlers' = [handlers EXCEPT ![h] = To("enforce", q)]
    BY <1>0, <1>4 DEF GetQuota, Goto
  <2> HIDE DEF q
  <2>2. RoleOf(To("enforce", q))
    BY DEF RoleOf
  <2>3. ~midway => InTurn(To("enforce", q), handlers[Background], ended, quotas, month, counted)
    BY <1>1, <1>4 DEF InTurn, NeedsReset
  <2> QED BY <1>0, <2>1, <2>2, <2>3, LoneChat
<1> QED BY <1>2, <1>3, <1>4

LEMMA CallbackGetQuota ==
    ASSUME QuotaAssumption, NEW h, Handlers = {h}, LoneInv, HonestInv', GetQuota(Background)
    PROVE  LoneInv'
<1> DEFINE amount == handlers[Background].amount
           To(at, q) == [at |-> at, amount |-> amount, quota |-> q]
<1>0. /\ handlers[Background].at = "read" /\ amount \in Tokens
      /\ counted' = counted + amount /\ counted + amount <= MaxCount
      /\ UNCHANGED <<quotas, ended, month, midway>>
  BY LoneState DEF GetQuota, At, BackgroundRole
<1>1. /\ ~midway => InTurn(handlers[h], handlers[Background], ended, quotas, month, counted)
      /\ amount \in Nat /\ amount # 0 /\ counted \in Nat
  BY <1>0, LoneState
<1>2. PICK at, q :
        /\ at \in {"save", "reset"}
        /\ handlers' = [handlers EXCEPT ![Background] = To(at, q)]
        /\ quotas # <<>> /\ ~NeedsReset(quotas[1]) =>
             at = "save" /\ q = Increment(quotas[1], amount)
  <2>1. CASE quotas = <<>>
    BY <2>1 DEF GetQuota, Goto
  <2>2. CASE quotas # <<>> /\ NeedsReset(quotas[1])
    BY <2>2 DEF GetQuota, Goto
  <2>3. CASE quotas # <<>> /\ ~NeedsReset(quotas[1])
    BY <1>1, <2>3 DEF GetQuota, Goto
  <2> QED BY <2>1, <2>2, <2>3
<1>3. BackgroundRole(To(at, q))
  BY <1>0, <1>2 DEF BackgroundRole
<1>4. ASSUME ~midway
      PROVE  InTurn(handlers[h], To(at, q), ended, quotas, month, counted')
  <2>1. quotas # <<>> /\ quotas[1].lastSetBack = month /\ quotas[1].count = counted
    BY <1>0, <1>1, <1>4 DEF InTurn, SayIn
  <2>2. at = "save" /\ q = Increment(quotas[1], amount)
    BY <1>2, <2>1 DEF NeedsReset
  <2>3. Says(q, month, counted')
    BY <1>0, <1>1, <2>1, <2>2, LoneState, QuotaValues DEF Says
  <2> HIDE DEF amount
  <2>4. /\ To(at, q).at = "save" /\ To(at, q).quota = q
    BY <2>2
  <2> HIDE DEF To
  <2> QED BY <1>0, <1>1, <1>4, <2>1, <2>3, <2>4 DEF InTurn
<1> QED BY <1>0, <1>2, <1>3, <1>4, LoneBackground

LEMMA LoneResetQuota ==
    ASSUME QuotaAssumption, NEW h, Handlers = {h}, LoneInv, HonestInv', ResetQuota(h)
    PROVE  LoneInv'
<1> DEFINE q == handlers[h].quota
           r == Increment(q, 0)
           s == [at |-> "enforce", amount |-> 0, quota |-> r]
<1>0. /\ handlers[h].at = "reset" /\ handlers[h].amount = 0
      /\ quotas' = [quotas EXCEPT ![1] = q]
      /\ handlers' = [handlers EXCEPT ![h] = s]
      /\ UNCHANGED <<ended, month, counted, midway>>
  BY LoneState DEF ResetQuota, At, RoleOf, Goto
<1>1. q \in Quota
  BY <1>0, LoneState, InHand
<1>2. RoleOf(s)
  BY DEF RoleOf
<1>3. ASSUME ~midway
      PROVE  InTurn(s, handlers[Background], ended, quotas', month, counted)
  <2>1. /\ InTurn(handlers[h], handlers[Background], ended, quotas, month, counted)
        /\ quotas \in Seq(Quota)
    BY <1>3, LoneState
  <2>2. /\ quotas # <<>> /\ quotas[1].lastSetBack # month /\ Says(q, month, 0)
        /\ handlers[Background].at = "idle" /\ ended = <<>> /\ counted = 0
    BY <1>0, <2>1 DEF InTurn, SayIn
  <2> HIDE DEF q
  <2>3. quotas' # <<>> /\ quotas'[1] = q
    <3>1. 1 \in DOMAIN quotas
      BY <2>1, <2>2
    <3> QED BY <1>0, <1>1, <2>1, <3>1, FirstReplaced
  <2>4. s.at = "enforce"
    OBVIOUS
  <2> HIDE DEF s
  <2> QED BY <2>2, <2>3, <2>4 DEF InTurn, SayIn, Says
<1> HIDE DEF s
<1> QED BY <1>0, <1>2, <1>3, LoneChat

\* The background has a quota in hand to write, when its month began quietly,
\* only after the first quota of the month was stored.
LEMMA CallbackResetQuota ==
    ASSUME QuotaAssumption, NEW h, Handlers = {h}, LoneInv, HonestInv',
           ResetQuota(Background)
    PROVE  LoneInv'
<1> DEFINE q == handlers[Background].quota
           amount == handlers[Background].amount
           s == [at |-> "save", amount |-> amount, quota |-> Increment(q, amount)]
<1>0. /\ handlers[Background].at = "reset" /\ amount \in Tokens /\ amount # 0
      /\ UNCHANGED <<ended, month, counted, midway>>
  <2>1. handlers[Background].at = "reset" /\ UNCHANGED <<ended, month, counted, midway>>
    BY DEF ResetQuota, At
  <2> QED BY <2>1, LoneState DEF BackgroundRole
<1>1. midway
  BY <1>0, LoneState DEF InTurn
<1>2. handlers' = [handlers EXCEPT ![Background] = s]
  BY <1>0 DEF ResetQuota, Goto
<1> HIDE DEF q
<1>3. BackgroundRole(s)
  BY <1>0 DEF BackgroundRole
<1> HIDE DEF s
<1> QED BY <1>0, <1>1, <1>2, <1>3, LoneBackground

LEMMA LoneUpsertQuota ==
    ASSUME QuotaAssumption, NEW h, Handlers = {h}, LoneInv, HonestInv',
           NEW a \in Actors, UpsertQuota(a)
    PROVE  LoneInv'
<1> DEFINE s == [at |-> "insert", amount |-> handlers[a].amount, quota |-> handlers[a].quota]
<1>0. /\ handlers[a].at = "save" /\ handlers[a] \in HandlerStates /\ quotas = <<>>
      /\ handlers \in [Actors -> HandlerStates]
      /\ handlers' = [handlers EXCEPT ![a].at = "insert"]
      /\ UNCHANGED <<quotas, ended, month, counted, midway>>
  BY LoneState DEF UpsertQuota, At
<1>1. handlers[a] = [at |-> "save", amount |-> handlers[a].amount, quota |-> handlers[a].quota]
  BY <1>0, InHand
<1>2. handlers' = [handlers EXCEPT ![a] = s]
  <2>1. [handlers[a] EXCEPT !.at = "insert"] = s
    BY <1>1
  <2> HIDE DEF s
  <2> QED BY <1>0, <2>1
<1>3. s.at = "insert" /\ s.amount = handlers[a].amount /\ s.quota = handlers[a].quota
  OBVIOUS
<1> HIDE DEF s
<1>4. CASE a = h
  <2>1. RoleOf(s)
    BY <1>0, <1>3, <1>4, LoneState DEF RoleOf
  <2>2. ~midway => InTurn(s, handlers[Background], ended, quotas, month, counted)
    BY <1>0, <1>3, <1>4, LoneState DEF InTurn
  <2> QED BY <1>0, <1>2, <1>4, <2>1, <2>2, LoneChat
<1>5. CASE a = Background
  <2>1. BackgroundRole(s) /\ midway
    BY <1>0, <1>3, <1>5, LoneState DEF BackgroundRole, InTurn
  <2> QED BY <1>0, <1>2, <1>5, <2>1, LoneBackground
<1> QED BY <1>4, <1>5 DEF Actors

LEMMA LoneSaveQuota ==
    ASSUME QuotaAssumption, NEW h, Handlers = {h}, LoneInv, HonestInv', SaveQuota(h)
    PROVE  LoneInv'
<1> DEFINE q == handlers[h].quota
           s == [at |-> "enforce", amount |-> 0, quota |-> q]
<1>0. /\ handlers[h].at \in {"save", "insert"} /\ handlers[h].amount = 0
      /\ handlers' = [handlers EXCEPT ![h].at = "enforce"]
      /\ UNCHANGED <<ended, month, counted, midway>>
  BY LoneState DEF SaveQuota, At, RoleOf
<1>1. /\ q \in Quota /\ handlers[h] = [at |-> handlers[h].at, amount |-> 0, quota |-> q]
      /\ handlers \in [Actors -> HandlerStates] /\ quotas \in Seq(Quota)
  BY <1>0, LoneState, InHand
<1>2. handlers' = [handlers EXCEPT ![h] = s]
  <2>1. [handlers[h] EXCEPT !.at = "enforce"] = s
    BY <1>1
  <2> HIDE DEF s
  <2> QED BY <1>0, <1>1, <2>1
<1>3. RoleOf(s) /\ s.at = "enforce"
  BY DEF RoleOf
<1>4. ASSUME ~midway
      PROVE  InTurn(s, handlers[Background], ended, quotas', month, counted)
  <2>1. InTurn(handlers[h], handlers[Background], ended, quotas, month, counted)
    BY <1>4, LoneState
  <2>2. /\ quotas = <<>> /\ Says(q, month, 0)
        /\ handlers[Background].at = "idle" /\ ended = <<>> /\ counted = 0
    BY <1>0, <2>1 DEF InTurn, SayIn
  <2>3. quotas' = Append(quotas, q)
    BY <2>2 DEF SaveQuota, At
  <2> HIDE DEF q, s
  <2>4. quotas' # <<>> /\ quotas'[1] = q
    BY <1>1, <2>2, <2>3
  <2> QED BY <1>3, <2>2, <2>4 DEF InTurn, SayIn, Says
<1> HIDE DEF s
<1> QED BY <1>0, <1>2, <1>3, <1>4, LoneChat

LEMMA CallbackSaveQuota ==
    ASSUME QuotaAssumption, NEW h, Handlers = {h}, LoneInv, HonestInv',
           SaveQuota(Background)
    PROVE  LoneInv'
<1> DEFINE q == handlers[Background].quota
<1>0. /\ handlers[Background].at \in {"save", "insert"}
      /\ handlers[Background].amount \in Tokens /\ handlers[Background].amount # 0
      /\ handlers' = [handlers EXCEPT ![Background] = Idle]
      /\ UNCHANGED <<ended, month, counted, midway>>
  BY LoneState DEF SaveQuota, At, BackgroundRole, Goto
<1>1. q \in Quota /\ quotas \in Seq(Quota)
  BY <1>0, LoneState, InHand
<1>2. BackgroundRole(Idle) /\ Idle.at = "idle"
  BY DEF BackgroundRole, Idle
<1>3. ASSUME ~midway
      PROVE  InTurn(handlers[h], Idle, ended, quotas', month, counted)
  <2>1. InTurn(handlers[h], handlers[Background], ended, quotas, month, counted)
    BY <1>3, LoneState
  <2>2. /\ quotas # <<>> /\ quotas[1].lastSetBack = month /\ Says(q, month, counted)
        /\ handlers[Background].at = "save"
    BY <1>0, <2>1 DEF InTurn
  <2>3. quotas' = [quotas EXCEPT ![1] = q]
    BY <2>2 DEF SaveQuota, At
  <2> HIDE DEF q
  <2>4. quotas' # <<>> /\ quotas'[1] = q
    <3>1. 1 \in DOMAIN quotas
      BY <1>1, <2>2
    <3> QED BY <1>1, <2>3, <3>1, FirstReplaced
  <2> QED BY <1>2, <2>1, <2>2, <2>4 DEF InTurn, SayIn, Says
<1> QED BY <1>0, <1>2, <1>3, LoneBackground

\* The steps of a chat that touch no quota.
LEMMA LoneAside ==
    ASSUME QuotaAssumption, NEW h, Handlers = {h}, LoneInv, HonestInv',
           \/ AskAgent(h) \/ Admit(h) \/ BotMessage(h)
           \/ \E b \in BOOLEAN : UpsertConfiguration(h, b)
           \/ SaveConfiguration(h)
    PROVE  LoneInv'
<1>0. UNCHANGED <<quotas, ended, month, counted, midway>>
  BY DEF AskAgent, Admit, BotMessage, UpsertConfiguration, SaveConfiguration
<1>1. PICK s : /\ handlers' = [handlers EXCEPT ![h] = s] /\ RoleOf(s)
               /\ \/ s.at \in {"idle", "read", "configure"}
                  \/ handlers[h].at = "enforce" /\ s.at = "llm"
  <2>1. Idle.at = "idle" /\ RoleOf(Idle)
    BY DEF Idle, RoleOf
  <2>2. \A at : [at |-> at, amount |-> 0].at = at /\ RoleOf([at |-> at, amount |-> 0])
    BY DEF RoleOf
  <2>3. CASE AskAgent(h)
    BY <2>2, <2>3 DEF AskAgent, Goto
  <2>4. CASE Admit(h)
    BY <2>1, <2>2, <2>4 DEF Admit, At, Goto
  <2>5. CASE BotMessage(h) \/ SaveConfiguration(h)
    BY <2>1, <2>5 DEF BotMessage, SaveConfiguration, Goto
  <2>6. ASSUME NEW b \in BOOLEAN, UpsertConfiguration(h, b)
        PROVE  \E s : /\ handlers' = [handlers EXCEPT ![h] = s] /\ RoleOf(s)
                      /\ s.at = "configure"
    <3> DEFINE c == [id |-> IF config = {} THEN asks + 1
                            ELSE (CHOOSE d \in config : TRUE).id,
                     isEnabled |-> b]
    <3>1. handlers' = [handlers EXCEPT ![h] = [at |-> "configure", config |-> c]]
      BY <2>6 DEF UpsertConfiguration, Goto
    <3> HIDE DEF c
    <3>2. /\ [at |-> "configure", config |-> c].at = "configure"
          /\ RoleOf([at |-> "configure", config |-> c])
      BY DEF RoleOf
    <3> QED BY <3>1, <3>2
  <2> QED BY <2>3, <2>4, <2>5, <2>6
<1>2. ~midway => InTurn(s, handlers[Background], ended, quotas, month, counted)
  BY <1>1, LoneState DEF InTurn
<1> QED BY <1>0, <1>1, <1>2, LoneChat

LEMMA LoneCallbacks ==
    ASSUME QuotaAssumption, NEW h, Handlers = {h}, LoneInv, HonestInv',
           RunCallback \/ HandleLLMEnd(h)
    PROVE  LoneInv'
<1>1. CASE RunCallback
  <2> DEFINE w == [at |-> "read", amount |-> Head(ended)]
  <2>1. /\ ended # <<>> /\ handlers' = [handlers EXCEPT ![Background] = w]
        /\ handlers[Background].at = "idle"
        /\ UNCHANGED <<quotas, month, counted, midway>>
    BY <1>1 DEF RunCallback, Goto, At
  <2>2. BackgroundRole(w) /\ w.at = "read"
    <3>1. Head(ended) \in Tokens
      BY <2>1 DEF LoneInv, HonestInv, TypeOK, WaitingOK
    <3> QED BY <3>1 DEF BackgroundRole
  <2> HIDE DEF w
  <2>3. ~midway => InTurn(handlers[h], w, ended', quotas, month, counted)
    BY <2>1, <2>2, LoneState DEF InTurn
  <2> QED BY <2>1, <2>2, <2>3, LoneBackground
<1>2. CASE HandleLLMEnd(h)
  <2>1. handlers[h].at = "llm" /\ UNCHANGED <<quotas, handlers, month, counted, midway>>
    BY <1>2 DEF HandleLLMEnd, At
  <2>2. ~midway => InTurn(handlers[h], handlers[Background], ended', quotas, month, counted)
    BY <2>1, LoneState DEF InTurn
  <2> QED BY <2>1, <2>2 DEF LoneInv
<1> QED BY <1>1, <1>2

LEMMA LoneNextMonth ==
    ASSUME QuotaAssumption, NEW h, Handlers = {h}, LoneInv, HonestInv', NextMonth
    PROVE  LoneInv'
<1>0. /\ month' = month + 1 /\ counted' = 0 /\ (~midway' => Quiet)
      /\ UNCHANGED <<quotas, handlers, ended>>
  BY DEF NextMonth
<1>1. SayIn(quotas, month + 1, 0)
  <2>1. CASE quotas = <<>>
    BY <2>1 DEF SayIn
  <2>2. CASE quotas # <<>>
    <3>1. 1 \in DOMAIN quotas /\ quotas[1] \in Quota /\ month \in Nat
      BY <2>2, LoneState
    <3>2. quotas[1].lastSetBack <= month /\ quotas[1].lastSetBack \in Nat
      BY <3>1, QuotaValues DEF LoneInv, HonestInv, Honest
    <3> QED BY <3>1, <3>2 DEF SayIn
  <2> QED BY <2>1, <2>2
<1>2. ASSUME Quiet
      PROVE  InTurn(handlers[h], handlers[Background], ended, quotas, month + 1, 0)
  <2>1. /\ handlers[h].at \in {"idle", "configure"} /\ ended = <<>>
        /\ handlers[Background].at = "idle"
    BY <1>2, LoneState DEF Quiet, At, BackgroundRole
  <2> QED BY <1>1, <2>1 DEF InTurn
<1> QED BY <1>0, <1>2 DEF LoneInv

LEMMA LoneAlways ==
    ASSUME QuotaAssumption, NEW h, Handlers = {h}
    PROVE  Spec => []LoneInv
<1>0. IsFiniteSet(Handlers)
  BY FS_Singleton
<1>1. Init /\ HonestInv => LoneInv
  <2> SUFFICES ASSUME Init, HonestInv PROVE LoneInv
    OBVIOUS
  <2>1. /\ handlers[h].at = "idle" /\ handlers[Background].at = "idle"
        /\ quotas = <<>> /\ ended = <<>> /\ counted = 0
    BY DEF Init, Idle, Actors
  <2> QED BY <2>1 DEF LoneInv, RoleOf, BackgroundRole, InTurn, SayIn
<1>2. LoneInv /\ [Next]_vars /\ HonestInv' => LoneInv'
  <2> SUFFICES ASSUME LoneInv, [Next]_vars, HonestInv'
               PROVE  LoneInv'
    OBVIOUS
  <2>1. CASE UNCHANGED vars
    BY <2>1 DEF vars, LoneInv
  <2>2. ASSUME NEW a \in Actors, GetQuota(a) \/ ResetQuota(a) \/ UpsertQuota(a) \/ SaveQuota(a)
        PROVE  LoneInv'
    <3>1. CASE a = h
      BY <2>2, <3>1, LoneGetQuota, LoneResetQuota, LoneUpsertQuota, LoneSaveQuota
    <3>2. CASE a = Background
      BY <2>2, <3>2, CallbackGetQuota, CallbackResetQuota, LoneUpsertQuota, CallbackSaveQuota
    <3> QED BY <2>2, <3>1, <3>2 DEF Actors
  <2>3. CASE \/ AskAgent(h) \/ Admit(h) \/ BotMessage(h)
             \/ \E b \in BOOLEAN : UpsertConfiguration(h, b)
             \/ SaveConfiguration(h)
    BY <2>3, LoneAside
  <2>4. CASE RunCallback \/ HandleLLMEnd(h)
    BY <2>4, LoneCallbacks
  <2>5. CASE NextMonth
    BY <2>5, LoneNextMonth
  <2> QED BY <2>1, <2>2, <2>3, <2>4, <2>5 DEF Next
<1>3. Spec => []HonestInv
  BY <1>0, HonestAlways
<1> QED BY <1>1, <1>2, <1>3, PTL DEF Spec

\* With one chat at a time nothing is lost, although the chat never waits for
\* its tokens to be counted: in a month that began quietly the quota says,
\* between two writes, exactly what the callbacks counted (getQuota,
\* incrementQuota, the callback of askAgent).
THEOREM LoneQuotaIsExact ==
    ASSUME QuotaAssumption, NEW h, Handlers = {h}
    PROVE  Spec => []QuotaCountsTokens
<1>1. LoneInv => QuotaCountsTokens
  <2> SUFFICES ASSUME LoneInv, ~midway, \A a \in Actors : ~Saving(a)
               PROVE  counted = IF quotas # <<>> /\ ~NeedsReset(quotas[1])
                                THEN quotas[1].count ELSE 0
    BY DEF QuotaCountsTokens
  <2>1. handlers[Background].at # "save"
    BY LoneState DEF Saving
  <2> QED BY <2>1, LoneState DEF InTurn, SayIn, NeedsReset
<1> QED BY <1>1, LoneAlways, PTL

=============================================================================

------------------------------ MODULE LlmProofs -----------------------------
(***************************************************************************)
(* What holds of every model call, whatever it takes: what its record says *)
(* it cost (LlmPrice), that the record is billed once (LlmUsage), and that *)
(* the key it is made with is not an old one (LlmKeys); and of what a run  *)
(* writes for the runs after it (KnowledgeTools).                          *)
(***************************************************************************)
EXTENDS LlmKeys, LlmPrice, LlmUsage, KnowledgeTools, SequenceTheorems, TLAPS

-----------------------------------------------------------------------------
(* The price of a call                                                     *)

Spendings == [plain : TokenCounts, read : TokenCounts, write5m : TokenCounts,
              write1h : TokenCounts, out : TokenCounts]

\* a record is built once, and of what was spent
PriceInv ==
    /\ spent \in Spendings /\ client \in Providers
    /\ record = NotBuilt \/ \E priced \in BOOLEAN : record = BuildRecord(priced)

LEMMA PriceInitInv == PriceInit => PriceInv
  BY DEF PriceInit, PriceInv, Spendings

LEMMA PriceStepInv == PriceInv /\ [OnLlmEnd]_priceVars => PriceInv'
  <1> SUFFICES ASSUME PriceInv, [OnLlmEnd]_priceVars PROVE PriceInv'
    OBVIOUS
  <1>1. UNCHANGED <<spent, client>>
    BY DEF OnLlmEnd, priceVars
  <1>2. \A priced \in BOOLEAN : BuildRecord(priced)' = BuildRecord(priced)
    <2>1. Usage' = Usage
      BY <1>1 DEF Usage, Written
    <2>2. InputOf(Usage)' = InputOf(Usage) /\ CacheWriteOf(Usage)' = CacheWriteOf(Usage)
      BY <1>1, <2>1 DEF InputOf, CacheWriteOf
    <2> QED BY <1>1, <2>1, <2>2 DEF BuildRecord
  <1>3. CASE OnLlmEnd
    BY <1>1, <1>2, <1>3 DEF OnLlmEnd, PriceInv
  <1>4. CASE UNCHANGED priceVars
    BY <1>1, <1>2, <1>4 DEF priceVars, PriceInv
  <1> QED BY <1>3, <1>4

\* what a provider reports, put back into classes
LEMMA ClassesApart ==
    ASSUME spent \in Spendings, client \in Providers
    PROVE  /\ CacheWriteOf(Usage) = Written
           /\ client # "openrouter" => InputOf(Usage) = spent.plain + spent.read
  <1>1. /\ spent.plain \in Nat /\ spent.read \in Nat /\ spent.write5m \in Nat
        /\ spent.write1h \in Nat /\ spent.out \in Nat
    BY LlmPriceAssumption DEF Spendings
  <1>2. Written \in Nat /\ Written = spent.write5m + spent.write1h
    BY <1>1 DEF Written
  <1>3. /\ Usage.input = spent.plain + spent.read + IF client = "bedrock" THEN 0 ELSE Written
        /\ Usage.creation = (IF client = "gpt" THEN Written ELSE 0)
        /\ Usage.write5m = (IF client = "gpt" THEN 0 ELSE spent.write5m)
        /\ Usage.write1h = (IF client = "gpt" THEN 0 ELSE spent.write1h)
    BY DEF Usage
  <1>4. CacheWriteOf(Usage) = Written
    <2>1. CASE client = "gpt"
      BY <1>1, <1>2, <1>3, <2>1 DEF CacheWriteOf
    <2>2. CASE client # "gpt"
      BY <1>1, <1>2, <1>3, <2>2 DEF CacheWriteOf
    <2> QED BY <2>1, <2>2
  <1>5. CASE client = "bedrock"
    BY <1>1, <1>3, <1>4, <1>5 DEF InputOf, InputIncludesCacheWrite
  <1>6. CASE client \in {"claude", "gpt"}
    <2>1. Usage.input - Written = spent.plain + spent.read
      BY <1>1, <1>2, <1>3, <1>6
    <2>2. NotBelowZero(spent.plain + spent.read) = spent.plain + spent.read
      BY <1>1 DEF NotBelowZero
    <2> QED BY <1>4, <1>6, <2>1, <2>2 DEF InputOf, InputIncludesCacheWrite
  <1> QED BY <1>4, <1>5, <1>6 DEF Providers

LEMMA PricedRight == PriceInv => TokensPricedOnce
  <1> SUFFICES ASSUME PriceInv, "input" \in DOMAIN record PROVE TokensPricedOnce
    BY DEF TokensPricedOnce
  <1>1. PICK priced \in BOOLEAN : record = BuildRecord(priced)
    <2>1. DOMAIN NotBuilt = {"cost", "estimated"}
      BY DEF NotBuilt
    <2>2. record # NotBuilt
      BY <2>1
    <2> QED BY <2>2 DEF PriceInv
  <1>2. /\ spent.plain \in Nat /\ spent.read \in Nat /\ spent.write5m \in Nat
        /\ spent.write1h \in Nat /\ spent.out \in Nat
    BY LlmPriceAssumption DEF PriceInv, Spendings
  <1>3. Usage.read = spent.read /\ Usage.out = spent.out
        /\ Usage.charge = IF client = "openrouter" THEN spent.plain + spent.out ELSE Unknown
    BY DEF Usage
  <1> DEFINE input == InputOf(Usage)
             write == CacheWriteOf(Usage)
             length == IF LongFrom # NoLimit /\ spent.plain + spent.read + Written > LongFrom
                       THEN "long" ELSE "short"
             estimate == EstimateCost(input, Usage.read, write, Usage.out)
             cost == IF Usage.charge # Unknown THEN Usage.charge
                     ELSE IF priced THEN estimate ELSE Unknown
  <1>4. /\ record.input = input /\ record.write = write /\ record.cost = cost
        /\ record.estimated = (cost # Unknown /\ Usage.charge = Unknown)
    BY <1>1 DEF BuildRecord
  <1>5. CASE client = "openrouter"
    <2>1. Usage.charge # Unknown
      BY <1>2, <1>3, <1>5 DEF Unknown
    <2> QED BY <1>4, <1>5, <2>1 DEF TokensPricedOnce
  <1>6. CASE client # "openrouter"
    <2>1. input = spent.plain + spent.read /\ write = Written
      BY <1>6, ClassesApart DEF PriceInv
    <2>2. Usage.charge = Unknown
      BY <1>3, <1>6
    <2> HIDE DEF input, write
    <2>3. input + write = spent.plain + spent.read + Written
      BY <1>2, <2>1 DEF Written
    <2>4. NotBelowZero(input - spent.read) = spent.plain
      BY <1>2, <2>1 DEF NotBelowZero
    <2>5. estimate = spent.plain * Rates[length].plain + spent.read * Rates[length].read
                       + Written * Rates[length].write + spent.out * Rates[length].out
      BY <1>3, <2>1, <2>3, <2>4 DEF EstimateCost
    <2> HIDE DEF estimate
    <2> QED BY <1>4, <2>2, <2>3, <2>1, <2>5 DEF TokensPricedOnce, input, write
  <1> QED BY <1>5, <1>6

(* Every token a call took is in one class of its record and paid for      *)
(* once, for every client, limit and table of rates (usage.py              *)
(* `build_record`, `estimate_cost`).                                       *)
THEOREM PricedOnce == PriceSpec => []TokensPricedOnce
  BY PriceInitInv, PriceStepInv, PricedRight, PTL DEF PriceSpec

-----------------------------------------------------------------------------
(* The caches                                                              *)

Kinds == {"none", "shared", "embedding", "retried", "own", "reader"}
Places == {"idle", "asking", "fetching", "calling", "dropping"}
UserT == [client : Kinds, at : Places, key : (0..MaxStored) \cup {OwnKey}, owed : 0..MaxStored]

\* what is trusted is no older than the last invalidation, and neither is what a fetch
\* under way was answered; no more is owed than was stored at that invalidation; and a
\* value is trusted for what is left of the ttl since the fetch
KeysInv ==
    /\ KeysTypeOK
    /\ asOf <= stored
    /\ \A u \in Users : user[u].owed <= asOf
    /\ expiry > 0 /\ ~outage => held >= asOf
    /\ fetcher # Nobody /\ answer # Pending /\ answer # Failed => answer >= asOf
    /\ \/ expiry + quiet = Ttl
       \/ cache = "catalog" /\ held = Nothing

LEMMA KeyNumbers ==
    /\ Ttl \in Nat /\ Ttl > 0 /\ MaxStored \in Nat /\ Nothing = 0
    /\ OwnKey \in Nat /\ Failed \in Nat /\ Pending \in Nat
    /\ OwnKey > MaxStored /\ Failed > MaxStored /\ Pending > Failed
    /\ Nothing \in 0..MaxStored
  BY LlmKeysAssumption DEF Nothing, OwnKey, Failed, Pending

\* a caller is given a value, or the error that there is none
LEMMA GotStep ==
    ASSUME user \in [Users -> UserT], NEW u \in Users, NEW value \in 0..MaxStored,
           Got(u, value)
    PROVE  /\ user' \in [Users -> UserT]
           /\ \A w \in Users : w # u => user'[w] = user[w]
           /\ \/ user'[u] = Idle
              \/ user'[u].key = value /\ user'[u].owed = user[u].owed
  <1> DEFINE calling == [user[u] EXCEPT !.at = "calling"]
             given == [calling EXCEPT !.key = value]
  <1>1. user[u] \in UserT
    OBVIOUS
  <1>2. calling \in UserT /\ calling.owed = user[u].owed
    BY <1>1 DEF UserT, Places
  <1>3. given \in UserT /\ given.key = value /\ given.owed = user[u].owed
    <2> HIDE DEF calling
    <2> QED BY <1>2 DEF UserT
  <1>4. Idle \in UserT
    BY KeyNumbers DEF Idle, AUser, UserT, Kinds, Places
  <1>5. user' = [user EXCEPT ![u] = IF cache = "catalog" /\ value = Nothing THEN Idle ELSE given]
    BY DEF Got
  <1> HIDE DEF given, calling
  <1> QED BY <1>3, <1>4, <1>5

\* the place of a caller changes, and nothing else
LEMMA Moved ==
    ASSUME user \in [Users -> UserT], NEW u \in Users, NEW at \in Places,
           user' = [user EXCEPT ![u].at = at]
    PROVE  /\ user' \in [Users -> UserT]
           /\ \A w \in Users : user'[w].owed = user[w].owed
           /\ \A w \in Users : w # u => user'[w] = user[w]
           /\ user'[u].at = at
  <1> DEFINE there == [user[u] EXCEPT !.at = at]
  <1>1. there \in UserT /\ there.owed = user[u].owed /\ there.at = at
    BY DEF UserT
  <1>2. user' = [user EXCEPT ![u] = there]
    OBVIOUS
  <1> HIDE DEF there
  <1> QED BY <1>1, <1>2

\* a caller begins anew
LEMMA Anew ==
    ASSUME user \in [Users -> UserT], NEW u \in Users, NEW other \in UserT,
           user' = [user EXCEPT ![u] = other]
    PROVE  /\ user' \in [Users -> UserT] /\ user'[u] = other
           /\ \A w \in Users : w # u => user'[w] = user[w]
  OBVIOUS

LEMMA UserTypes ==
    /\ KeysTypeOK => user \in [Users -> UserT]
    /\ Idle \in UserT /\ Idle.owed = 0
    /\ \A k \in Kinds, at \in Places, key \in (0..MaxStored) \cup {OwnKey}, owed \in 0..MaxStored :
          /\ AUser(k, at, key, owed) \in UserT /\ AUser(k, at, key, owed).owed = owed
          /\ AUser(k, at, key, owed).at = at
  BY KeyNumbers DEF KeysTypeOK, UserT, Kinds, Places, Idle, AUser

LEMMA KeysInitInv == KeysInit => KeysInv
  <1> SUFFICES ASSUME KeysInit PROVE KeysInv
    OBVIOUS
  <1>1. /\ cache \in {"keys", "catalog"} /\ held = 0 /\ expiry = 0 /\ fetcher = Nobody
        /\ answer = Pending /\ stored = 0 /\ pushing = FALSE
        /\ asOf = 0 /\ outage = FALSE /\ quiet = Ttl
    BY KeyNumbers DEF KeysInit
  <1>2. /\ Idle \in UserT /\ Idle.owed = 0 /\ user = [u \in Users |-> Idle]
    BY <1>1, UserTypes, KeyNumbers DEF KeysInit
  <1>3. user \in [Users -> UserT] /\ \A u \in Users : user[u].owed = 0
    <2> HIDE DEF UserT
    <2> QED BY <1>2
  <1>4. KeysTypeOK
    <2>1. 0 \in 0..MaxStored /\ 0 \in 0..Ttl /\ Ttl \in 0..Ttl
      BY KeyNumbers
    <2>2. pushing \in BOOLEAN /\ outage \in BOOLEAN
      BY <1>1
    <2> QED BY <1>1, <1>3, <2>1, <2>2 DEF KeysTypeOK, UserT, Kinds, Places
  <1> QED BY <1>1, <1>3, <1>4, KeyNumbers DEF KeysInv

\* only the callers move
LEMMA CallerKeeps ==
    ASSUME KeysInv, UNCHANGED <<cache, cacheVars, storeVars, history>>,
           user' \in [Users -> UserT], \A w \in Users : user'[w].owed <= asOf
    PROVE  KeysInv'
  BY DEF KeysInv, KeysTypeOK, cacheVars, storeVars, history, UserT, Kinds, Places

LEMMA BeginKeeps ==
    ASSUME KeysInv, NEW u \in Users, Begin(u)
    PROVE  KeysInv'
  <1>1. user \in [Users -> UserT] /\ asOf \in 0..MaxStored /\ \A w \in Users : user[w].owed <= asOf
    BY UserTypes DEF KeysInv, KeysTypeOK
  <1>2. PICK other : /\ user' = [user EXCEPT ![u] = other]
                     /\ other \in UserT /\ other.owed = asOf
    <2>1. PICK k \in Clients : user' = [user EXCEPT ![u] =
              IF k = "own" THEN AUser(k, "calling", OwnKey, asOf)
                           ELSE AUser(k, "asking", Nothing, asOf)]
      BY DEF Begin
    <2>2. k \in Kinds
      BY DEF Clients, Kinds
    <2>3. /\ AUser(k, "calling", OwnKey, asOf) \in UserT
          /\ AUser(k, "calling", OwnKey, asOf).owed = asOf
          /\ AUser(k, "asking", Nothing, asOf) \in UserT
          /\ AUser(k, "asking", Nothing, asOf).owed = asOf
      BY <1>1, <2>2, UserTypes, KeyNumbers DEF Places
    <2> QED BY <2>1, <2>3
  <1>3. user' \in [Users -> UserT] /\ \A w \in Users : user'[w].owed <= asOf
    BY <1>1, <1>2, Anew
  <1> QED BY <1>3, CallerKeeps DEF Begin

LEMMA ReadValueKeeps ==
    ASSUME KeysInv, NEW u \in Users, Read(u)
    PROVE  KeysInv'
  <1>1. user \in [Users -> UserT] /\ asOf \in 0..MaxStored /\ held \in 0..MaxStored
        /\ \A w \in Users : user[w].owed <= asOf
    BY UserTypes DEF KeysInv, KeysTypeOK
  <1>2. user' \in [Users -> UserT] /\ \A w \in Users : user'[w].owed <= asOf
    BY <1>1, GotStep, UserTypes DEF Read
  <1> QED BY <1>2, CallerKeeps DEF Read

LEMMA StartFetchKeeps ==
    ASSUME KeysInv, NEW u \in Users, StartFetch(u)
    PROVE  KeysInv'
  <1>1. user' \in [Users -> UserT] /\ \A w \in Users : user'[w].owed <= asOf
    <2>1. user \in [Users -> UserT] /\ \A w \in Users : user[w].owed <= asOf
      BY UserTypes DEF KeysInv
    <2>2. user' = [user EXCEPT ![u].at = "fetching"] /\ "fetching" \in Places
      BY DEF StartFetch, Places
    <2> QED BY <2>1, <2>2, Moved
  <1> QED BY <1>1, KeyNumbers
          DEF StartFetch, KeysInv, KeysTypeOK, storeVars, history, UserT, Kinds, Places

LEMMA AnsweredKeeps == KeysInv /\ Answered => KeysInv'
  BY KeyNumbers DEF Answered, KeysInv, KeysTypeOK, storeVars, history

LEMMA EndFetchKeeps ==
    ASSUME KeysInv, NEW u \in Users, EndFetch(u)
    PROVE  KeysInv'
  <1>1. /\ user \in [Users -> UserT] /\ asOf \in 0..MaxStored /\ fetcher # Nobody
        /\ \A w \in Users : user[w].owed <= asOf
    BY UserTypes, LlmUsersAssumption DEF KeysInv, KeysTypeOK, EndFetch
  <1>2. held' \in 0..MaxStored /\ (answer # Failed => held' = answer)
    BY DEF KeysInv, KeysTypeOK, EndFetch
  <1>3. user' \in [Users -> UserT] /\ \A w \in Users : user'[w].owed <= asOf
    BY <1>1, <1>2, GotStep, UserTypes DEF EndFetch
  <1>4. /\ UNCHANGED <<cache, stored, pushing, asOf>>
        /\ fetcher' = Nobody /\ answer' = Pending /\ quiet' = 0
        /\ expiry' = Trusted(held') /\ outage' = (answer = Failed)
    BY DEF EndFetch, storeVars
  <1>5. expiry' \in {0, Ttl} /\ (expiry' = Ttl \/ (cache = "catalog" /\ held' = Nothing))
    BY <1>4 DEF Trusted
  <1>6. ~outage' => held' >= asOf
    <2>1. ~outage' => answer # Failed /\ answer # Pending
      BY <1>4 DEF EndFetch
    <2> QED BY <1>1, <1>2, <2>1 DEF KeysInv
  <1>7. KeysTypeOK'
    BY <1>2, <1>3, <1>4, <1>5, KeyNumbers
       DEF KeysInv, KeysTypeOK, UserT, Kinds, Places
  <1> QED BY <1>3, <1>4, <1>5, <1>6, <1>7, KeyNumbers DEF KeysInv

\* nothing that was trusted is trusted any longer, and no fetch is under way
LEMMA InvalidatedKeeps ==
    ASSUME KeysInv, Invalidated, UNCHANGED storeVars \/ (stored' = stored /\ pushing' \in BOOLEAN),
           user' \in [Users -> UserT], \A w \in Users : user'[w].owed <= asOf'
    PROVE  KeysInv'
  <1>1. /\ UNCHANGED <<cache, held, fetcher, answer, stored>> /\ fetcher = Nobody
        /\ expiry' = 0 /\ quiet' = Ttl /\ asOf' = stored /\ outage' = FALSE
        /\ pushing' \in BOOLEAN
    BY DEF Invalidated, LockIsFree, storeVars, KeysInv, KeysTypeOK
  <1>2. KeysTypeOK'
    <2>1. KeysTypeOK
      BY DEF KeysInv
    <2>2. asOf' \in 0..MaxStored /\ expiry' \in 0..Ttl /\ quiet' \in 0..Ttl
      BY <1>1, <2>1, KeyNumbers DEF KeysTypeOK
    <2> QED BY <1>1, <2>1, <2>2 DEF KeysTypeOK, UserT, Kinds, Places
  <1> QED BY <1>1, <1>2, KeyNumbers DEF KeysInv, KeysTypeOK

LEMMA CallEndsKeeps ==
    ASSUME KeysInv, NEW u \in Users, Accepted(u) \/ Refused(u)
    PROVE  KeysInv'
  <1>1. user \in [Users -> UserT] /\ asOf \in 0..MaxStored /\ Idle \in UserT /\ Idle.owed = 0
        /\ \A w \in Users : user[w].owed <= asOf
    BY UserTypes DEF KeysInv, KeysTypeOK
  <1>2. UNCHANGED <<cache, cacheVars, storeVars, history>>
    BY DEF Accepted, Refused
  <1>3. \/ user' = [user EXCEPT ![u] = Idle]
        \/ user' = [user EXCEPT ![u].at = "dropping"]
    BY DEF Accepted, Refused
  <1>4. user' \in [Users -> UserT] /\ \A w \in Users : user'[w].owed <= asOf
    <2>1. CASE user' = [user EXCEPT ![u] = Idle]
      BY <1>1, <2>1, Anew
    <2>2. CASE user' = [user EXCEPT ![u].at = "dropping"]
      BY <1>1, <2>2, Moved DEF Places
    <2> QED BY <1>3, <2>1, <2>2
  <1> QED BY <1>2, <1>4, CallerKeeps

LEMMA DropKeeps ==
    ASSUME KeysInv, NEW u \in Users, Drop(u)
    PROVE  KeysInv'
  <1>1. /\ user \in [Users -> UserT] /\ asOf' \in 0..MaxStored /\ asOf' = stored
        /\ asOf \in 0..MaxStored /\ asOf <= asOf'
        /\ \A w \in Users : user[w].owed \in 0..MaxStored /\ user[w].owed <= asOf
    BY UserTypes DEF KeysInv, KeysTypeOK, Drop, Invalidated
  <1>2. Idle \in UserT /\ Idle.owed = 0
    BY <1>1, UserTypes
  <1>3. /\ AUser("retried", "asking", Nothing, asOf') \in UserT
        /\ AUser("retried", "asking", Nothing, asOf').owed = asOf'
    BY <1>1, UserTypes, KeyNumbers DEF Kinds, Places
  <1>4. \E other \in UserT : other.owed <= asOf' /\ user' = [user EXCEPT ![u] = other]
    <2> DEFINE again == AUser("retried", "asking", Nothing, asOf')
    <2>1. user' = [user EXCEPT ![u] = IF user[u].client = "embedding" THEN again ELSE Idle]
      BY DEF Drop
    <2>2. again \in UserT /\ again.owed <= asOf' /\ Idle.owed <= asOf'
      BY <1>1, <1>2, <1>3
    <2> HIDE DEF again
    <2> QED BY <1>2, <2>1, <2>2
  <1>5. user' \in [Users -> UserT] /\ \A w \in Users : user'[w].owed <= asOf'
    BY <1>1, <1>4, Anew
  <1> QED BY <1>5, InvalidatedKeeps DEF Drop

LEMMA PushKeeps == KeysInv /\ Push => KeysInv'
  <1> SUFFICES ASSUME KeysInv, Push PROVE KeysInv'
    OBVIOUS
  <1>1. /\ user \in [Users -> UserT] /\ UNCHANGED <<user, stored>> /\ pushing' \in BOOLEAN
        /\ \A w \in Users : user[w].owed <= asOf
    BY UserTypes DEF KeysInv, Push
  <1>2. CASE Invalidated
    <2>1. \A w \in Users : user'[w].owed <= asOf'
      <3>1. asOf' = stored /\ asOf <= stored /\ asOf \in 0..MaxStored /\ stored \in 0..MaxStored
        BY <1>2 DEF Invalidated, KeysInv, KeysTypeOK
      <3>2. \A w \in Users : user[w].owed \in 0..MaxStored
        BY <1>1 DEF UserT
      <3> QED BY <1>1, <3>1, <3>2
    <2> QED BY <1>1, <1>2, <2>1, InvalidatedKeeps
  <1>3. CASE UNCHANGED <<cache, cacheVars, history>>
    BY <1>1, <1>3 DEF cacheVars, history, KeysInv, KeysTypeOK
  <1> QED BY <1>2, <1>3 DEF Push

LEMMA ReplaceKeeps == KeysInv /\ Replace => KeysInv'
  BY KeyNumbers DEF Replace, KeysInv, KeysTypeOK, cacheVars, history

LEMMA TickKeeps == KeysInv /\ Tick => KeysInv'
  <1> SUFFICES ASSUME KeysInv, Tick PROVE KeysInv'
    OBVIOUS
  <1>1. /\ UNCHANGED <<cache, held, fetcher, answer, user, stored, pushing, asOf, outage>>
        /\ expiry' = (IF expiry > 0 THEN expiry - 1 ELSE 0)
        /\ quiet' = (IF quiet < Ttl THEN quiet + 1 ELSE Ttl)
        /\ expiry \in 0..Ttl /\ quiet \in 0..Ttl /\ Ttl \in Nat
    BY KeyNumbers DEF Tick, storeVars, KeysInv, KeysTypeOK
  <1>2. /\ expiry' \in 0..Ttl /\ quiet' \in 0..Ttl /\ (expiry' > 0 => expiry > 0)
        /\ expiry + quiet = Ttl => expiry' + quiet' = Ttl
    BY <1>1
  <1> QED BY <1>1, <1>2 DEF KeysInv, KeysTypeOK

LEMMA KeysStepInv == KeysInv /\ [KeysNext]_keysVars => KeysInv'
  <1> SUFFICES ASSUME KeysInv, [KeysNext]_keysVars PROVE KeysInv'
    OBVIOUS
  <1>1. CASE UNCHANGED keysVars
    BY <1>1 DEF keysVars, cacheVars, storeVars, history, KeysInv, KeysTypeOK
  <1> QED BY <1>1, BeginKeeps, ReadValueKeeps, StartFetchKeeps, EndFetchKeeps, CallEndsKeeps,
             DropKeeps, AnsweredKeeps, ReplaceKeeps, PushKeeps, TickKeeps DEF KeysNext

THEOREM KeysInvariant == KeysSpec => []KeysInv
  BY KeysInitInv, KeysStepInv, PTL DEF KeysSpec

(* The state of a cache has its type, for any number of callers.           *)
THEOREM KeysTyped == KeysSpec => []KeysTypeOK
  <1>1. KeysInv => KeysTypeOK
    BY DEF KeysInv
  <1> QED BY <1>1, KeysInvariant, PTL

\* one step gives nobody an older value than he is owed
LEMMA NobodyIsGivenAnOldOne ==
    ASSUME KeysInv, [KeysNext]_keysVars, NEW u \in Users,
           user[u].at \in {"asking", "fetching"}, user'[u].at = "calling"
    PROVE  user'[u].key >= user[u].owed \/ outage'
  <1>1. /\ user \in [Users -> UserT] /\ asOf \in 0..MaxStored /\ held \in 0..MaxStored
        /\ user[u].owed \in 0..MaxStored /\ user[u].owed <= asOf
    <2>1. user \in [Users -> UserT]
      BY UserTypes DEF KeysInv
    <2> QED BY <2>1 DEF KeysInv, KeysTypeOK, UserT
  <1>2. Idle.at = "idle"
    BY DEF Idle, AUser
  <1>3. user'[u] # user[u]
    OBVIOUS
  <1>4. ASSUME NEW w \in Users, Read(w) PROVE user'[u].key >= user[u].owed \/ outage'
    <2>1. w = u /\ user'[u].key = held
      BY <1>1, <1>2, <1>3, <1>4, GotStep DEF Read
    <2>2. held >= asOf \/ outage'
      <3>1. expiry > 0 /\ outage' = outage
        BY <1>4 DEF Read, Fresh, history
      <3> QED BY <3>1 DEF KeysInv
    <2> QED BY <1>1, <2>1, <2>2
  <1>5. ASSUME NEW w \in Users, EndFetch(w) PROVE user'[u].key >= user[u].owed \/ outage'
    <2>1. held' \in 0..MaxStored
      BY <1>5 DEF EndFetch, KeysInv, KeysTypeOK
    <2>2. w = u /\ user'[u].key = held'
      BY <1>1, <1>2, <1>3, <1>5, <2>1, GotStep DEF EndFetch
    <2>3. held' >= asOf \/ outage'
      <3>1. CASE answer = Failed
        BY <1>5, <3>1 DEF EndFetch
      <3>2. CASE answer # Failed
        BY <1>5, <3>2, LlmUsersAssumption DEF EndFetch, KeysInv
      <3> QED BY <3>1, <3>2
    <2> QED BY <1>1, <2>1, <2>2, <2>3
  <1>6. ASSUME NEW w \in Users, Begin(w) PROVE user'[u].key >= user[u].owed \/ outage'
    <2>1. w = u
      BY <1>1, <1>3, <1>6 DEF Begin
    <2> QED BY <1>2, <1>6, <2>1 DEF Begin
  <1>7. ASSUME NEW w \in Users, StartFetch(w) PROVE user'[u].key >= user[u].owed \/ outage'
    <2>1. user'[w].at = "fetching" /\ \A x \in Users : x # w => user'[x] = user[x]
      BY <1>1, <1>7, Moved DEF StartFetch, Places
    <2> QED BY <1>3, <2>1
  <1>8. ASSUME NEW w \in Users, Accepted(w) \/ Refused(w) \/ Drop(w)
        PROVE  user'[u].key >= user[u].owed \/ outage'
    <2>1. w # u => user'[u] = user[u]
      BY <1>1, <1>8 DEF Accepted, Refused, Drop
    <2>2. user[w].at \in {"calling", "dropping"}
      BY <1>8 DEF Accepted, Refused, Drop
    <2> QED BY <1>3, <2>1, <2>2
  <1>9. Answered \/ Replace \/ Push \/ Tick \/ UNCHANGED keysVars => user' = user
    BY DEF Answered, Replace, Push, Tick, keysVars
  <1> QED BY <1>3, <1>4, <1>5, <1>6, <1>7, <1>8, <1>9 DEF KeysNext

(* Whoever asks after a key was refused, or after a change was pushed, is  *)
(* given what Orchestration had stored by then, or every fetch since has   *)
(* failed, for any number of callers (api_key.py, embedding_model.py).     *)
THEOREM NoOldKeys == KeysSpec => AskersGetWhatWasStored
  <1>1. KeysInv /\ [KeysNext]_keysVars =>
          [\A u \in Users :
              (user[u].at \in {"asking", "fetching"} /\ user'[u].at = "calling") =>
                  user'[u].key >= user[u].owed \/ outage']_keysVars
    BY NobodyIsGivenAnOldOne
  <1> QED BY <1>1, KeysInvariant, PTL DEF KeysSpec, AskersGetWhatWasStored

(* Orchestration is asked at most once in a ttl, whatever it answers       *)
(* (api_key.py:20-23, catalog.py:161-170).                                 *)
THEOREM OneWaitPerTtl == KeysSpec => OutageCostsOneWait
  <1>1. KeysInv /\ [KeysNext]_keysVars =>
          [fetcher = Nobody /\ fetcher' # Nobody =>
              quiet = Ttl \/ (cache = "catalog" /\ held = Nothing)]_keysVars
    <2> SUFFICES ASSUME KeysInv, KeysNext, fetcher = Nobody, fetcher' # Nobody
                 PROVE  quiet = Ttl \/ (cache = "catalog" /\ held = Nothing)
      BY DEF keysVars
    <2>1. PICK u \in Users : StartFetch(u)
      BY DEF KeysNext, Begin, Read, EndFetch, Accepted, Refused, Drop, Invalidated, Answered,
             Replace, Push, Tick, cacheVars
    <2>2. expiry = 0 \/ (cache = "catalog" /\ held = Nothing)
      BY <2>1 DEF StartFetch, Fresh, KeysInv, KeysTypeOK
    <2>3. expiry = 0 /\ expiry + quiet = Ttl => quiet = Ttl
      BY KeyNumbers DEF KeysInv, KeysTypeOK
    <2> QED BY <2>2, <2>3 DEF KeysInv
  <1> QED BY <1>1, KeysInvariant, PTL DEF KeysSpec, OutageCostsOneWait

-----------------------------------------------------------------------------
(* The records of the calls                                                *)

Records == 1..added

\* no record is twice in a batch or in the buffer
Apart(seq) == \A i, j \in DOMAIN seq : seq[i] = seq[j] => i = j

UsageTypes ==
    /\ flushSize \in Nat \ {0} /\ added \in 0..MaxRecords
    /\ buffer \in Seq(Nat) /\ Apart(buffer) /\ ToSet(buffer) \subseteq Records
    /\ sending \in [Senders -> Seq(Nat)] /\ \A s \in Senders : Batch(s) \subseteq Records
    /\ doing \in [Senders -> {"idle", "posting", "flushing", "stopped", "cancelled"}]
    /\ billed \in [1..MaxRecords -> Nat]
    /\ dropped \subseteq Records

\* a record is in one place
OnePlace ==
    \A r \in Records :
        /\ billed[r] \in {0, 1}
        /\ Held(r) => billed[r] = 0 /\ r \notin dropped
        /\ \A s \in Senders : r \in Batch(s) =>
              ~Held(r) /\ billed[r] = 0 /\ \A t \in Senders : r \in Batch(t) => t = s
        /\ Held(r) \/ (\E s \in Senders : r \in Batch(s)) \/ billed[r] = 1 \/ r \in dropped

\* only who posts has a batch, and what was not taken is not billed
UsageInv ==
    /\ UsageTypes
    /\ \A s \in Senders : doing[s] # "posting" => sending[s] = <<>>
    /\ \A r \in 1..MaxRecords : r > added => billed[r] = 0
    /\ OnePlace

LEMMA PlacesSay == UsageInv => EachCallBilledOnce
  <1> SUFFICES ASSUME UsageInv, NEW r \in Records
               PROVE  /\ billed[r] <= 1
                      /\ Held(r) => InPost(r) = {} /\ billed[r] = 0 /\ r \notin dropped
                      /\ InPost(r) # {} => billed[r] = 0 /\ \A s, t \in InPost(r) : s = t
                      /\ Held(r) \/ InPost(r) # {} \/ billed[r] = 1 \/ r \in dropped
    BY DEF EachCallBilledOnce, Records
  <1>1. billed[r] <= 1
    BY DEF UsageInv, OnePlace
  <1> QED BY <1>1 DEF UsageInv, OnePlace, InPost

LEMMA UsageNumbers ==
    /\ MaxBuffer \in Nat \ {0} /\ MaxPerRequest \in Nat \ {0} /\ MaxRecords \in Nat
    /\ Worker \in Senders /\ Stopper \in Senders /\ Reporters \subseteq Senders
    /\ Worker # Stopper
  BY LlmUsageAssumption DEF Senders, Worker, Stopper

\* one part of a sequence
LEMMA PartOf ==
    ASSUME NEW S, NEW seq \in Seq(S), NEW m \in 1..(Len(seq) + 1)
    PROVE  LET tail == SubSeq(seq, m, Len(seq)) IN
           /\ tail \in Seq(S) /\ ToSet(tail) = {seq[i] : i \in m..Len(seq)}
           /\ Len(tail) = Len(seq) + 1 - m
           /\ Apart(seq) => Apart(tail)
  <1> DEFINE tail == SubSeq(seq, m, Len(seq))
  <1>1. Len(seq) \in Nat /\ m \in Nat /\ m <= Len(seq) + 1
    OBVIOUS
  <1>2. \A i \in m..Len(seq) : seq[i] \in S
    BY <1>1
  <1>3. /\ tail \in Seq(S) /\ Len(tail) = Len(seq) + 1 - m
        /\ \A i \in 1..(Len(seq) - m + 1) : tail[i] = seq[m + i - 1]
    BY <1>1, <1>2, SubSeqProperties
  <1> HIDE DEF tail
  <1>4. DOMAIN tail = 1..(Len(seq) - m + 1)
    BY <1>1, <1>3
  <1>5. ToSet(tail) \subseteq {seq[i] : i \in m..Len(seq)}
    <2> SUFFICES ASSUME NEW j \in DOMAIN tail PROVE \E i \in m..Len(seq) : tail[j] = seq[i]
      BY DEF ToSet
    <2>1. m + j - 1 \in m..Len(seq) /\ tail[j] = seq[m + j - 1]
      BY <1>1, <1>3, <1>4
    <2> QED BY <2>1
  <1>6. {seq[i] : i \in m..Len(seq)} \subseteq ToSet(tail)
    <2> SUFFICES ASSUME NEW i \in m..Len(seq) PROVE seq[i] \in ToSet(tail)
      OBVIOUS
    <2>1. i - m + 1 \in DOMAIN tail /\ tail[i - m + 1] = seq[i]
      BY <1>1, <1>3, <1>4
    <2> QED BY <2>1 DEF ToSet
  <1>7. Apart(seq) => Apart(tail)
    <2> SUFFICES ASSUME Apart(seq), NEW i \in DOMAIN tail, NEW j \in DOMAIN tail, tail[i] = tail[j]
                 PROVE  i = j
      BY DEF Apart
    <2>1. \A k \in DOMAIN tail : m + k - 1 \in 1..Len(seq) /\ tail[k] = seq[m + k - 1]
      BY <1>1, <1>3, <1>4
    <2>2. DOMAIN seq = 1..Len(seq)
      OBVIOUS
    <2>3. m + i - 1 = m + j - 1
      BY <2>1, <2>2 DEF Apart
    <2> QED BY <1>1, <1>4, <2>3
  <1> QED BY <1>3, <1>5, <1>6, <1>7 DEF tail

LEMMA FrontOf ==
    ASSUME NEW S, NEW seq \in Seq(S), NEW n \in 0..Len(seq)
    PROVE  LET front == SubSeq(seq, 1, n) IN
           front \in Seq(S) /\ ToSet(front) = {seq[i] : i \in 1..n}
  <1> DEFINE front == SubSeq(seq, 1, n)
  <1>1. Len(seq) \in Nat /\ n \in Nat /\ n <= Len(seq)
    OBVIOUS
  <1>2. \A i \in 1..n : seq[i] \in S
    BY <1>1
  <1>3. /\ front \in Seq(S) /\ Len(front) = n
        /\ \A i \in 1..n : front[i] = seq[i]
    BY <1>1, <1>2, SubSeqProperties
  <1> HIDE DEF front
  <1>4. DOMAIN front = 1..n
    BY <1>1, <1>3
  <1> QED BY <1>3, <1>4 DEF ToSet, front

\* a batch and what it leaves have no record in common, and lose none
LEMMA Taken ==
    ASSUME NEW S, NEW seq \in Seq(S), Apart(seq), NEW n \in 0..Len(seq)
    PROVE  LET batch == SubSeq(seq, 1, n)
               left == SubSeq(seq, n + 1, Len(seq)) IN
           /\ batch \in Seq(S) /\ left \in Seq(S) /\ Apart(left)
           /\ ToSet(batch) \union ToSet(left) = ToSet(seq)
           /\ ToSet(batch) \cap ToSet(left) = {}
  <1>1. Len(seq) \in Nat /\ DOMAIN seq = 1..Len(seq) /\ n \in Nat /\ n <= Len(seq)
    OBVIOUS
  <1> DEFINE batch == SubSeq(seq, 1, n)
             left == SubSeq(seq, n + 1, Len(seq))
  <1>2. batch \in Seq(S) /\ ToSet(batch) = {seq[i] : i \in 1..n}
    BY FrontOf
  <1>3. left \in Seq(S) /\ ToSet(left) = {seq[i] : i \in (n + 1)..Len(seq)} /\ Apart(left)
    <2>1. n + 1 \in 1..(Len(seq) + 1)
      BY <1>1
    <2> QED BY <2>1, PartOf
  <1> HIDE DEF batch, left
  <1>4. ToSet(batch) \union ToSet(left) = ToSet(seq)
    <2>1. 1..Len(seq) = (1..n) \union ((n + 1)..Len(seq))
      BY <1>1
    <2>2. ToSet(seq) = {seq[i] : i \in 1..Len(seq)}
      BY <1>1 DEF ToSet
    <2> QED BY <1>2, <1>3, <2>1, <2>2
  <1>5. ToSet(batch) \cap ToSet(left) = {}
    BY <1>1, <1>2, <1>3 DEF Apart
  <1> QED BY <1>2, <1>3, <1>4, <1>5 DEF batch, left

LEMMA KeptOf ==
    ASSUME NEW S, NEW seq \in Seq(S), Apart(seq)
    PROVE  Kept(seq) \in Seq(S) /\ Apart(Kept(seq)) /\ ToSet(Kept(seq)) \subseteq ToSet(seq)
  <1> DEFINE m == IF Len(seq) > MaxBuffer THEN Len(seq) - MaxBuffer + 1 ELSE 1
  <1>1. Len(seq) \in Nat /\ DOMAIN seq = 1..Len(seq)
    OBVIOUS
  <1>2. m \in 1..(Len(seq) + 1)
    BY <1>1, UsageNumbers
  <1> HIDE DEF m
  <1> DEFINE kept == SubSeq(seq, m, Len(seq))
  <1>3. kept \in Seq(S) /\ ToSet(kept) = {seq[i] : i \in m..Len(seq)} /\ Apart(kept)
    BY <1>2, PartOf
  <1>4. Kept(seq) = kept
    BY DEF Kept, m
  <1> HIDE DEF kept
  <1>5. {seq[i] : i \in m..Len(seq)} \subseteq ToSet(seq)
    BY <1>1, <1>2 DEF ToSet
  <1> QED BY <1>3, <1>4, <1>5

\* Take: what it leaves in the buffer and what it gives the sender
LEMMA TakeSplits ==
    ASSUME NEW s \in Senders, NEW S, NEW seq \in Seq(S), Apart(seq),
           sending \in [Senders -> Seq(S)], Take(s, seq)
    PROVE  /\ buffer' \in Seq(S) /\ Apart(buffer')
           /\ sending' \in [Senders -> Seq(S)]
           /\ Batch(s)' \union ToSet(buffer') = ToSet(seq)
           /\ Batch(s)' \cap ToSet(buffer') = {}
           /\ \A t \in Senders : t # s => sending'[t] = sending[t]
           /\ doing' = [doing EXCEPT ![s] = "posting"]
  <1> DEFINE n == IF Len(seq) > MaxPerRequest THEN MaxPerRequest ELSE Len(seq)
             batch == SubSeq(seq, 1, n)
             left == SubSeq(seq, n + 1, Len(seq))
  <1>1. n \in 0..Len(seq)
    <2>1. Len(seq) \in Nat
      OBVIOUS
    <2> QED BY <2>1, UsageNumbers
  <1>2. buffer' = left /\ sending' = [sending EXCEPT ![s] = batch]
        /\ doing' = [doing EXCEPT ![s] = "posting"]
    BY DEF Take
  <1> HIDE DEF n
  <1>3. /\ batch \in Seq(S) /\ left \in Seq(S) /\ Apart(left)
        /\ ToSet(batch) \union ToSet(left) = ToSet(seq)
        /\ ToSet(batch) \cap ToSet(left) = {}
    BY <1>1, Taken
  <1> HIDE DEF batch, left
  <1>4. sending'[s] = batch /\ sending' \in [Senders -> Seq(S)]
        /\ \A t \in Senders : t # s => sending'[t] = sending[t]
    BY <1>2, <1>3
  <1> QED BY <1>2, <1>3, <1>4 DEF Batch

LEMMA NoRecords == ToSet(<<>>) = {} /\ Apart(<<>>)
  BY DEF ToSet, Apart

LEMMA UsageInitInv == UsageInit => UsageInv
  <1> SUFFICES ASSUME UsageInit PROVE UsageInv
    OBVIOUS
  <1>1. /\ flushSize \in Nat \ {0} /\ added = 0 /\ buffer = <<>> /\ dropped = {}
        /\ \A s \in Senders : sending[s] = <<>> /\ doing[s] = "idle"
        /\ \A r \in 1..MaxRecords : billed[r] = 0
    BY LlmUsageAssumption DEF UsageInit
  <1>2. Records = {}
    BY <1>1 DEF Records
  <1>3. ToSet(buffer) = {} /\ Apart(buffer) /\ \A s \in Senders : Batch(s) = {}
    BY <1>1, NoRecords DEF Batch
  <1>4. UsageTypes
    <2>1. sending \in [Senders -> Seq(Nat)] /\ billed \in [1..MaxRecords -> Nat]
          /\ doing \in [Senders -> {"idle", "posting", "flushing", "stopped", "cancelled"}]
          /\ buffer \in Seq(Nat)
      BY DEF UsageInit
    <2> QED BY <1>1, <1>2, <1>3, <2>1, UsageNumbers DEF UsageTypes
  <1> QED BY <1>1, <1>2, <1>4 DEF UsageInv, OnePlace

\* a sender begins, ends or goes on without a batch
LEMMA OnlyDoing ==
    ASSUME UsageInv, UNCHANGED <<flushSize, buffer, added, sending, billed, dropped>>,
           doing' \in [Senders -> {"idle", "posting", "flushing", "stopped", "cancelled"}],
           \A s \in Senders : doing'[s] # "posting" => doing[s] # "posting"
    PROVE  UsageInv'
  <1>1. Records' = Records /\ \A s \in Senders : Batch(s)' = Batch(s)
    BY DEF Records, Batch
  <1>2. \A r \in Records : Held(r)' = Held(r)
    BY DEF Held
  <1> QED BY <1>1, <1>2 DEF UsageInv, UsageTypes, OnePlace

\* a batch is taken out of what a sender finds
LEMMA TakeKeeps ==
    ASSUME UsageInv, NEW s \in Senders, doing[s] # "posting",
           added' \in {added, added + 1}, added' \in 0..MaxRecords,
           UNCHANGED <<flushSize, billed>>,
           NEW found \in Seq(Nat), Apart(found),
           NEW all, ToSet(found) \subseteq all,
           all = ToSet(buffer) \union (Records' \ Records),
           dropped' = dropped \union (all \ ToSet(found)),
           \/ buffer' = found /\ UNCHANGED <<sending, doing>>
           \/ Take(s, found)
    PROVE  UsageInv'
  <1> DEFINE Does == {"idle", "posting", "flushing", "stopped", "cancelled"}
  <1>1. /\ added \in 0..MaxRecords /\ added' \in Nat /\ MaxRecords \in Nat
        /\ Records' \ Records \subseteq {added + 1} /\ Records \subseteq Records'
        /\ added' = added => Records' = Records
        /\ all \subseteq Records' /\ Records' \subseteq 1..MaxRecords
    BY UsageNumbers DEF UsageInv, UsageTypes, Records
  <1>2. \A r \in Records' \ Records : /\ ~Held(r) /\ r \notin dropped /\ billed[r] = 0
                                      /\ \A t \in Senders : r \notin Batch(t)
    BY <1>1 DEF UsageInv, UsageTypes, Records, Held
  <1>3. sending[s] = <<>> /\ Batch(s) = {}
    BY NoRecords DEF UsageInv, Batch
  <1>4. /\ buffer' \in Seq(Nat) /\ Apart(buffer')
        /\ sending' \in [Senders -> Seq(Nat)]
        /\ Batch(s)' \union ToSet(buffer') = ToSet(found)
        /\ Batch(s)' \cap ToSet(buffer') = {}
        /\ \A t \in Senders : t # s => sending'[t] = sending[t] /\ Batch(t)' = Batch(t)
        /\ doing' \in [Senders -> Does]
        /\ \A t \in Senders : doing'[t] # "posting" => sending'[t] = <<>>
    <2>1. CASE buffer' = found /\ UNCHANGED <<sending, doing>>
      BY <1>3, <2>1 DEF UsageInv, UsageTypes, Batch
    <2>2. CASE Take(s, found)
      <3>1. /\ buffer' \in Seq(Nat) /\ Apart(buffer')
            /\ sending' \in [Senders -> Seq(Nat)]
            /\ Batch(s)' \union ToSet(buffer') = ToSet(found)
            /\ Batch(s)' \cap ToSet(buffer') = {}
            /\ \A t \in Senders : t # s => sending'[t] = sending[t]
            /\ doing' = [doing EXCEPT ![s] = "posting"]
        BY <2>2, TakeSplits DEF UsageInv, UsageTypes
      <3>2. doing' \in [Senders -> Does] /\ doing'[s] = "posting"
            /\ \A t \in Senders : t # s => doing'[t] = doing[t]
        BY <3>1 DEF UsageInv, UsageTypes
      <3> QED BY <3>1, <3>2 DEF UsageInv, Batch
    <2> QED BY <2>1, <2>2
  <1>5. \A r : Held(r) <=> r \in ToSet(buffer)
    BY DEF Held
  <1>6. \A r : Held(r)' <=> r \in ToSet(buffer')
    BY DEF Held
  <1>7. OnePlace'
    <2> SUFFICES ASSUME NEW r \in Records'
                 PROVE  /\ billed[r] \in {0, 1}
                        /\ r \in ToSet(buffer') => billed[r] = 0 /\ r \notin dropped'
                        /\ \A t \in Senders : r \in Batch(t)' =>
                              /\ r \notin ToSet(buffer') /\ billed[r] = 0
                              /\ \A u \in Senders : r \in Batch(u)' => u = t
                        /\ \/ r \in ToSet(buffer') \/ (\E t \in Senders : r \in Batch(t)')
                           \/ billed[r] = 1 \/ r \in dropped'
      BY <1>6 DEF OnePlace
    <2>1. CASE r \in all
      <3>1. /\ billed[r] = 0 /\ r \notin dropped /\ \A t \in Senders : r \notin Batch(t)
        BY <1>2, <1>5, <2>1 DEF UsageInv, OnePlace
      <3> QED BY <1>4, <2>1, <3>1
    <2>2. CASE r \notin all
      <3>1. r \in Records /\ ~Held(r) /\ r \notin ToSet(found) /\ r \notin ToSet(buffer')
            /\ r \notin Batch(s)' /\ (r \in dropped' <=> r \in dropped)
        BY <1>4, <1>5, <2>2
      <3>2. \A t \in Senders : r \in Batch(t)' <=> r \in Batch(t)
        BY <1>3, <1>4, <3>1
      <3> QED BY <3>1, <3>2 DEF UsageInv, OnePlace
    <2> QED BY <2>1, <2>2
  <1>8. UsageTypes'
    <2>1. ToSet(buffer') \subseteq Records' /\ \A t \in Senders : Batch(t)' \subseteq Records'
      BY <1>1, <1>4 DEF UsageInv, UsageTypes
    <2>2. dropped' \subseteq Records'
      BY <1>1 DEF UsageInv, UsageTypes
    <2> QED BY <1>4, <2>1, <2>2 DEF UsageInv, UsageTypes
  <1>9. \A r \in 1..MaxRecords : r > added' => billed'[r] = 0
    BY <1>1 DEF UsageInv
  <1> QED BY <1>4, <1>7, <1>8, <1>9 DEF UsageInv

\* a post is over, and its batch is billed, given up, or both
LEMMA PostEnds ==
    ASSUME UsageInv, NEW s \in Senders,
           sending' = [sending EXCEPT ![s] = <<>>],
           UNCHANGED <<flushSize, buffer, added>>,
           \/ Stored(s) /\ UNCHANGED dropped
           \/ (Stored(s) \/ UNCHANGED billed) /\ dropped' = dropped \cup Batch(s),
           doing' \in [Senders -> {"idle", "posting", "flushing", "stopped", "cancelled"}],
           \A t \in Senders : t # s /\ doing'[t] # "posting" => doing[t] # "posting"
    PROVE  UsageInv'
  <1>1. /\ sending' \in [Senders -> Seq(Nat)] /\ sending'[s] = <<>> /\ Batch(s)' = {}
        /\ \A t \in Senders : t # s => sending'[t] = sending[t] /\ Batch(t)' = Batch(t)
    BY NoRecords DEF UsageInv, UsageTypes, Batch
  <1>2. /\ billed' \in [1..MaxRecords -> Nat]
        /\ \A r \in 1..MaxRecords : \/ billed'[r] = billed[r]
                                    \/ r \in Batch(s) /\ billed'[r] = billed[r] + 1
        /\ Stored(s) => \A r \in 1..MaxRecords : r \in Batch(s) => billed'[r] = billed[r] + 1
    <2>1. billed \in [1..MaxRecords -> Nat]
      BY DEF UsageInv, UsageTypes
    <2>2. CASE UNCHANGED billed /\ ~Stored(s)
      BY <2>1, <2>2
    <2>3. CASE Stored(s)
      <3> DEFINE more(r) == billed[r] + IF r \in Batch(s) THEN 1 ELSE 0
      <3>1. \A r \in 1..MaxRecords : /\ more(r) \in Nat
                                     /\ r \in Batch(s) => more(r) = billed[r] + 1
                                     /\ r \notin Batch(s) => more(r) = billed[r]
        BY <2>1
      <3>2. billed' = [r \in 1..MaxRecords |-> more(r)]
        BY <2>1, <2>3 DEF Stored
      <3> HIDE DEF more
      <3> QED BY <3>1, <3>2
    <2> QED BY <2>2, <2>3
  <1>3. /\ Records' = Records /\ Records \subseteq 1..MaxRecords
        /\ \A r : Held(r)' <=> Held(r)
    BY UsageNumbers DEF UsageInv, UsageTypes, Records, Held
  <1>4. UsageTypes'
    BY <1>1, <1>2, <1>3 DEF UsageInv, UsageTypes
  <1>5. OnePlace'
    <2> SUFFICES ASSUME NEW r \in Records
                 PROVE  /\ billed'[r] \in {0, 1}
                        /\ Held(r) => billed'[r] = 0 /\ r \notin dropped'
                        /\ \A t \in Senders : r \in Batch(t)' =>
                              /\ ~Held(r) /\ billed'[r] = 0
                              /\ \A u \in Senders : r \in Batch(u)' => u = t
                        /\ \/ Held(r) \/ (\E t \in Senders : r \in Batch(t)')
                           \/ billed'[r] = 1 \/ r \in dropped'
      BY <1>3 DEF OnePlace
    <2>1. CASE r \in Batch(s)
      <3>1. /\ billed[r] = 0 /\ ~Held(r)
            /\ \A t \in Senders : t # s => r \notin Batch(t)
        BY <2>1 DEF UsageInv, OnePlace
      <3>2. \A t \in Senders : r \notin Batch(t)'
        BY <1>1, <3>1
      <3>3. billed'[r] \in {0, 1} /\ (Stored(s) => billed'[r] = 1)
        BY <1>2, <1>3, <2>1, <3>1
      <3> QED BY <2>1, <3>1, <3>2, <3>3
    <2>2. CASE r \notin Batch(s)
      <3>1. billed'[r] = billed[r] /\ (r \in dropped' <=> r \in dropped)
            /\ \A t \in Senders : r \in Batch(t)' <=> r \in Batch(t)
        BY <1>1, <1>2, <1>3, <2>2
      <3> QED BY <3>1 DEF UsageInv, OnePlace
    <2> QED BY <2>1, <2>2
  <1>6. \A r \in 1..MaxRecords : r > added => billed'[r] = 0
    BY <1>2 DEF UsageInv, UsageTypes, Records
  <1> QED BY <1>1, <1>4, <1>5, <1>6 DEF UsageInv

LEMMA AddKeeps ==
    ASSUME UsageInv, NEW s \in Senders, Add(s)
    PROVE  UsageInv'
  <1> DEFINE grown == Append(buffer, added')
  <1>1. /\ added \in 0..MaxRecords /\ added' = added + 1 /\ added' \in 0..MaxRecords
        /\ added' \in Nat /\ Records' = Records \union {added'} /\ added' \notin Records
    BY UsageNumbers DEF Add, UsageInv, UsageTypes, Records
  <1>2. /\ grown \in Seq(Nat) /\ Apart(grown)
        /\ ToSet(grown) = ToSet(buffer) \union {added'}
    <2>1. /\ Len(grown) = Len(buffer) + 1 /\ Len(buffer) \in Nat /\ grown \in Seq(Nat)
          /\ DOMAIN grown = 1..(Len(buffer) + 1) /\ DOMAIN buffer = 1..Len(buffer)
          /\ grown[Len(buffer) + 1] = added'
          /\ \A i \in 1..Len(buffer) : grown[i] = buffer[i]
      BY <1>1 DEF UsageInv, UsageTypes
    <2> HIDE DEF grown
    <2>2. \A i \in 1..Len(buffer) : buffer[i] # added'
      BY <1>1, <2>1 DEF UsageInv, UsageTypes, ToSet
    <2>3. Apart(grown)
      <3> SUFFICES ASSUME NEW i \in DOMAIN grown, NEW j \in DOMAIN grown, grown[i] = grown[j]
                   PROVE  i = j
        BY DEF Apart
      <3>1. CASE i \in 1..Len(buffer) /\ j \in 1..Len(buffer)
        BY <2>1, <3>1 DEF UsageInv, UsageTypes, Apart
      <3>2. CASE i = Len(buffer) + 1 \/ j = Len(buffer) + 1
        BY <2>1, <2>2, <3>2
      <3> QED BY <2>1, <3>1, <3>2
    <2>4. ToSet(grown) = ToSet(buffer) \union {added'}
      BY <2>1 DEF ToSet
    <2> QED BY <2>1, <2>3, <2>4
  <1> HIDE DEF grown
  <1>3. /\ Kept(grown) \in Seq(Nat) /\ Apart(Kept(grown))
        /\ ToSet(Kept(grown)) \subseteq ToSet(grown)
    BY <1>2, KeptOf
  <1>4. /\ dropped' = dropped \union (ToSet(grown) \ ToSet(Kept(grown)))
        /\ \/ buffer' = Kept(grown) /\ UNCHANGED <<sending, doing>>
           \/ Take(s, Kept(grown))
        /\ UNCHANGED <<flushSize, billed>> /\ doing[s] # "posting"
    BY DEF Add, grown
  <1>5. ToSet(grown) = ToSet(buffer) \union (Records' \ Records)
    BY <1>1, <1>2
  <1> QED BY <1>1, <1>3, <1>4, <1>5, TakeKeeps

LEMMA FlushKeeps ==
    ASSUME UsageInv, NEW s \in Senders, Flush(s)
    PROVE  UsageInv'
  <1>1. CASE buffer = <<>> /\ doing' = [doing EXCEPT ![s] = Flushed(s)] /\ UNCHANGED <<buffer, sending>>
    <2>1. doing[s] # "posting" /\ UNCHANGED <<flushSize, added, billed, dropped>>
      BY DEF Flush
    <2>2. Flushed(s) \in {"idle", "stopped"}
      BY DEF Flushed
    <2> QED BY <1>1, <2>1, <2>2, OnlyDoing DEF UsageInv, UsageTypes
  <1>2. CASE Take(s, buffer)
    <2>1. /\ doing[s] # "posting" /\ UNCHANGED <<flushSize, added, billed, dropped>>
          /\ added \in 0..MaxRecords /\ Records' = Records
      BY DEF Flush, UsageInv, UsageTypes, Records
    <2>2. /\ ToSet(buffer) = ToSet(buffer) \union (Records' \ Records)
          /\ dropped' = dropped \union (ToSet(buffer) \ ToSet(buffer))
          /\ buffer \in Seq(Nat) /\ Apart(buffer)
      BY <2>1 DEF UsageInv, UsageTypes
    <2> QED BY <1>2, <2>1, <2>2, TakeKeeps
  <1> QED BY <1>1, <1>2 DEF Flush

LEMMA PostingKeeps ==
    ASSUME UsageInv, NEW s \in Senders, Delivered(s) \/ Failing(s) \/ Cut(s)
    PROVE  UsageInv'
  <1>1. /\ sending' = [sending EXCEPT ![s] = <<>>]
        /\ doing' = [doing EXCEPT ![s] = AfterPost(s)]
        /\ UNCHANGED <<flushSize, buffer, added>>
        /\ \/ Stored(s) /\ UNCHANGED dropped
           \/ (Stored(s) \/ UNCHANGED billed) /\ dropped' = dropped \cup Batch(s)
    BY DEF Delivered, Failing, Cut, Posted
  <1>2. AfterPost(s) \in {"idle", "flushing"}
    BY DEF AfterPost
  <1>3. /\ doing' \in [Senders -> {"idle", "posting", "flushing", "stopped", "cancelled"}]
        /\ \A t \in Senders : t # s => doing'[t] = doing[t]
    BY <1>1, <1>2 DEF UsageInv, UsageTypes
  <1> QED BY <1>1, <1>3, PostEnds

LEMMA WakeKeeps ==
    ASSUME UsageInv, Wake
    PROVE  UsageInv'
  BY OnlyDoing, UsageNumbers DEF Wake, UsageInv, UsageTypes

LEMMA StopKeeps ==
    ASSUME UsageInv, Stop
    PROVE  UsageInv'
  <1> DEFINE Does == {"idle", "posting", "flushing", "stopped", "cancelled"}
             cut == [doing EXCEPT ![Worker] = "cancelled"]
  <1>1. /\ cut \in [Senders -> Does]
        /\ \A t \in Senders : t # Worker => cut[t] = doing[t]
    BY UsageNumbers DEF UsageInv, UsageTypes
  <1>2. doing' = [cut EXCEPT ![Stopper] = "flushing"]
    BY DEF Stop
  <1> HIDE DEF cut
  <1>3. /\ doing' \in [Senders -> Does]
        /\ \A t \in Senders : t # Worker /\ t # Stopper => doing'[t] = doing[t]
        /\ doing[Stopper] = "idle"
    BY <1>1, <1>2, UsageNumbers DEF Stop
  <1>4. /\ sending' = [sending EXCEPT ![Worker] = <<>>]
        /\ UNCHANGED <<flushSize, buffer, added>>
        /\ (Stored(Worker) \/ UNCHANGED billed) /\ dropped' = dropped \cup Batch(Worker)
    BY DEF Stop
  <1> QED BY <1>3, <1>4, PostEnds, UsageNumbers

LEMMA UsageStepInv == UsageInv /\ [UsageNext]_usageVars => UsageInv'
  <1> SUFFICES ASSUME UsageInv, [UsageNext]_usageVars PROVE UsageInv'
    OBVIOUS
  <1>1. CASE UNCHANGED usageVars
    BY <1>1, OnlyDoing DEF usageVars, UsageInv, UsageTypes
  <1> QED BY <1>1, AddKeeps, FlushKeeps, PostingKeeps, WakeKeeps, StopKeeps DEF UsageNext

(* A call is billed at most once and its record is in one place at a time, *)
(* or was stored or given up, for any number of tasks and any sizes of the *)
(* buffer and its batches, whichever posts fail after they were stored     *)
(* (usage.py `UsageBuffer`).                                               *)
THEOREM BilledOnce == UsageSpec => []EachCallBilledOnce
  BY PlacesSay, UsageInitInv, UsageStepInv, PTL DEF UsageSpec

-----------------------------------------------------------------------------
(* The knowledge base and the content map                                  *)

\* what a call in flight is a record of
ToolNames == Budgets \cup {"none", "update", "observed", "inferred"}
CallRecords == [tool : ToolNames, on : SUBSET (KnowledgeIds \cup Observations), done : BOOLEAN]

(* The calls and what the run was shown keep their types.                  *)
KnowledgeTyped ==
    /\ attempted \in [Budgets \cup {"update"} -> Nat] /\ replacing \in Nat
    /\ readable \subseteq KnowledgeIds /\ glimpsed \subseteq KnowledgeIds /\ read \subseteq KnowledgeIds
    /\ observations \subseteq Observations /\ gone \subseteq KnowledgeIds
    /\ flight \in CallRecords

(* What the base deleted and nobody was told of is what the call under way *)
(* asked it to, and only once it was done.                                 *)
Untold == lost \subseteq gone \cup (IF flight.done THEN flight.on ELSE {}) \/ ended = "cancelled"

(* A deletion is of one entry.                                             *)
OneNamed == flight.tool = "forget" => \A e, f \in flight.on : e = f

(* What the tools may rely on when they wake; what is out of the allowance *)
(* followed a deletion.                                                    *)
KnowledgeBook ==
    /\ OnlyWhatWasReadIsChanged
    /\ gone \subseteq read /\ missing \subseteq gone /\ late \subseteq gone
    /\ unreplaced = missing
    /\ flight.done => flight.tool = "forget"
    /\ Untold /\ OneNamed
    /\ toModel.failed /\ toModel.tool \in {"record", "update"} => toModel.names = missing
    /\ AllowancesHold

KnowledgeInv == KnowledgeTyped /\ KnowledgeBook

LEMMA KnowledgeFollows == KnowledgeInv => KnowledgeKeepsItsWord
BY DEF KnowledgeInv, KnowledgeBook, KnowledgeKeepsItsWord, NothingIsLostUnsaid, Untold

LEMMA NoCall == NotCalling \in CallRecords /\ NotCalling.tool = "none" /\ NotCalling.done = FALSE
BY DEF NotCalling, CallRecords, ToolNames

LEMMA KnowledgeStarts == KnowledgeInit => KnowledgeInv
<1> SUFFICES ASSUME KnowledgeInit PROVE KnowledgeInv OBVIOUS
<1>1. KnowledgeTyped BY NoCall DEF KnowledgeInit, KnowledgeTyped
<1>2. AllowancesHold BY KnowledgeAssumption DEF KnowledgeInit, AllowancesHold, Budgets, Writes
<1>3. OnlyWhatWasReadIsChanged BY NoCall DEF KnowledgeInit, OnlyWhatWasReadIsChanged
<1> QED BY <1>1, <1>2, <1>3, NoCall DEF KnowledgeInit, KnowledgeInv, KnowledgeBook, Untold, OneNamed,
                                              NoWord

(* A step that leaves the allowances and what followed a deletion alone.   *)
LEMMA AllowancesStand ==
    ASSUME KnowledgeInv, UNCHANGED <<attempted, replacing>>, gone \subseteq gone'
    PROVE  AllowancesHold'
BY DEF KnowledgeInv, KnowledgeBook, AllowancesHold, Writes

LEMMA KnowledgeRefused == ASSUME KnowledgeInv, NEW tool, Refuse(tool) PROVE KnowledgeInv'
<1>1. KnowledgeTyped' BY DEF KnowledgeInv, KnowledgeTyped, Refuse, shown, deletions
<1>2. AllowancesHold' BY AllowancesStand DEF Refuse, deletions
<1>3. OnlyWhatWasReadIsChanged'
  BY DEF KnowledgeInv, KnowledgeBook, OnlyWhatWasReadIsChanged, Refuse, shown, deletions
<1>4. toModel'.failed /\ toModel'.tool \in {"record", "update"} => toModel'.names = unreplaced
  BY DEF Refuse, TellModel
<1>5. KnowledgeBook'
  BY <1>2, <1>3, <1>4 DEF KnowledgeInv, KnowledgeBook, Untold, OneNamed, Refuse, base, deletions, shown
<1> QED BY <1>1, <1>5 DEF KnowledgeInv

(* A call that begins with an entry it may name keeps the book.            *)
LEMMA KnowledgeSent ==
    ASSUME KnowledgeInv, ended = "going", NEW tool \in ToolNames, tool # "none",
           NEW on \in SUBSET (KnowledgeIds \cup Observations), SendFrame(tool, on),
           tool \in {"update", "forget"} => on \subseteq readable,
           tool \in {"link", "unlink"} => on \subseteq readable \cup glimpsed,
           tool = "inferred" => on # {} /\ on \subseteq observations,
           tool = "forget" => \A e, f \in on : e = f,
           attempted' \in [Budgets \cup {"update"} -> Nat], replacing' \in Nat, AllowancesHold'
    PROVE  KnowledgeInv'
<1>1. flight' \in CallRecords /\ flight'.tool = tool /\ flight'.on = on /\ flight'.done = FALSE
  BY DEF SendFrame, CallRecords
<1>2. KnowledgeTyped' BY <1>1 DEF KnowledgeInv, KnowledgeTyped, SendFrame, shown, deletions
<1>3. OnlyWhatWasReadIsChanged'
  BY <1>1 DEF KnowledgeInv, KnowledgeBook, OnlyWhatWasReadIsChanged, SendFrame, shown, deletions
<1>4. Untold'
  <2>1. lost \subseteq gone BY NoCall DEF SendFrame, KnowledgeInv, KnowledgeBook, Untold
  <2> QED BY <2>1 DEF SendFrame, Untold, base, deletions
<1>5. ~toModel'.failed BY DEF SendFrame, NoWord
<1>6. KnowledgeBook'
  BY <1>1, <1>3, <1>4, <1>5 DEF KnowledgeInv, KnowledgeBook, OneNamed, SendFrame, shown, base, deletions
<1> QED BY <1>2, <1>6 DEF KnowledgeInv

(* An allowance taken while there is one left.                             *)
LEMMA AllowanceTaken ==
    ASSUME KnowledgeInv, NEW tool \in Budgets \cup {"update"}, Spend(tool), gone' = gone,
           tool \in Budgets \ {"record"} => attempted[tool] < Limit[tool],
           tool \in {"record", "update"} /\ replacing' = replacing => Writes < Limit["record"],
           replacing' = replacing \/ (tool = "record" /\ replacing' = replacing + 1 /\ gone # {})
    PROVE  attempted' \in [Budgets \cup {"update"} -> Nat] /\ replacing' \in Nat /\ AllowancesHold'
<1>1. attempted' = [attempted EXCEPT ![tool] = @ + 1] BY DEF Spend
<1>2. attempted \in [Budgets \cup {"update"} -> Nat] /\ replacing \in Nat /\ AllowancesHold
  BY DEF KnowledgeInv, KnowledgeTyped, KnowledgeBook
<1>3. attempted' \in [Budgets \cup {"update"} -> Nat] /\ replacing' \in Nat BY <1>1, <1>2
<1>4. \A t \in Budgets \cup {"update"} : attempted'[t] = IF t = tool THEN attempted[t] + 1 ELSE attempted[t]
  BY <1>1, <1>2
<1>5. "record" \in Budgets /\ "update" \notin Budgets BY DEF Budgets
<1>6. Limit \in [Budgets -> Nat] BY KnowledgeAssumption
<1>7. ASSUME NEW t \in Budgets \ {"record"} PROVE attempted'[t] <= Limit[t]
  BY <1>2, <1>4, <1>6, <1>7 DEF AllowancesHold
<1>8. Writes' = (IF tool \in {"record", "update"} THEN Writes + 1 ELSE Writes) /\ Writes \in Nat
  BY <1>2, <1>4, <1>5 DEF Writes
<1>9. Writes' <= Limit["record"] + replacing'
  BY <1>2, <1>5, <1>6, <1>8 DEF AllowancesHold
<1>10. replacing' > 0 => gone' # {} BY <1>2 DEF AllowancesHold
<1> QED BY <1>3, <1>7, <1>9, <1>10 DEF AllowancesHold

(* A call that takes its allowance and goes out keeps the book.            *)
LEMMA AllowedCallBegins ==
    ASSUME KnowledgeInv, ended = "going", NEW tool \in Budgets \cup {"update"},
           NEW on \in SUBSET KnowledgeIds, SendFrame(tool, on), Spend(tool), replacing' = replacing,
           tool \in Budgets \ {"record"} => ~(attempted[tool] >= Limit[tool]),
           tool \in {"record", "update"} => ~(Writes >= Limit["record"]),
           tool \in {"update", "forget"} => on \subseteq readable,
           tool \in {"link", "unlink"} => on \subseteq readable \cup glimpsed,
           tool = "forget" => \A e, f \in on : e = f
    PROVE  KnowledgeInv'
<1>1. gone' = gone BY DEF SendFrame, deletions
<1>2. \A t \in Budgets : attempted[t] \in Nat /\ Limit[t] \in Nat
  BY KnowledgeAssumption DEF KnowledgeInv, KnowledgeTyped
<1>3. Writes \in Nat /\ Limit["record"] \in Nat
  <2>1. attempted \in [Budgets \cup {"update"} -> Nat] BY DEF KnowledgeInv, KnowledgeTyped
  <2>2. "record" \in Budgets BY DEF Budgets
  <2>3. attempted["record"] \in Nat /\ attempted["update"] \in Nat BY <2>1, <2>2
  <2> QED BY <1>2, <2>2, <2>3 DEF Writes
<1>4. tool \in Budgets \ {"record"} => attempted[tool] < Limit[tool] BY <1>2
<1>5. tool \in {"record", "update"} => Writes < Limit["record"] BY <1>3
<1>6. attempted' \in [Budgets \cup {"update"} -> Nat] /\ replacing' \in Nat /\ AllowancesHold'
  BY <1>1, <1>4, <1>5, AllowanceTaken
<1>7. tool \in ToolNames /\ tool # "none" /\ tool # "inferred" BY DEF Budgets, ToolNames
<1> QED BY <1>6, <1>7, KnowledgeSent

LEMMA ReadsBegin ==
    ASSUME KnowledgeInv, ended = "going", RecordKnowledge \/ SearchKnowledge
    PROVE  KnowledgeInv'
<1>0. "record" \in Budgets /\ "search" \in Budgets BY DEF Budgets
<1>1. CASE RecordKnowledge
  <2>1. CASE Writes >= Limit["record"] /\ unreplaced = {}
    BY <1>1, <2>1, KnowledgeRefused DEF RecordKnowledge
  <2>2. CASE ~(Writes >= Limit["record"] /\ unreplaced = {})
    <3>1. SendFrame("record", {}) /\ Spend("record")
          /\ replacing' = IF Writes >= Limit["record"] THEN replacing + 1 ELSE replacing
      BY <1>1, <2>2 DEF RecordKnowledge
    <3>2. CASE Writes >= Limit["record"]
      <4>1. gone # {} /\ gone' = gone
        BY <2>2, <3>1, <3>2 DEF SendFrame, deletions, KnowledgeInv, KnowledgeBook
      <4>2. replacing' = replacing + 1 /\ replacing \in Nat
        BY <3>1, <3>2 DEF KnowledgeInv, KnowledgeTyped
      <4>3. replacing' # replacing BY <4>2
      <4>4. attempted' \in [Budgets \cup {"update"} -> Nat] /\ replacing' \in Nat /\ AllowancesHold'
        BY <1>0, <3>1, <4>1, <4>2, <4>3, AllowanceTaken
      <4>5. "record" \in ToolNames BY DEF ToolNames, Budgets
      <4> QED BY <3>1, <4>4, <4>5, KnowledgeSent
    <3>3. CASE ~(Writes >= Limit["record"]) BY <3>1, <3>3, <1>0, AllowedCallBegins
    <3> QED BY <3>2, <3>3
  <2> QED BY <2>1, <2>2
<1>2. CASE SearchKnowledge
  <2>1. CASE attempted["search"] >= Limit["search"]
    BY <1>2, <2>1, KnowledgeRefused DEF SearchKnowledge
  <2>2. CASE ~(attempted["search"] >= Limit["search"])
    <3>1. SendFrame("search", {}) /\ Spend("search") /\ replacing' = replacing
      BY <1>2, <2>2 DEF SearchKnowledge
    <3> QED BY <3>1, <2>2, <1>0, AllowedCallBegins
  <2> QED BY <2>1, <2>2
<1> QED BY <1>1, <1>2

LEMMA KnowledgeBegins ==
    ASSUME KnowledgeInv, ended = "going", NEW e \in KnowledgeIds, NEW f \in KnowledgeIds,
           \/ UpdateKnowledge(e) \/ ForgetKnowledge(e) \/ ExpandKnowledge(e)
           \/ LinkKnowledge("link", e, f) \/ LinkKnowledge("unlink", e, f)
    PROVE  KnowledgeInv'
<1>0. "record" \in Budgets /\ "forget" \in Budgets /\ "link" \in Budgets /\ "unlink" \in Budgets
      /\ "search" \in Budgets /\ "expand" \in Budgets
  BY DEF Budgets
<1>1. CASE UpdateKnowledge(e)
  <2>1. CASE Writes >= Limit["record"] \/ e \notin readable
    BY <1>1, <2>1, KnowledgeRefused DEF UpdateKnowledge
  <2>2. CASE ~(Writes >= Limit["record"] \/ e \notin readable)
    <3>1. SendFrame("update", {e}) /\ Spend("update") /\ replacing' = replacing
      BY <1>1, <2>2 DEF UpdateKnowledge
    <3>2. "update" \notin Budgets /\ {e} \subseteq readable BY <2>2 DEF Budgets
    <3> QED BY <3>1, <3>2, <2>2, AllowedCallBegins
  <2> QED BY <2>1, <2>2
<1>2. CASE ForgetKnowledge(e)
  <2>1. CASE attempted["forget"] >= Limit["forget"] \/ e \notin readable
    BY <1>2, <2>1, KnowledgeRefused DEF ForgetKnowledge
  <2>2. CASE ~(attempted["forget"] >= Limit["forget"] \/ e \notin readable)
    <3>1. SendFrame("forget", {e}) /\ Spend("forget") /\ replacing' = replacing
      BY <1>2, <2>2 DEF ForgetKnowledge
    <3> QED BY <3>1, <2>2, <1>0, AllowedCallBegins
  <2> QED BY <2>1, <2>2
<1>3. CASE ExpandKnowledge(e)
  <2>1. CASE attempted["expand"] >= Limit["expand"] \/ ~KnowsOf(e)
    BY <1>3, <2>1, KnowledgeRefused DEF ExpandKnowledge
  <2>2. CASE ~(attempted["expand"] >= Limit["expand"] \/ ~KnowsOf(e))
    <3>1. SendFrame("expand", {e}) /\ Spend("expand") /\ replacing' = replacing
      BY <1>3, <2>2 DEF ExpandKnowledge
    <3> QED BY <3>1, <2>2, <1>0, AllowedCallBegins
  <2> QED BY <2>1, <2>2
<1>4. ASSUME NEW tool \in {"link", "unlink"}, LinkKnowledge(tool, e, f) PROVE KnowledgeInv'
  <2>1. CASE attempted[tool] >= Limit[tool] \/ ~KnowsOf(e) \/ ~KnowsOf(f) \/ (tool = "link" /\ e = f)
    BY <1>4, <2>1, KnowledgeRefused DEF LinkKnowledge
  <2>2. CASE ~(attempted[tool] >= Limit[tool] \/ ~KnowsOf(e) \/ ~KnowsOf(f) \/ (tool = "link" /\ e = f))
    <3>1. SendFrame(tool, {e, f}) /\ Spend(tool) /\ replacing' = replacing
      BY <1>4, <2>2 DEF LinkKnowledge
    <3>2. {e, f} \subseteq readable \cup glimpsed BY <2>2 DEF KnowsOf
    <3>3. ~(attempted[tool] >= Limit[tool]) BY <2>2
    <3>4. tool \in Budgets \cup {"update"} /\ tool \notin {"record", "update", "forget"} BY <1>0
    <3> QED BY <3>1, <3>2, <3>3, <3>4, AllowedCallBegins
  <2> QED BY <2>1, <2>2
<1> QED BY <1>1, <1>2, <1>3, <1>4

LEMMA MapBegins ==
    ASSUME KnowledgeInv, ended = "going",
           RecordVerdict \/ \E basedOn \in SUBSET Observations : InferCapability(basedOn)
    PROVE  KnowledgeInv'
<1>1. {"observed", "inferred"} \subseteq ToolNames BY DEF ToolNames
<1>2. ASSUME UNCHANGED <<attempted, replacing, gone>>
      PROVE  attempted' \in [Budgets \cup {"update"} -> Nat] /\ replacing' \in Nat /\ AllowancesHold'
  BY <1>2, AllowancesStand DEF KnowledgeInv, KnowledgeTyped
<1>3. CASE RecordVerdict
  <2>1. SendFrame("observed", {}) /\ UNCHANGED <<attempted, replacing, gone>>
    BY <1>3 DEF RecordVerdict, SendFrame, deletions
  <2> QED BY <1>1, <1>2, <2>1, KnowledgeSent
<1>4. ASSUME NEW basedOn \in SUBSET Observations, InferCapability(basedOn) PROVE KnowledgeInv'
  <2>1. CASE basedOn = {} \/ ~(basedOn \subseteq observations)
    BY <1>4, <2>1, KnowledgeRefused DEF InferCapability
  <2>2. CASE ~(basedOn = {} \/ ~(basedOn \subseteq observations))
    <3>1. SendFrame("inferred", basedOn) /\ UNCHANGED <<attempted, replacing, gone>>
      BY <1>4, <2>2 DEF InferCapability, SendFrame, deletions
    <3> QED BY <1>1, <1>2, <2>2, <3>1, KnowledgeSent
  <2> QED BY <2>1, <2>2
<1> QED BY <1>3, <1>4

-----------------------------------------------------------------------------
(* What the base does meanwhile is what the call asked for, or a call      *)
(* before it that was told as a deletion.                                  *)
LEMMA BaseActs ==
    ASSUME KnowledgeInv, NEW e, BaseDeletes \/ BaseDeletesLate(e)
    PROVE  KnowledgeInv'
<1>1. ~toModel'.failed BY DEF BaseDeletes, BaseDeletesLate, NoWord
<1>2. UNCHANGED <<attempted, replacing>> /\ gone' = gone BY DEF BaseDeletes, BaseDeletesLate, deletions
<1>3. AllowancesHold' BY <1>2, AllowancesStand
<1>4. CASE BaseDeletes
  <2>1. /\ flight' \in CallRecords /\ flight'.tool = flight.tool /\ flight'.on = flight.on
        /\ flight'.done = TRUE
    BY <1>4 DEF BaseDeletes, KnowledgeInv, KnowledgeTyped, CallRecords
  <2>2. OnlyWhatWasReadIsChanged'
    BY <1>4, <2>1 DEF BaseDeletes, KnowledgeInv, KnowledgeBook, OnlyWhatWasReadIsChanged, shown, deletions
  <2>3. Untold' BY <1>4, <2>1 DEF BaseDeletes, KnowledgeInv, KnowledgeBook, Untold, deletions
  <2>4. KnowledgeTyped' BY <1>4, <2>1 DEF BaseDeletes, KnowledgeInv, KnowledgeTyped, shown, deletions
  <2>5. KnowledgeBook'
    BY <1>1, <1>3, <1>4, <2>1, <2>2, <2>3
       DEF BaseDeletes, KnowledgeInv, KnowledgeBook, OneNamed, shown, deletions
  <2> QED BY <2>4, <2>5 DEF KnowledgeInv
<1>5. CASE BaseDeletesLate(e)
  <2>1. OnlyWhatWasReadIsChanged'
    BY <1>5 DEF BaseDeletesLate, KnowledgeInv, KnowledgeBook, OnlyWhatWasReadIsChanged, shown, deletions
  <2>2. Untold' BY <1>5 DEF BaseDeletesLate, KnowledgeInv, KnowledgeBook, Untold, deletions
  <2>3. KnowledgeTyped' BY <1>5 DEF BaseDeletesLate, KnowledgeInv, KnowledgeTyped, shown, deletions
  <2>4. KnowledgeBook'
    BY <1>1, <1>3, <1>5, <2>1, <2>2
       DEF BaseDeletesLate, KnowledgeInv, KnowledgeBook, OneNamed, shown, deletions
  <2> QED BY <2>3, <2>4 DEF KnowledgeInv
<1> QED BY <1>4, <1>5

(* A call that wakes up, told or not, and was no deletion that was done:   *)
(* what was shown only grows.                                              *)
LEMMA CallWakes ==
    ASSUME KnowledgeInv, Woken, ~flight.done, UNCHANGED <<attempted, replacing, gone, base>>,
           readable' \subseteq KnowledgeIds, glimpsed' \subseteq KnowledgeIds,
           observations' \subseteq Observations,
           readable' \subseteq read', read \subseteq read', read' \subseteq KnowledgeIds,
           unreplaced' = missing', missing' \subseteq gone,
           gone \cap readable' \subseteq listed',
           ended' = "cancelled" \/ ended # "cancelled",
           toModel'.failed /\ toModel'.tool \in {"record", "update"} => toModel'.names = missing'
    PROVE  KnowledgeInv'
<1>0. flight' = NotCalling BY DEF Woken
<1>1. KnowledgeTyped' BY <1>0, NoCall DEF KnowledgeInv, KnowledgeTyped
<1>2. AllowancesHold' BY AllowancesStand
<1>3. OnlyWhatWasReadIsChanged' BY <1>0, NoCall DEF OnlyWhatWasReadIsChanged
<1>4. Untold' BY DEF KnowledgeInv, KnowledgeBook, Untold, base
<1>5. KnowledgeBook'
  BY <1>0, <1>2, <1>3, <1>4, NoCall DEF KnowledgeInv, KnowledgeBook, OneNamed, base
<1> QED BY <1>1, <1>5 DEF KnowledgeInv

LEMMA CallFails == ASSUME KnowledgeInv, Fails PROVE KnowledgeInv'
<1>1. toModel'.failed /\ toModel'.tool \in {"record", "update"} => toModel'.names = missing'
  BY DEF Fails, TellModel, KnowledgeInv, KnowledgeBook, deletions
<1> QED
  BY <1>1, CallWakes
     DEF Fails, KnowledgeInv, KnowledgeTyped, KnowledgeBook, OnlyWhatWasReadIsChanged, shown, deletions

\* only a deletion is ever done while its call waits
LEMMA OthersAreNotDone == ASSUME KnowledgeInv, flight.tool # "forget" PROVE ~flight.done
BY DEF KnowledgeInv, KnowledgeBook

LEMMA RecordWakes ==
    ASSUME KnowledgeInv, ended = "going", NEW ids \in SUBSET (KnowledgeIds \ (read \cup glimpsed)),
           RecordEnds(ids)
    PROVE  KnowledgeInv'
<1>1. ~toModel'.failed BY DEF RecordEnds, TellModel
<1>2. ids \cap gone = {} BY DEF KnowledgeInv, KnowledgeBook
<1>3. ~flight.done BY OthersAreNotDone DEF RecordEnds
<1> QED
  BY <1>1, <1>2, <1>3, CallWakes
     DEF RecordEnds, KnowledgeInv, KnowledgeTyped, KnowledgeBook, OnlyWhatWasReadIsChanged

LEMMA SearchWakes ==
    ASSUME KnowledgeInv, ended = "going", NEW hits \in SUBSET KnowledgeIds,
           NEW neighbours \in SUBSET KnowledgeIds, SearchEnds(hits, neighbours)
    PROVE  KnowledgeInv'
<1>1. ~toModel'.failed BY DEF SearchEnds, TellModel
<1>2. ~flight.done BY OthersAreNotDone DEF SearchEnds
<1> QED
  BY <1>1, <1>2, CallWakes
     DEF SearchEnds, KnowledgeInv, KnowledgeTyped, KnowledgeBook, OnlyWhatWasReadIsChanged, deletions

\* what was corrected was readable when its call began, and still is
LEMMA UpdateWakes == ASSUME KnowledgeInv, ended = "going", UpdateEnds PROVE KnowledgeInv'
<1>1. ~toModel'.failed BY DEF UpdateEnds, TellModel
<1>2. ~flight.done BY OthersAreNotDone DEF UpdateEnds
<1>3. readable' = readable BY DEF UpdateEnds, KnowledgeInv, KnowledgeBook, OnlyWhatWasReadIsChanged
<1> QED
  BY <1>1, <1>2, <1>3, CallWakes
     DEF UpdateEnds, KnowledgeInv, KnowledgeTyped, KnowledgeBook, OnlyWhatWasReadIsChanged, deletions

LEMMA OtherWakes ==
    ASSUME KnowledgeInv, ended = "going",
           \/ \E neighbours \in SUBSET KnowledgeIds : ExpandEnds(neighbours)
           \/ \E ids \in SUBSET Observations : CapabilityEnds(ids)
           \/ LinkEnds \/ SearchUnsent
    PROVE  KnowledgeInv'
<1>1. ~flight.done BY OthersAreNotDone DEF ExpandEnds, CapabilityEnds, LinkEnds, SearchUnsent
<1>2. ~toModel'.failed BY DEF ExpandEnds, CapabilityEnds, LinkEnds, SearchUnsent, TellModel, NoWord
<1>3. ASSUME NEW neighbours \in SUBSET KnowledgeIds, ExpandEnds(neighbours) PROVE KnowledgeInv'
  BY <1>1, <1>2, <1>3, CallWakes
     DEF ExpandEnds, KnowledgeInv, KnowledgeTyped, KnowledgeBook, OnlyWhatWasReadIsChanged, deletions
<1>4. ASSUME NEW ids \in SUBSET Observations, CapabilityEnds(ids) PROVE KnowledgeInv'
  BY <1>1, <1>2, <1>4, CallWakes
     DEF CapabilityEnds, KnowledgeInv, KnowledgeTyped, KnowledgeBook, OnlyWhatWasReadIsChanged, deletions
<1>5. CASE LinkEnds
  BY <1>1, <1>2, <1>5, CallWakes
     DEF LinkEnds, KnowledgeInv, KnowledgeTyped, KnowledgeBook, OnlyWhatWasReadIsChanged, shown, deletions
<1>6. CASE SearchUnsent
  BY <1>1, <1>2, <1>6, CallWakes
     DEF SearchUnsent, KnowledgeInv, KnowledgeTyped, KnowledgeBook, OnlyWhatWasReadIsChanged, shown, deletions
<1> QED BY <1>3, <1>4, <1>5, <1>6

(* A deletion that was confirmed or met with silence is told, so that what *)
(* the base did, or may still do, is behind it.                            *)
LEMMA ForgetWakes ==
    ASSUME KnowledgeInv, ended = "going", NEW e \in KnowledgeIds, NEW answered \in BOOLEAN,
           ForgetEnds(e, answered)
    PROVE  KnowledgeInv'
<1>1. flight' = NotCalling /\ ~toModel'.failed BY DEF ForgetEnds, Woken, TellModel
<1>2. e \in readable /\ e \in read
  BY DEF ForgetEnds, KnowledgeInv, KnowledgeBook, OnlyWhatWasReadIsChanged
<1>3. /\ readable' = readable \ {e} /\ gone' = gone \cup {e} /\ listed' = listed \ {e}
      /\ unreplaced' = unreplaced \cup {e} /\ missing' = missing \cup {e}
      /\ UNCHANGED <<attempted, glimpsed, observations, ended, lost, read, replacing>>
  BY DEF ForgetEnds, Deleted
<1>4. late' \subseteq late \cup {e} BY DEF ForgetEnds
<1>5. KnowledgeTyped' BY <1>1, <1>3, NoCall DEF KnowledgeInv, KnowledgeTyped
<1>6. AllowancesHold' BY <1>3, AllowancesStand
<1>7. OnlyWhatWasReadIsChanged'
  BY <1>1, <1>2, <1>3, NoCall DEF KnowledgeInv, KnowledgeBook, OnlyWhatWasReadIsChanged
<1>8. flight.on = {e}
  BY DEF ForgetEnds, KnowledgeInv, KnowledgeBook, OneNamed
<1>9. Untold' BY <1>3, <1>8 DEF KnowledgeInv, KnowledgeBook, Untold
<1>10. KnowledgeBook'
  BY <1>1, <1>2, <1>3, <1>4, <1>6, <1>7, <1>9, NoCall DEF KnowledgeInv, KnowledgeBook, OneNamed
<1> QED BY <1>5, <1>10 DEF KnowledgeInv

LEMMA KnowledgeCancelled == ASSUME KnowledgeInv, Cancel PROVE KnowledgeInv'
<1>1. flight' = NotCalling /\ ~toModel'.failed BY DEF Cancel, NoWord
<1>2. KnowledgeTyped' BY <1>1, NoCall DEF KnowledgeInv, KnowledgeTyped, Cancel, shown, deletions
<1>3. AllowancesHold' BY AllowancesStand DEF Cancel, deletions
<1>4. OnlyWhatWasReadIsChanged'
  BY <1>1, NoCall DEF KnowledgeInv, KnowledgeBook, OnlyWhatWasReadIsChanged, Cancel, shown, deletions
<1>5. Untold' BY DEF Untold, Cancel
<1>6. KnowledgeBook'
  BY <1>1, <1>3, <1>4, <1>5, NoCall
     DEF KnowledgeInv, KnowledgeBook, OneNamed, Cancel, shown, base, deletions
<1> QED BY <1>2, <1>6 DEF KnowledgeInv

LEMMA KnowledgeKept == KnowledgeInv /\ [KnowledgeNext]_knowledgeVars => KnowledgeInv'
<1> SUFFICES ASSUME KnowledgeInv, [KnowledgeNext]_knowledgeVars PROVE KnowledgeInv' OBVIOUS
<1>1. CASE UNCHANGED knowledgeVars
  BY <1>1 DEF knowledgeVars, KnowledgeInv, KnowledgeTyped, KnowledgeBook, OnlyWhatWasReadIsChanged,
              Untold, OneNamed, AllowancesHold, Writes
<1>2. ASSUME ended = "going", KnowledgeStep PROVE KnowledgeInv'
  <2>1. CASE RecordKnowledge \/ SearchKnowledge BY <1>2, <2>1, ReadsBegin
  <2>2. CASE UpdateEnds BY <1>2, <2>2, UpdateWakes
  <2>3. CASE LinkEnds \/ SearchUnsent BY <1>2, <2>3, OtherWakes
  <2>4. CASE BaseDeletes BY <2>4, BaseActs
  <2>5. ASSUME NEW e \in KnowledgeIds,
               UpdateKnowledge(e) \/ ForgetKnowledge(e) \/ ExpandKnowledge(e)
        PROVE  KnowledgeInv'
    BY <1>2, <2>5, KnowledgeBegins
  <2>6. ASSUME NEW e \in KnowledgeIds, BaseDeletesLate(e) PROVE KnowledgeInv' BY <2>6, BaseActs
  <2>7. ASSUME NEW e \in KnowledgeIds, NEW answered \in BOOLEAN, ForgetEnds(e, answered)
        PROVE  KnowledgeInv'
    BY <1>2, <2>7, ForgetWakes
  <2>8. ASSUME NEW e \in KnowledgeIds, NEW f \in KnowledgeIds, NEW tool \in {"link", "unlink"},
               LinkKnowledge(tool, e, f)
        PROVE  KnowledgeInv'
    BY <1>2, <2>8, KnowledgeBegins
  <2>9. ASSUME NEW ids \in SUBSET (KnowledgeIds \ (read \cup glimpsed)), RecordEnds(ids) PROVE KnowledgeInv'
    BY <1>2, <2>9, RecordWakes
  <2>10. ASSUME NEW hits \in SUBSET KnowledgeIds, NEW neighbours \in SUBSET KnowledgeIds,
                SearchEnds(hits, neighbours)
         PROVE  KnowledgeInv'
    BY <1>2, <2>10, SearchWakes
  <2>11. ASSUME NEW neighbours \in SUBSET KnowledgeIds, ExpandEnds(neighbours) PROVE KnowledgeInv'
    BY <1>2, <2>11, OtherWakes
  <2>12. ASSUME NEW tool \in {"record", "update"}, Refuse(tool) PROVE KnowledgeInv'
    BY <2>12, KnowledgeRefused
  <2> QED
    BY <1>2, <2>1, <2>2, <2>3, <2>4, <2>5, <2>6, <2>7, <2>8, <2>9, <2>10, <2>11, <2>12 DEF KnowledgeStep
<1>3. ASSUME ended = "going", MapStep PROVE KnowledgeInv' BY <1>3, MapBegins, OtherWakes DEF MapStep
<1>4. CASE Cancel BY <1>4, KnowledgeCancelled
<1>5. CASE Fails BY <1>5, CallFails
<1> QED BY <1>1, <1>2, <1>3, <1>4, <1>5 DEF KnowledgeNext

(* Whatever the base answers, late or not at all, a write of this run is   *)
(* for something it was shown, every deletion the base did was told and is *)
(* named by what fails until a record replaces it, and no allowance is     *)
(* passed.                                                                 *)
THEOREM KnowledgeHolds == KnowledgeSpec => []KnowledgeKeepsItsWord
<1>1. KnowledgeSpec => []KnowledgeInv
  BY KnowledgeStarts, KnowledgeKept, PTL DEF KnowledgeSpec
<1> QED BY <1>1, KnowledgeFollows, PTL

=============================================================================

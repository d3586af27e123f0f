----------------------------- MODULE LlmPrice -----------------------------
(***************************************************************************)
(* What the record of a finished model call says it cost (app/llm/usage.py)*)
(* read from the usage its provider reports.  Providers count the same     *)
(* tokens under different names: which are inside input_tokens depends on  *)
(* the client, and so does the name the tokens written to a prompt cache   *)
(* go by.                                                                  *)
(***************************************************************************)
EXTENDS Integers

CONSTANTS
    TokenCounts,   \* counts of each class of tokens
    LongFrom,      \* pricing.long_context_threshold_tokens, or NoLimit
    Rates          \* Rates[length][class]: pricing.*_per_mtok, for short and long prompts

Classes == {"plain", "read", "write", "out"}
NoLimit == -1
Unknown == -1      \* None: nobody could say

ASSUME LlmPriceAssumption ==
    /\ TokenCounts \subseteq Nat
    /\ LongFrom \in Nat \cup {NoLimit}
    /\ Rates \in [{"short", "long"} -> [Classes -> Nat]]

VARIABLES
    spent,   \* what the call took, by class; the two ttls of a cache write apart
    client,  \* the client it was made with
    record   \* the record, once it is built

priceVars == <<spent, client, record>>

\* Bedrock reports cache writes outside input_tokens; the Claude and GPT
\* clients inside, and are told so.  OpenRouter is asked for the charge.
Providers == {"bedrock", "claude", "gpt", "openrouter"}
InputIncludesCacheWrite(c) == c \in {"claude", "gpt"}

Written == spent.write5m + spent.write1h

\* The usage metadata of a response.  A client that gives the writes by ttl
\* overwrites their sum with 0.
Usage == [
    input    |-> spent.plain + spent.read + IF client = "bedrock" THEN 0 ELSE Written,
    read     |-> spent.read,
    creation |-> IF client = "gpt" THEN Written ELSE 0,
    write5m  |-> IF client = "gpt" THEN 0 ELSE spent.write5m,
    write1h  |-> IF client = "gpt" THEN 0 ELSE spent.write1h,
    out      |-> spent.out,
    charge   |-> IF client = "openrouter" THEN spent.plain + spent.out ELSE Unknown]

-----------------------------------------------------------------------------

NotBelowZero(n) == IF n > 0 THEN n ELSE 0

CacheWriteOf(usage) ==
    IF usage.write5m + usage.write1h > 0 THEN usage.write5m + usage.write1h ELSE usage.creation

InputOf_AsReported(usage) == usage.input

\* The ledger keeps cache writes apart from input.
InputOf(usage) ==
    IF InputIncludesCacheWrite(client) THEN NotBelowZero(usage.input - CacheWriteOf(usage))
                                       ELSE usage.input

\* A long prompt is priced by the second rates throughout; priced is whether
\* the catalog knows a price for the model.
EstimateCost(input, read, write, out) ==
    LET long == LongFrom # NoLimit /\ input + write > LongFrom
        rate == Rates[IF long THEN "long" ELSE "short"]
    IN NotBelowZero(input - read) * rate.plain + read * rate.read + write * rate.write
         + out * rate.out

BuildRecord(priced) ==
    LET input == InputOf(Usage)
        write == CacheWriteOf(Usage)
        cost  == IF Usage.charge # Unknown THEN Usage.charge
                 ELSE IF priced THEN EstimateCost(input, Usage.read, write, Usage.out)
                 ELSE Unknown
    IN [input |-> input, read |-> Usage.read, write |-> write, out |-> Usage.out,
        cost |-> cost, estimated |-> cost # Unknown /\ Usage.charge = Unknown]

NotBuilt == [cost |-> Unknown, estimated |-> FALSE]

PriceInit ==
    /\ spent \in [plain : TokenCounts, read : TokenCounts, write5m : TokenCounts,
                  write1h : TokenCounts, out : TokenCounts]
    /\ client \in Providers
    /\ record = NotBuilt

OnLlmEnd ==
    /\ record = NotBuilt
    /\ \E priced \in BOOLEAN : record' = BuildRecord(priced)
    /\ UNCHANGED <<spent, client>>

PriceSpec == PriceInit /\ [][OnLlmEnd]_priceVars

-----------------------------------------------------------------------------

\* Every token is in one class of the record and is paid for once, at the rate
\* of its class and of the length of the whole prompt; what the provider
\* charged is never overwritten by an estimate, and a call nobody can price
\* has no cost.  (usage.py:104-159, 177-191, 246-262, 420-460)
TokensPricedOnce ==
    "input" \in DOMAIN record =>
        LET length == IF LongFrom # NoLimit /\ spent.plain + spent.read + Written > LongFrom
                      THEN "long" ELSE "short"
        IN /\ client # "openrouter" =>
                record.input + record.write = spent.plain + spent.read + Written
           /\ record.estimated =>
                record.cost = spent.plain * Rates[length].plain + spent.read * Rates[length].read
                              + Written * Rates[length].write + spent.out * Rates[length].out
           /\ ~record.estimated => record.cost = Usage.charge
=============================================================================

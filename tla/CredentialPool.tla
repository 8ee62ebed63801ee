--------------------------- MODULE CredentialPool ---------------------------
(***************************************************************************)
(* LLMClient.complete over the process-wide CredentialPool: every call     *)
(* walks the pool from the shared round-robin index, skips what cools down *)
(* or what it has tried, and puts a credential that fails into a cooldown  *)
(* chosen by the kind of the failure.                                      *)
(*                                                                         *)
(* Callers are the scan that holds the chain lock and the tracker's        *)
(* coroner, two tasks of one event loop.  Each look at a cooldown is an    *)
(* await, and the index read before it is written after it.                *)
(***************************************************************************)
EXTENDS Integers, Sequences, FiniteSetsExt

CONSTANTS
    Callers,
    Flavors,     \* flavor of each credential, a sequence: the pool in its order
    Prefix,      \* provider prefix of the model that is asked for
    Errors,      \* messages of failed provider calls, as sets of phrases
    RateTtl, AuthTtl, SubscriptionTtl   \* cooldowns, in ticks

ASSUME PoolAssumption == Flavors \in Seq(STRING) /\ Flavors # <<>>
ASSUME TtlAssumption ==
    RateTtl \in Nat \ {0} /\ AuthTtl \in Nat \ {0} /\ SubscriptionTtl \in Nat \ {0}

VARIABLES
    index,      \* KeyManager._index, zero based
    cooldown,   \* ticks left of each credential's cooldown
    call        \* the calls in progress

poolVars == <<index, cooldown, call>>

Creds == DOMAIN Flavors
Size == Cardinality(Creds)

\* translate_model: the same provider, or the two that share Google's catalogue.
Compatible(cred) ==
    \/ Flavors[cred] = Prefix
    \/ {Flavors[cred], Prefix} = {"gemini", "vertex_ai"}

\* classify_llm_error on the phrases of the message.
LimitContext == {"limit", "quota", "429", "too many requests", "try again in"}

Classify(words) ==
    IF \/ "usage limit" \in words
       \/ words \cap LimitContext # {} /\ "hours" \in words /\ "seconds" \notin words
    THEN "subscription_limit"
    ELSE IF words \cap {"429", "quota", "too many requests"} # {} THEN "rate_limit"
    ELSE IF words \cap {"401", "403", "belum login"} # {} THEN "auth"
    ELSE "other"

Ttl(kind) ==
    CASE kind = "subscription_limit" -> SubscriptionTtl
      [] kind = "auth"               -> AuthTtl
      [] OTHER                       -> RateTtl

\* A call: tried are the credentials complete excludes; start, i and round are the
\* positions of the loops of get_next_key and acquire; cred is the one in use.
\* Two histories: asked were sent to a provider, seen cooled down in this acquire.
IdleCall == [at |-> "idle", tried |-> {}, start |-> 0, i |-> 0, round |-> 0, cred |-> 1,
         asked |-> {}, seen |-> {}]

PoolInit ==
    /\ index = 0
    /\ cooldown = [k \in Creds |-> 0]
    /\ call = [c \in Callers |-> IdleCall]

-----------------------------------------------------------------------------
Begin(c) ==
    /\ call[c].at = "idle"
    /\ call' = [call EXCEPT ![c].at = "enter"]
    /\ UNCHANGED <<index, cooldown>>

\* acquire's first get_next_key reads the shared index.
Walking(old, tried, from) ==
    [old EXCEPT !.at = "walk", !.tried = tried, !.seen = {}, !.start = from, !.i = 0, !.round = 0]

Enter(c) ==
    /\ call[c].at = "enter"
    /\ call' = [call EXCEPT ![c] = Walking(@, @.tried, index)]
    /\ UNCHANGED <<index, cooldown>>

Looked(c) == ((call[c].start + call[c].i) % Size) + 1

\* get_next_key: the key cools down, look at the next one.
SkipCooling(c) ==
    /\ call[c].at = "walk"
    /\ cooldown[Looked(c)] > 0
    /\ call' = [call EXCEPT ![c].i = @ + 1, ![c].seen = @ \cup {Looked(c)},
                            ![c].at = IF call[c].i + 1 = Size THEN "exhausted" ELSE "walk"]
    /\ UNCHANGED <<index, cooldown>>

\* Mutant of SkipTried: one round too few.
SkipTried_Short(c) ==
    /\ call[c].at = "walk"
    /\ cooldown[Looked(c)] = 0
    /\ Looked(c) \in call[c].tried
    /\ index' = Looked(c) % Size
    /\ call' = [call EXCEPT ![c].round = @ + 1, ![c].i = 0, ![c].start = Looked(c) % Size,
                            ![c].at = IF call[c].round + 2 >= Size THEN "exhausted" ELSE "walk"]
    /\ UNCHANGED cooldown

\* acquire: get_next_key returned a key that this call has tried already.
SkipTried(c) ==
    /\ call[c].at = "walk"
    /\ cooldown[Looked(c)] = 0
    /\ Looked(c) \in call[c].tried
    /\ index' = Looked(c) % Size
    /\ call' = [call EXCEPT ![c].round = @ + 1, ![c].i = 0, ![c].start = Looked(c) % Size,
                            ![c].at = IF call[c].round + 1 = Size THEN "exhausted" ELSE "walk"]
    /\ UNCHANGED cooldown

\* Mutant of Acquire: the call forgets what it has tried.
Acquire_Forgets(c) ==
    /\ call[c].at = "walk"
    /\ cooldown[Looked(c)] = 0
    /\ Looked(c) \notin call[c].tried
    /\ index' = Looked(c) % Size
    /\ IF Compatible(Looked(c))
       THEN call' = [call EXCEPT ![c].cred = Looked(c), ![c].asked = @ \cup {Looked(c)},
                                 ![c].at = "given"]
       ELSE call' = [call EXCEPT ![c] = Walking(@, @.tried, Looked(c) % Size)]
    /\ UNCHANGED cooldown

\* acquire returns a credential; one of another provider is passed over.
Acquire(c) ==
    /\ call[c].at = "walk"
    /\ cooldown[Looked(c)] = 0
    /\ Looked(c) \notin call[c].tried
    /\ index' = Looked(c) % Size
    /\ IF Compatible(Looked(c))
       THEN call' = [call EXCEPT ![c].cred = Looked(c), ![c].tried = @ \cup {Looked(c)},
                                 ![c].asked = @ \cup {Looked(c)}, ![c].at = "given"]
       ELSE call' = [call EXCEPT ![c] = Walking(@, @.tried \cup {Looked(c)}, Looked(c) % Size)]
    /\ UNCHANGED cooldown

\* report_failure, then the next round of complete's loop.
GiveUp(c, kind) ==
    /\ cooldown' = [cooldown EXCEPT ![call[c].cred] = Ttl(kind)]
    /\ call' = [call EXCEPT ![c].at = "enter"]
    /\ UNCHANGED index

\* The credential cannot be resolved: an expired login, a missing file.
ResolveFails(c) == call[c].at = "given" /\ GiveUp(c, "auth")

\* The provider refuses after the retries: a limit or a login of this credential.
AttemptFails(c, words) ==
    /\ call[c].at = "given"
    /\ Classify(words) # "other"
    /\ GiveUp(c, Classify(words))

\* Any other failure, and an output that does not parse, ends the call.
AttemptRaises(c, words) ==
    /\ call[c].at = "given"
    /\ Classify(words) = "other"
    /\ call' = [call EXCEPT ![c] = IdleCall]
    /\ UNCHANGED <<index, cooldown>>

Succeed(c) ==
    /\ call[c].at = "given"
    /\ call' = [call EXCEPT ![c] = IdleCall]
    /\ UNCHANGED <<index, cooldown>>

\* AllCredentialsExhaustedError becomes LLMUnavailableError.
Exhausted(c) ==
    /\ call[c].at = "exhausted"
    /\ call' = [call EXCEPT ![c] = IdleCall]
    /\ UNCHANGED <<index, cooldown>>

\* Time passes: cooldowns run off.
Tick ==
    /\ \E k \in Creds : cooldown[k] > 0
    /\ cooldown' = [k \in Creds |-> IF cooldown[k] > 0 THEN cooldown[k] - 1 ELSE 0]
    /\ UNCHANGED <<index, call>>

Move(c) ==
    \/ Enter(c) \/ SkipCooling(c) \/ SkipTried(c) \/ Acquire(c)
    \/ ResolveFails(c) \/ Succeed(c) \/ Exhausted(c)
    \/ \E words \in Errors : AttemptFails(c, words) \/ AttemptRaises(c, words)

PoolNext == Tick \/ \E c \in Callers : Begin(c) \/ Move(c)

PoolSpec == PoolInit /\ [][PoolNext]_poolVars

\* The provider's timeout ends every await of a call.
FairPoolSpec == PoolSpec /\ \A c \in Callers : WF_poolVars(Move(c))

-----------------------------------------------------------------------------
TypeOK ==
    /\ index \in 0..(Size - 1)
    /\ cooldown \in [Creds -> 0..Max({RateTtl, AuthTtl, SubscriptionTtl})]
    /\ \A c \in Callers :
        /\ call[c].at \in {"idle", "enter", "walk", "given", "exhausted"}
        /\ call[c].tried \cup call[c].seen \subseteq Creds
        /\ call[c].asked \subseteq {k \in Creds : Compatible(k)}
        /\ call[c].start \in 0..(Size - 1) /\ call[c].i \in 0..Size
        /\ call[c].round \in 0..Size /\ call[c].cred \in Creds

\* client.py:122: a call sends a credential to a provider at most once, so a call
\* costs at most one round of attempts per credential, whatever the other call
\* does to the index and the cooldowns meanwhile.
NeverAskedTwice ==
    [][\A c \in Callers :
        (call[c].at = "walk" /\ call'[c].at = "given") => call'[c].cred \notin call[c].asked]_poolVars

\* pool.py:205 may say "all credentials were tried in this call": each was tried by
\* it, or cooled down when its last acquire looked at it.  It holds for concurrent
\* calls because acquire goes on from the index it has just written itself, with no
\* await in between; the other call moves the index only between two acquires.
ExhaustedIsTrue ==
    \A c \in Callers :
        call[c].at = "exhausted" => call[c].tried \cup call[c].seen = Creds

\* What pool.py:76 says of a subscription limit, that it "warrants a long
\* cooldown": no later report makes a cooldown shorter.
CooldownKept ==
    [][\A k \in Creds : cooldown'[k] >= cooldown[k] - 1]_poolVars

\* Every call ends, whatever fails: a result, an error or exhaustion.
CallsEnd == \A c \in Callers : call[c].at # "idle" ~> call[c].at = "idle"
=============================================================================

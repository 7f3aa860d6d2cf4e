---------------------------- MODULE TokenProvider ----------------------------
(***************************************************************************)
(* CollectorTokenProvider: the cache in front of the OAuth token endpoint. *)
(* The clock counts from the moment the collection begins.  The provider   *)
(* and the token endpoint disagree on when a token dies: the endpoint      *)
(* counts its lifetime from the moment it issues it, the provider from the *)
(* moment it has read the answer.                                          *)
(***************************************************************************)
EXTENDS Integers

CONSTANTS
    Lifetimes,     \* the expires_in values the token endpoint grants
    RefreshSkew,   \* refresh_skew_seconds
    TokenTimeout   \* how long a token request can take

ASSUME TokenAssumption ==
    /\ Lifetimes \subseteq Nat \ {0}
    /\ RefreshSkew \in Nat
    /\ TokenTimeout \in Nat

VARIABLES
    now,      \* the monotonic clock
    cached,   \* the cached token
    token     \* what the last get_token returned

Token(expiresAt, diesAt) == [expiresAt |-> expiresAt, diesAt |-> diesAt]

(* No token: one that expired when the clock started.                      *)
NoToken == Token(0, 0)

TokenTypeOK ==
    /\ now \in Nat
    /\ cached \in [expiresAt : Nat, diesAt : Nat]
    /\ token \in [expiresAt : Nat, diesAt : Nat]

-----------------------------------------------------------------------------
(* Mutant: the skew is forgotten, a token is reused up to its last second. *)
ReusableToTheEnd(t) == t.expiresAt - now > 0

(* A token inside the refresh-skew window counts as expired.               *)
Reusable(t) == t.expiresAt - now > RefreshSkew

ReuseToken ==
    /\ Reusable(cached)
    /\ token' = cached
    /\ UNCHANGED <<now, cached>>

(* The answer arrives after latency; the endpoint issued the token at some *)
(* moment in between.                                                      *)
AcquireToken ==
    /\ ~Reusable(cached)
    /\ \E latency \in 0..TokenTimeout :
        \E issued \in 0..latency, lifetime \in Lifetimes :
            /\ now' = now + latency
            /\ cached' = Token(now' + lifetime, now + issued + lifetime)
            /\ token' = cached'

(* AuthError: nothing stays in the cache. *)
FailToAcquireToken ==
    /\ ~Reusable(cached)
    /\ \E latency \in 0..TokenTimeout : now' = now + latency
    /\ cached' = NoToken
    /\ token' = NoToken

=============================================================================

-------------------------------- MODULE FxRate --------------------------------
(***************************************************************************)
(* The USD/KRW rate: kis_fx.py.                                            *)
(*                                                                         *)
(* A rate is kept under two keys, one for an hour and one for a week.  Who *)
(* asks gets the first, or else asks the source, or else gets the second,  *)
(* or else a constant.  A rate is represented by its age.                  *)
(***************************************************************************)
EXTENDS Naturals

CONSTANTS FreshTtl, StaleTtl   \* _FX_CACHE_TTL, _FX_STALE_TTL

ASSUME FxAssumption ==
    FreshTtl \in Nat \ {0} /\ StaleTtl \in Nat /\ FreshTtl <= StaleTtl

VARIABLES
    fresh,   \* age of the entry _FX_CACHE_KEY; FreshTtl: none
    stale,   \* age of the entry _FX_STALE_KEY; StaleTtl: none
    heard    \* ghost: time since the source gave its last rate, StaleTtl at most

fx == <<fresh, stale, heard>>

FxTypeOK == fresh \in 0..FreshTtl /\ stale \in 0..StaleTtl /\ heard \in 0..StaleTtl

FxInit == fresh = FreshTtl /\ stale = StaleTtl /\ heard = StaleTtl

Fallback == StaleTtl   \* _FX_FALLBACK_RATE: as good as a rate that is too old

\* The age of what fetch_usd_krw_rate returns, when the source answers with a
\* rate above 100 or not; and, without the source, of get_cached_fx_rate.
Rate(answers) ==
    IF fresh < FreshTtl THEN fresh
    ELSE IF answers THEN 0
    ELSE IF stale < StaleTtl THEN stale
    ELSE Fallback

\* Mutant: only the entry that was missed is written.
MutantAskRateFreshOnly ==
    \/ UNCHANGED fx
    \/ fresh = FreshTtl /\ fresh' = 0 /\ heard' = 0 /\ UNCHANGED stale

\* fetch_usd_krw_rate: a hit, or no answer, changes nothing.
AskRate ==
    \/ UNCHANGED fx
    \/ fresh = FreshTtl /\ fresh' = 0 /\ stale' = 0 /\ heard' = 0

Later(n, most) == IF n < most THEN n + 1 ELSE n

FxTick ==
    /\ fresh' = Later(fresh, FreshTtl)
    /\ stale' = Later(stale, StaleTtl)
    /\ heard' = Later(heard, StaleTtl)

-----------------------------------------------------------------------------
\* "1h 캐시 → frankfurter.dev → 7일 stale 캐시 → 하드코딩 1450": with an answer, a
\* rate is no older than an hour; without one it is the last the source gave, and
\* the constant only when nothing came for a week.
RateInForce ==
    /\ Rate(TRUE) < FreshTtl
    /\ Rate(FALSE) = IF heard < StaleTtl THEN heard ELSE Fallback
=============================================================================

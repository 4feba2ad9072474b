---------------------------- MODULE MCRateLimiter ----------------------------
(* RateLimiter for TLC: a user of a team and a user without one.  The      *)
(* global bucket takes two ticks for a token, so that calls come and       *)
(* sleeps end between two tokens.                                          *)
EXTENDS RateLimiter

CONSTANTS c1, c2, u1, u2, t1

MCUserOf == [c \in Caller |-> IF c = c1 THEN u1 ELSE u2]
MCTeamOf == [u \in User |-> IF u = u1 THEN t1 ELSE NoTeam]
MCRefill == [k \in Key |-> IF k = Global THEN 2 ELSE 1]
MCCap == [k \in Key |-> IF k = Global THEN 4 ELSE 2]
=============================================================================

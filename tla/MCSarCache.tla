------------------------------ MODULE MCSarCache ------------------------------
(***************************************************************************)
(* The delegate's cache with one review key asked about by two request    *)
(* goroutines.  A tick is 30 s: the allow TTL of 5 min is 10 ticks, the    *)
(* deny TTL of 30 s one tick; a call may span one tick boundary.  The      *)
(* clock runs past the allow TTL so that a cached allow expires.           *)
(***************************************************************************)
EXTENDS SarCache

MCAllowCacheTTL == 10
MCDenyCacheTTL == 1
MCMaxCallTicks == 1
MCMaxTime == 12

====

------------------------------- MODULE MCSolver -------------------------------
(* Pages that each test tells apart, every configuration, and a budget of  *)
(* three ticks polled every two, so that a nap is cut by the deadline.     *)
EXTENDS Solver

Plain == [says |-> {}, wrapped |-> FALSE, html |-> TRUE, applied |-> FALSE, unlocked |-> FALSE]

MCPage ==
  LET shown == {{}, {"captcha"}, {"turnstile", "sitekey"}, {"turnstile"}, {"captcha", "sitekey"},
                {"moment", "cloudflare"}, {"platform", "turnstile", "sitekey"}}
  IN {[Plain EXCEPT !.says = s, !.wrapped = w, !.html = h] : s \in shown, w, h \in BOOLEAN}
     \cup {[Plain EXCEPT !.says = s, !.applied = a, !.unlocked = u] : s \in shown, a, u \in BOOLEAN}

MCConfig == ConfigType

=============================================================================

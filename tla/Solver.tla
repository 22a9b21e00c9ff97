-------------------------------- MODULE Solver --------------------------------
(***************************************************************************)
(* The optional challenge solver (basecrawl-core/src/captcha_solver.rs) as *)
(* one hard scrape uses it: the configuration, the reading of the page,    *)
(* createTask and the polling of getTaskResult against the solve budget,   *)
(* the application of the token in the page and the verdict on what is     *)
(* left.  The provider, the web server and the page are the environment.   *)
(* Scrape takes all of it as one step that may fail.                       *)
(***************************************************************************)
EXTENDS Integers, FiniteSets

CONSTANTS
  Page,       (* the pages the origin may serve or a browser end up with   *)
  Config,     (* the solver options and environment a scrape may run with  *)
  Budget,     (* captcha_solve_timeout_secs, in ticks                      *)
  Interval,   (* the poll interval                                         *)
  Deadline    (* what is left to the scrape when its document has arrived  *)

(* What the substring tests tell apart in a page, whether its status is    *)
(* one that wraps challenges, and the two marks a token leaves in the DOM. *)
Signal == {"captcha", "turnstile", "sitekey", "moment", "cloudflare", "platform"}
PageType == [says : SUBSET Signal, wrapped : BOOLEAN, html : BOOLEAN,
             applied : BOOLEAN, unlocked : BOOLEAN]

(* The key may come from the options or the environment, or have a blank   *)
(* or control character inside; "solver" is --captcha-solver if given, and *)
(* otherwise BASECRAWL_CAPTCHA_SOLVER.                                     *)
ConfigType == [key : {"absent", "options", "env", "malformed"},
               solver : {"unset", "capsolver", "off"}]

ASSUME SolverAssumption ==
  /\ Page \subseteq PageType /\ Config \subseteq ConfigType
  /\ Budget \in Nat /\ Interval \in Nat \ {0} /\ Deadline \in Nat

VARIABLES
  config,
  page,     (* the page looked at last                                     *)
  at,
  stage,    (* "served" or "rendered": what the challenge was found in     *)
  spent,    (* ticks since the document arrived                            *)
  since,    (* spent when the solve began                                  *)
  asked,    (* spent when the exchange or sleep under way began            *)
  polled,   (* it has polled before                                        *)
  tasks,    (* tasks the provider accepted, and charges for                *)
  paid,     (* "none", a token, or one of white space only                 *)
  outcome

solverVars == <<config, page, at, stage, spent, since, asked, polled, tasks, paid, outcome>>

SolverInit ==
  /\ config \in Config /\ page \in {p \in Page : ~p.applied}
  /\ at = "resolve" /\ stage = "served" /\ outcome = "none"
  /\ spent = 0 /\ since = 0 /\ asked = 0
  /\ polled = FALSE /\ tasks = 0 /\ paid = "none"

End(result) == at' = "end" /\ outcome' = result

-----------------------------------------------------------------------------
(* Configuration and classification.                                       *)

(* resolve_runtime: with any key the solver is on, as every source of a    *)
(* key is in the list that stands in for a selected provider.              *)
Active == config.key # "absent"

(* A malformed key fails the scrape whether or not there is a challenge.   *)
Resolve ==
  /\ at = "resolve"
  /\ IF Active /\ config.key = "malformed" THEN End("solver_auth_error")
                                           ELSE at' = "served" /\ UNCHANGED outcome
  /\ UNCHANGED <<config, page, stage, spent, since, asked, polled, tasks, paid>>

(* looks_like_challenge_interstitial.                                      *)
Looks(p) ==
  IF p.wrapped
  THEN p.says \cap {"captcha", "turnstile", "moment", "platform"} # {}
  ELSE \/ {"moment", "cloudflare"} \subseteq p.says
       \/ "platform" \in p.says
       \/ "sitekey" \in p.says /\ p.says \cap {"turnstile", "captcha"} # {}

(* classify_challenge_html: a widget without its site key is not solvable. *)
Solvable(p) ==
  /\ "sitekey" \in p.says
  /\ "turnstile" \in p.says \/ "captcha" \in p.says

(* solve_challenge: the budget runs from before createTask.                *)
StartSolve == at' = "creating" /\ since' = spent /\ asked' = spent

(* attempt_optional_solve up to createTask.                                *)
Attempt ==
  IF Active /\ Solvable(page)
  THEN StartSolve /\ UNCHANGED outcome
  ELSE End("challenge_blocked") /\ UNCHANGED <<since, asked>>

ExamineServed ==
  /\ at = "served"
  /\ IF Looks(page) THEN Attempt
     ELSE at' = "render" /\ UNCHANGED <<since, asked, outcome>>
  /\ UNCHANGED <<config, page, stage, spent, polled, tasks, paid>>

-----------------------------------------------------------------------------
(* createTask and getTaskResult.                                           *)

(* The client's own timeout is the whole budget again, for each exchange.  *)
Exchanging == at \in {"creating", "polling"}
Napping == at = "napping"
Within(ticks) == spent - asked < ticks
Remaining == since + Budget - spent
SmallerOf(a, b) == IF a < b THEN a ELSE b

(* HTTP and provider errors as both calls map them: a status or a code     *)
(* that speaks of the key is an authentication error.                      *)
Failure == [transport |-> "solver_transport_error", denied |-> "solver_auth_error",
            keyError |-> "solver_auth_error", error |-> "solver_error"]

Fail(cause) ==
  /\ End(Failure[cause])
  /\ UNCHANGED <<asked, tasks, paid>>

(* Where a scrape with a token goes: the actions are built first, and a    *)
(* blank token refused.                                                    *)
ApplyToken == IF paid' = "blank" THEN End("solver_error")
              ELSE at' = "render" /\ UNCHANGED outcome

CreateAnswered ==
  /\ at = "creating"
  /\ \/ \E cause \in DOMAIN Failure : Fail(cause)
     \/ End("solver_error") /\ UNCHANGED <<asked, tasks, paid>>       (* no taskId   *)
     \/ /\ tasks' = tasks + 1 /\ paid' \in {"token", "blank"}        (* ready       *)
        /\ ApplyToken /\ UNCHANGED asked
     \/ /\ tasks' = tasks + 1 /\ at' = "poll"                        (* a task id   *)
        /\ UNCHANGED <<asked, paid, outcome>>
  /\ polled' = FALSE
  /\ UNCHANGED <<config, page, stage, spent, since>>

(* Faulty variant: only the first poll sees the budget.                    *)
OverBudgetUnchecked == Remaining <= 0 /\ ~polled

(* Faulty variant: a poll at the very deadline is repeated without pause.  *)
OverBudgetLate == Remaining < 0

OverBudget == Remaining <= 0

(* The head of the loop.  The first poll is immediate.                     *)
Poll ==
  /\ at = "poll"
  /\ \/ OverBudget /\ End("solver_timeout") /\ UNCHANGED <<asked, polled>>
     \/ /\ ~OverBudget /\ asked' = spent
        /\ IF polled THEN at' = "napping" /\ UNCHANGED polled
                     ELSE at' = "polling" /\ polled' = TRUE
        /\ UNCHANGED outcome
  /\ UNCHANGED <<config, page, stage, spent, since, tasks, paid>>

Wake ==
  /\ Napping /\ ~Within(SmallerOf(Interval, since + Budget - asked))
  /\ at' = "polling" /\ polled' = TRUE /\ asked' = spent
  /\ UNCHANGED <<config, page, stage, spent, since, tasks, paid, outcome>>

(* Ready needs a token; failed is the provider's; anything else goes on.   *)
PollAnswered ==
  /\ at = "polling"
  /\ \/ \E cause \in DOMAIN Failure : Fail(cause)
     \/ End("solver_error") /\ UNCHANGED <<asked, tasks, paid>>
     \/ paid' \in {"token", "blank"} /\ ApplyToken /\ UNCHANGED <<asked, tasks>>
     \/ at' = "poll" /\ UNCHANGED <<asked, tasks, paid, outcome>>
  /\ UNCHANGED <<config, page, stage, spent, since, polled>>

-----------------------------------------------------------------------------
(* The page with the token in it.                                          *)

(* Faulty variant: whatever does not show a challenge will do.             *)
ResidualLooks(p) == IF Looks(p) THEN "challenge_blocked" ELSE "none"

(* residual_after_applied_token.                                           *)
SolveResidual(p) ==
  IF p.unlocked THEN "none"
  ELSE IF ~p.applied THEN "solver_apply_failed"
  ELSE IF Looks(p) THEN "challenge_blocked" ELSE "none"

(* turnstile_token_inject_expression marks the document, which a script or *)
(* a form it submits may replace: with a token the page that is serialized *)
(* may or may not carry the mark, and without one it never does.           *)
Rendering == {p \in Page : p.html /\ (p.applied => paid = "token")}

(* No browser for what is not HTML: a challenge there is never delivered.  *)
Deliver ==
  /\ at = "render" /\ ~page.html
  /\ End(IF Looks(page) THEN "challenge_blocked" ELSE "content")
  /\ UNCHANGED <<config, page, stage, spent, since, asked, polled, tasks, paid>>

(* render_page_until runs until the scrape's deadline, with the actions of *)
(* armed_solver_apply_actions when there is a token.                       *)
RenderPage ==
  /\ at = "render" /\ page.html
  /\ \/ End("deadline") /\ UNCHANGED <<page, spent>>
     \/ /\ spent < Deadline
        /\ spent' \in spent .. Deadline - 1 /\ page' \in Rendering
        /\ at' = "judge" /\ UNCHANGED outcome
  /\ UNCHANGED <<config, stage, since, asked, polled, tasks, paid>>

Judge ==
  /\ at = "judge"
  /\ CASE paid = "token" -> /\ End(IF SolveResidual(page) = "none" THEN "content" ELSE SolveResidual(page))
                            /\ UNCHANGED <<stage, since, asked>>
       [] paid = "none" /\ Looks(page)  -> Attempt /\ stage' = "rendered"
       [] OTHER -> End("content") /\ UNCHANGED <<stage, since, asked>>
  /\ UNCHANGED <<config, page, spent, polled, tasks, paid>>

(* An exchange may be slow, up to the client's timeout; a nap is not cut.  *)
Tick ==
  /\ \/ Exchanging /\ Within(Budget)
     \/ Napping /\ Within(SmallerOf(Interval, since + Budget - asked))
  /\ spent' = spent + 1
  /\ UNCHANGED <<config, page, at, stage, since, asked, polled, tasks, paid, outcome>>

Done == at = "end" /\ UNCHANGED solverVars

SolveStep ==
  \/ Resolve \/ ExamineServed \/ CreateAnswered \/ Poll \/ Wake \/ PollAnswered
  \/ Deliver \/ RenderPage \/ Judge \/ Tick

SolverNext == SolveStep \/ Done

SolverSpec == SolverInit /\ [][SolverNext]_solverVars /\ WF_solverVars(SolveStep)

-----------------------------------------------------------------------------
(* Properties.                                                             *)

Kinds == {"none", "content", "deadline", "challenge_blocked", "solver_timeout",
          "solver_apply_failed",
          "solver_transport_error", "solver_auth_error", "solver_error"}

(* Every field of the solve stays of its type.                             *)
SolverTypeOK ==
  /\ config \in Config /\ page \in Page
  /\ at \in {"resolve", "served", "creating", "poll", "napping", "polling", "render", "judge", "end"}
  /\ stage \in {"served", "rendered"} /\ outcome \in Kinds
  /\ spent \in Nat /\ since \in 0 .. spent /\ asked \in 0 .. spent
  /\ polled \in BOOLEAN /\ tasks \in Nat /\ paid \in {"none", "token", "blank"}

(* A scrape pays for one task at most, and for it delivers only a page     *)
(* that shows the token or its effect; a page that still looks like a      *)
(* challenge is delivered only if unlocked by a token (VAL-SOLVE-007,      *)
(* attempt_optional_solve and residual_after_applied_token).               *)
SolveOrBlock ==
  /\ tasks <= 1
  /\ outcome = "content" => /\ Looks(page) => page.unlocked /\ paid = "token"
                            /\ tasks > 0 => page.unlocked \/ page.applied

Solving == at \in {"creating", "poll", "napping", "polling"}

(* A solve outruns its budget by one exchange at most, and gives up on a   *)
(* task as timed out only when the budget is spent (poll_task_result).     *)
SolveOverrunsOnce ==
  /\ Solving => spent - since <= 2 * Budget
  /\ outcome = "solver_timeout" => tasks = 1 /\ spent - since >= Budget

(* Every scrape that meets a challenge comes to a verdict, however often   *)
(* the provider answers that it is still working.                          *)
SolveEnds == <>(at = "end")

=============================================================================

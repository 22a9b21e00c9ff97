-------------------------------- MODULE MCTab --------------------------------
(* One caller runs a method of each kind, or navigates with a function     *)
(* exposed, a listener or an interceptor in place; the other removes a     *)
(* function.                                                               *)
EXTENDS Tab, TLC

CONSTANTS c1, c2

(* Methods that make calls only, as others do that are run.                *)
MCAlike == {"find", "find_xpath", "find_below", "wait_xpath", "wait_all", "find_all_xpath",
            "type", "click", "type_into", "focus", "picture", "bounds", "cookies", "headers", "stealth",
            "page", "profiler", "runtime", "target", "storage", "screencast", "element"}

MCOffered ==
  c1 :> {<<m>> : m \in DOMAIN Program \ MCAlike}
          \cup {<<m, "navigate">> : m \in {"expose", "listen", "ask"}}
  @@ c2 :> {<<"remove">>}

=============================================================================

------------------------------- MODULE TabApi -------------------------------
(***************************************************************************)
(* What each method of a tab or an element does (browser/tab/mod.rs,       *)
(* browser/tab/element/mod.rs in basecrawl-headless-chrome): the DevTools  *)
(* calls it makes, one after the other, the mutexes it takes, and what it  *)
(* stores. The first call that fails ends a method, and drops its guards.  *)
(***************************************************************************)
EXTENDS Naturals, Sequences

(* A step: a call, a store, a mutex taken or left; "under" is the mutex a  *)
(* store takes for itself. Of the calls only these are told apart: the one *)
(* that is held back, the one that installs, those that may find nothing.  *)
ToldApart == {"Navigate", "AddBinding", "QuerySelector", "DescribeNode", "GetFirstResult"}

Under(mutex, do, on) == <<[do |-> do, on |-> on, under |-> mutex]>>
Do(do, on) == Under("none", do, on)
Calls(methods) ==
  [i \in DOMAIN methods |->
     Do("call", IF methods[i] \in ToldApart THEN methods[i] ELSE "other")[1]]
Holding(mutex, steps) == Under(mutex, "lock", mutex) \o steps \o Do("unlock", mutex)

(* Faulty variant: keeps the interceptor while it navigates.               *)
NavigateHolding ==
  Holding("interceptor", Calls(<<"Navigate">>)) \o Do("navigating", TRUE)

(* The flag is raised once the navigation was answered.                    *)
NavigateTo == Calls(<<"Navigate">>) \o Do("navigating", TRUE)
WaitUntilNavigated == Do("await", "idle")

(* Finding an element: each node is described and resolved.                *)
NewElement == Calls(<<"DescribeNode", "ResolveNode">>)
FindElement == Calls(<<"GetDocument", "QuerySelector">>) \o NewElement
FindByXpath == Calls(<<"GetDocument", "PerformSearch", "GetFirstResult">>) \o NewElement
FindElements == Calls(<<"GetDocument", "QuerySelector">>) \o NewElement \o NewElement
FindElementsByXpath ==
  Calls(<<"GetDocument", "PerformSearch", "GetSearchResults">>) \o NewElement \o NewElement
FindInElement == Calls(<<"QuerySelector">>) \o NewElement
FindInElementByXpath ==
  Calls(<<"GetDocument", "PerformSearch", "GetSearchResults">>) \o Do("first or panic", "node")
    \o NewElement
IsVisible == Calls(<<"CallFunctionOn">>)
FindVisible == FindElement \o IsVisible

(* Keyboard and mouse.                                                     *)
SendCharacter == Calls(<<"InsertText">>)
PressKey == Calls(<<"KeyDown", "KeyUp">>)
TypeStr == PressKey \o SendCharacter
MoveMouse == Calls(<<"MouseMoved">>)
ClickPoint == MoveMouse \o Calls(<<"MousePressed", "MouseReleased">>)
ScrollIntoView == Calls(<<"CallFunctionOn">>)
Midpoint == Do("try", "GetContentQuads")
MidpointByScript == Do("insist", "CallFunctionOn")
MoveMouseOver == ScrollIntoView \o Midpoint \o MoveMouse
Click == ScrollIntoView \o Midpoint \o ClickPoint
TypeInto == Click \o TypeStr
Focus == ScrollIntoView \o Calls(<<"Focus">>)
ElementScreenshot == ScrollIntoView \o Calls(<<"GetBoxModel", "CaptureScreenshot">>)

(* The window, and cookies, which are deleted before they are set.         *)
SetBounds == Calls(<<"GetWindowForTarget", "SetWindowBounds", "SetWindowBounds">>)
SetCookies == Calls(<<"DeleteCookies", "SetCookies">>)
SetExtraHeaders == Calls(<<"Network.enable", "SetExtraHTTPHeaders">>)
EnableStealthMode ==
  Calls(<<"Evaluate", "SetUserAgentOverride">>) \o Calls([i \in 1..5 |-> "AddScript"])

(* One call each: pages and their pictures; profiler and fetch; runtime,   *)
(* debugger, log, evaluation; targets; cookies, files, storage; the        *)
(* screencast; an element.                                                 *)
PageCall == Calls(<<"Page">>)
ProfilerCall == Calls(<<"Profiler">>)
RuntimeCall == Calls(<<"Runtime">>)
TargetCall == Calls(<<"Target">>)
StorageCall == Calls(<<"Storage">>)
ScreencastCall == Calls(<<"Page">>)
ElementCall == Calls(<<"CallFunctionOn">>)

(* What the event thread consults.                                         *)
ExposeFunction == Holding("bindings", Do("bind", TRUE) \o Calls(<<"AddBinding", "AddScript">>))
RemoveFunction == Under("bindings", "unbind", FALSE)
EnableInterception(decision) == Under("interceptor", "decision", decision)
Authenticate == Under("auth", "credentials", TRUE)
AddEventListener(listener) == Under("listeners", "listen", listener)
RemoveEventListener(listener) == Under("listeners", "unlisten", listener)
RegisterHandling(kind) == Calls(<<"Network.enable">>) \o Under(kind, "handle", kind)

(* Faulty variant: what was never registered cannot be removed.            *)
DeregisterUnwrapping(kind) == Under(kind, "unhandle or panic", kind)

DeregisterHandling(kind) == Under(kind, "unhandle", kind)

(* Methods that are alike to every other thread are told apart by their    *)
(* calls only. Those that wait try again until their timeout, except that  *)
(* wait_until_visible takes a missing element for an unexpected error.     *)
Program == [
  navigate |-> NavigateTo, await_navigated |-> WaitUntilNavigated,
  find |-> FindElement, find_xpath |-> FindByXpath, find_below |-> FindInElement,
  xpath_below |-> FindInElementByXpath,
  wait_for |-> FindElement, wait_visible |-> FindVisible, wait_xpath |-> FindByXpath,
  type |-> TypeStr, click |-> Click, type_into |-> TypeInto, hover |-> MoveMouseOver,
  focus |-> Focus, picture |-> ElementScreenshot,
  bounds |-> SetBounds, cookies |-> SetCookies, headers |-> SetExtraHeaders,
  stealth |-> EnableStealthMode,
  find_all_xpath |-> FindElementsByXpath, wait_all |-> FindElements,
  page |-> PageCall, profiler |-> ProfilerCall, runtime |-> RuntimeCall, target |-> TargetCall,
  storage |-> StorageCall, screencast |-> ScreencastCall, element |-> ElementCall,
  expose |-> ExposeFunction, remove |-> RemoveFunction,
  ask |-> EnableInterception("ask"), defer |-> EnableInterception("defer"),
  authenticate |-> Authenticate,
  listen |-> AddEventListener("caller"), unlisten |-> RemoveEventListener("caller"),
  responses |-> RegisterHandling("responses"), failures |-> RegisterHandling("failures"),
  no_responses |-> DeregisterHandling("responses")]

Waiting == {"wait_for", "wait_xpath", "wait_all"}

=============================================================================

\* A call for a tab and one for the browser, and one event.
SPECIFICATION CdpFairSpec
CONSTANTS
  Call = {tab, browser}
  Tab = {tab}
  MaxEvents = 1
CHECK_DEADLOCK FALSE
INVARIANTS CallsAreRegistered
PROPERTIES CallsEnd

----------------------------- MODULE MCDashboard -----------------------------
(* A small instance of Dashboard, and with it of RateLimiter, for TLC. *)
EXTENDS Dashboard

CONSTANTS browser, anyTime, oneHour

ReadAndExpensive == {"protected_read", "expensive"}
TheBrowser == {browser}
ThePage == <<browser, "protected_read">>
TwoFilters == {anyTime, oneHour}
TheScoped == {oneHour}
=============================================================================

------------------------- MODULE MCWiFiProvisioning -------------------------
EXTENDS WiFiProvisioning

CONSTANTS s1, s2, p1

\* One network has a password and the other one is open.
MCAccepted == {[ssid |-> s1, pass |-> p1], [ssid |-> s2, pass |-> Empty]}
=============================================================================

---------------------------- MODULE MCModemLink ----------------------------
(* Small instances of ModemLink for TLC: one profile of use per run.       *)
EXTENDS ModemLink

EspClient   == {"CIPSTART", "UDP", "CIPSEND", "CIPCLOSE"}
HayesDialer == {"ATDT", "ATO", "ATH", "+++"}
HayesServer == {"ATA", "ATO", "ATH", "+++"}
HttpClient  == {"HTTPGET", "HTTPREAD", "HTTPCLOSE"}
=============================================================================

------------------------------ MODULE MCDevice ------------------------------
EXTENDS Device
\* Bounds: while the firmware runs, only one of the flash, the secure element and the write of an
\* update request has failed; confirmations are asked for in the build without the secure element.
OneFailure == main = "run" /\ store.chan = "ERROR" =>
                ~Holds(store, "update") /\ (se.scanned => se.report # "UNAVAILABLE")
FlashConfirms == nxp => core.asked = 0
=============================================================================

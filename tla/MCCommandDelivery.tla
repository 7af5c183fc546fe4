-------------------------- MODULE MCCommandDelivery --------------------------
(* One producer at a time, two commands, a page that is reloaded once.      *)
EXTENDS CommandDelivery

CONSTANTS t1, show, changed

MCThreads == {t1}

MCCommands == {show, changed}
=============================================================================

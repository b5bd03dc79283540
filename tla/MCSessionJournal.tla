--------------------------- MODULE MCSessionJournal ---------------------------
(* One message of the user, one of the assistant, one batch, one title.     *)
EXTENDS SessionJournal

OneStaged == <<"b1">>
=============================================================================

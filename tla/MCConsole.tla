------------------------------ MODULE MCConsole ------------------------------
(* Console with a screen of two by two cells and one character of prompt.  *)
EXTENDS Console

CONSTANTS o, x, y

PromptText == <<o>>
HandlerTexts == {<<x>>, <<y>>, <<NL>>, <<x, BS>>}
==============================================================================

------------------------------- MODULE MCEditor -----------------------------
EXTENDS Editor

Contents == { <<>>, <<"a", "cr", "nl", "a">> }
=============================================================================

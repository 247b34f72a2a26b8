------------------------------ MODULE MCForms ------------------------------
EXTENDS Forms
MCForm == Dialogs \cup Live
MCIds == 1 .. 3
=============================================================================

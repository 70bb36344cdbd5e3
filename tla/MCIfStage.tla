------------------------------ MODULE MCIfStage ------------------------------
EXTENDS IfStage
==============================================================================

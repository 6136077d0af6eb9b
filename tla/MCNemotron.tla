------------------------------- MODULE MCNemotron -------------------------------
EXTENDS Nemotron
===============================================================================

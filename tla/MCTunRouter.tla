----------------------------- MODULE MCTunRouter ------------------------------
EXTENDS TunRouter
===============================================================================

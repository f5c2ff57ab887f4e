---- MODULE MCBrewdayLog ----
EXTENDS BrewdayLog
====

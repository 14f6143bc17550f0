----------------------------- MODULE StartupMC ------------------------------
(* All settings of production, and for development the four that differ in    *)
(* the keys, on which alone its steps depend.                                 *)
EXTENDS Startup

Configurations ==
  {s \in Setting :
    InProduction(s) \/ /\ s.database = "sqlite" /\ s.origins = {"http"}
                       /\ s.email = "console" /\ s.frontend = "http"
                       /\ ~s.smtpHost /\ ~s.auth0Domain /\ ~s.auth0Issuer
                       /\ s.sakanaKey = "unset" /\ s.allowMock}
=============================================================================

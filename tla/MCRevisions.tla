---------------------------- MODULE MCRevisions ----------------------------
EXTENDS Revisions

\* A test environment, and production, which accepts releases.
MCTargets == <<"test", "production">>
MCMirrors == <<"backup", "archive">>

\* Production selects a Secret, and the mirror an additional config.
MCSources == <<{"secret"}, {"additional"}>>

\* Alerts that come and go; managers that do; mirrors; and garbage.
MCWorlds ==
  {{"alert"}, {"create", "delete", "remove"}, {"mirror", "unfail"},
   {"create", "mark", "unfail"}}
=============================================================================

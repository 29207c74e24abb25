---------------------------- MODULE MCAutomation ----------------------------
EXTENDS Automation

NoDisturbance == [d \in Disturbances |-> 0]

Budget(purses) == purses @@ NoDisturbance
Scenarios ==
  {\* A channel with a window over midnight: edited, deleted, added again, its
   \* jobs stopped and deleted.
   Budget("edit" :> 3 @@ "clock" :> 3 @@ "user" :> 2),
   \* Scans that fail and the incident's messages, with a crash.
   Budget("edit" :> 1 @@ "settings" :> 1 @@ "site" :> 1 @@ "crash" :> 1),
   \* A recording, its replica, and what is done to either.
   Budget("user" :> 3 @@ "replica" :> 1),
   Budget("user" :> 2 @@ "remote" :> 1 @@ "replica" :> 1 @@ "crash" :> 1),
   \* A recording that is asked for again while it is replicated.
   Budget("user" :> 2 @@ "replica" :> 2),
   \* A channel's recording with a replica.
   Budget("edit" :> 1 @@ "user" :> 1 @@ "replica" :> 1 @@ "crash" :> 1),
   \* The alerts of a recording, their messages, and one sent again by hand.
   Budget("user" :> 2 @@ "capture" :> 3 @@ "crash" :> 1),
   Budget("user" :> 1 @@ "settings" :> 2 @@ "capture" :> 2 @@ "crash" :> 1),
   Budget("user" :> 2 @@ "settings" :> 1 @@ "capture" :> 1)}

\* Scans that fail and an edit meanwhile.
EditedWhileScanned == {Budget("edit" :> 2 @@ "site" :> 2)}

AnyTime == [blocked |-> {}, window |-> {}]
Night == [weekdays |-> {0}, start |-> 1, end |-> 1]
AtNight == [blocked |-> {}, window |-> {Night}]
AllRules == {AnyTime, AtNight}

=============================================================================

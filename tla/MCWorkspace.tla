----------------------------- MODULE MCWorkspace -----------------------------
(* The modules about a workspace that share no state, side by side in one   *)
(* run: a behaviour is one of a single scene, with its own requests.        *)
EXTENDS ServiceForms, ServiceMail, ServiceQueues, Sprints, Releases, Scenarios,
        RealtimeStream, Screen, Deletion, BulkJobs, ApiRequests,
        WorkflowConfig, PortalAccess, Dependencies, PlanReport, Goals,
        Discussion, Watching, Inbox, Automation, TLC

CONSTANT Scenes  \* the scenes of this run

\* The requests that arrive in a scene.
Requests ==
  [forms   |-> 5, mail      |-> 4, queues |-> 3, sprints |-> 4, releases |-> 5, scenarios |-> 3,
   browser |-> 1, customer  |-> 1, screen |-> 3, deletion |-> 6, bulk    |-> 4, api       |-> 6,
   workflow |-> 3, access   |-> 6, links  |-> 3, report  |-> 3, goals    |-> 4,
   discussion |-> 3, bell |-> 4, inbox |-> 4, automation |-> 5]

VARIABLE scene

vars == <<scene, handlers, formsVars, mailVars, queueVars, sprintVars, releaseVars, scenarioVars,
          streamVars, screenVars, deletionVars, bulkVars, apiVars,
          workflowVars, accessVars, dependencyVars, reportVars, goalVars,
          discussionVars, watchVars, inboxVars, automationVars>>

\* Beside the scene that is played the others have one initial state, the same for
\* all model values, so that it does not limit the symmetry.
NoQueues ==
  /\ queue = [q \in Queue |-> None] /\ ticket = [t \in Ticket |-> None]
  /\ snapshot = <<>> /\ triaged = NoTriage

Init ==
  /\ scene \in Scenes
  /\ FormsInit /\ (scene # "forms" => requestType.draft = [attach |-> TRUE, consent |-> TRUE])
  /\ MailInit
  /\ IF scene = "queues" THEN QueueInit ELSE NoQueues
  /\ SprintsInit /\ (scene # "sprints" => \A s \in Sprint : sprint[s].state = "none")
  /\ ReleasesInit
  /\ ScenariosInit
       /\ IF scene = "scenarios" THEN \E i, j \in Item : Live(i).rank # Live(j).rank
                                 ELSE \A i \in Item : Live(i).rank = 0
  /\ StreamInit
  /\ ScreenInit
  /\ DeletionInit /\ (scene # "deletion" => oneByOne)
  /\ BulkInit
  /\ ApiInit
  /\ WorkflowInit /\ (scene # "workflow" => Standing("status") = Stage)
  /\ AccessInit
  /\ DependenciesInit /\ (duration[IF scene = "links" THEN 2 ELSE 1] = 3)
  /\ ReportInit /\ (scene # "report" => shared /\ \A i \in Piece : work[i].due = None)
  /\ GoalsInit
  /\ DiscussionInit
  /\ WatchInit /\ (scene # "bell" => watcher)
  /\ InboxInit
  /\ AutomationInit /\ (scene # "automation" => "ADD_LABEL" \in rule.permitted)
  /\ HandlersInit(Requests[scene])

Next ==
  /\ \/ scene = "forms" /\ FormsNext
     \/ scene = "mail" /\ MailNext
     \/ scene = "queues" /\ QueueNext
     \/ scene = "sprints" /\ SprintsNext
     \/ scene = "releases" /\ ReleasesNext
     \/ scene = "scenarios" /\ ScenariosNext
     \/ scene = "browser" /\ StreamNext
     \/ scene = "customer" /\ PortalNext
     \/ scene = "screen" /\ ScreenNext
     \/ scene = "deletion" /\ DeletionNext
     \/ scene = "bulk" /\ BulkNext
     \/ scene = "api" /\ ApiNext
     \/ scene = "workflow" /\ WorkflowNext
     \/ scene = "access" /\ AccessNext
     \/ scene = "links" /\ DependenciesNext
     \/ scene = "report" /\ ReportNext
     \/ scene = "goals" /\ GoalsNext
     \/ scene = "discussion" /\ DiscussionNext
     \/ scene = "bell" /\ WatchNext
     \/ scene = "inbox" /\ InboxNext
     \/ scene = "automation" /\ AutomationNext
  /\ UNCHANGED scene
  /\ scene # "forms" => UNCHANGED formsVars
  /\ scene # "mail" => UNCHANGED mailVars
  /\ scene # "queues" => UNCHANGED queueVars
  /\ scene # "sprints" => UNCHANGED sprintVars
  /\ scene # "releases" => UNCHANGED releaseVars
  /\ scene # "scenarios" => UNCHANGED scenarioVars
  /\ scene \notin {"browser", "customer"} => UNCHANGED streamVars
  /\ scene # "screen" => UNCHANGED screenVars
  /\ scene # "deletion" => UNCHANGED deletionVars
  /\ scene # "bulk" => UNCHANGED bulkVars
  /\ scene # "api" => UNCHANGED apiVars
  /\ scene # "workflow" => UNCHANGED workflowVars
  /\ scene # "access" => UNCHANGED accessVars
  /\ scene # "links" => UNCHANGED dependencyVars
  /\ scene # "report" => UNCHANGED reportVars
  /\ scene # "goals" => UNCHANGED goalVars
  /\ scene # "discussion" => UNCHANGED discussionVars
  /\ scene # "bell" => UNCHANGED watchVars
  /\ scene # "inbox" => UNCHANGED inboxVars
  /\ scene # "automation" => UNCHANGED automationVars

---------------------------------------------------------------------------

Spec == Init /\ [][Next]_vars

\* People, and the things that are numbered, which the scenes share, queues and their
\* requests too: the fewer permutations, the sooner TLC is done.
Symmetry == Permutations(Handler) \cup Permutations(Agent) \cup Permutations(Ticket)
=============================================================================

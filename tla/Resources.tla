------------------------------- MODULE Resources -------------------------------
(***************************************************************************)
(* main() of build/resources.go, which turns the registered hooks into a   *)
(* template of SelectorSyncSets (classic clusters) and a package           *)
(* (hypershift).                                                           *)
(*                                                                         *)
(* The hooks are a sequence in the order of their sorted names.  The       *)
(* resources that do not depend on a hook are one object each for template *)
(* and package, Base.  Encoding is left out: it fails only for a           *)
(* configuration without webhooks, and every configuration has one.        *)
(* Writing a file may fail, and then the file does not count as written.   *)
(***************************************************************************)
EXTENDS SyncSet

CONSTANTS
    Hooks,       \* the registries to build from: sequences of hook records
    Options,     \* the values of the command line to build with
    Character,   \* the one-character strings
    DefaultLabelSelector,
    Base,        \* the resources that belong to no hook
    None         \* no file written

VARIABLES
    hooks,      \* webhooks.Webhooks, sorted: records [name, uri, classic,
                \* hypershift, rules, mutation, selector]
    options,    \* [syncset, package, show, exclude, only]
    step,       \* where main() is, or how it ended
    next,       \* the loop's place in hooks
    seen,       \* the URIs seen by the loop
    pack,       \* packageResources
    template,   \* the file -syncsetfile, or None
    manifest    \* the file in -packagedir, or None

\* What the build reads of a registered hook.
Hook ==
    [name : STRING, uri : STRING, classic : BOOLEAN, hypershift : BOOLEAN,
     rules : BOOLEAN, mutation : BOOLEAN, selector : Selector]

\* createValidatingWebhookConfiguration, or its mutating twin for a hook whose
\* name ends in -mutation: what of the hook the API server is told.
Configuration(h) ==
    [kind |-> IF h.mutation THEN "Mutating" ELSE "Validating",
     hook |-> h.name, path |-> h.uri]

\* No hook's configuration is a base resource, and no name is one character.
ASSUME ResourcesAssumption ==
    /\ DefaultLabelSelector \in Selector
    /\ Base \in Object
    /\ \A hs \in Hooks :
         /\ hs \in Seq(Hook)
         /\ \A i \in DOMAIN hs :
              /\ Configuration(hs[i]) \in Object \ {Base}
              /\ hs[i].name \notin Character
    /\ Character # {}

rvars == <<entries, hooks, options, step, next, seen, pack, template, manifest>>

RInit ==
    /\ hooks \in Hooks
    /\ options \in Options
    /\ step = IF options.syncset THEN "base" ELSE "package"
    /\ next = 1
    /\ seen = {}
    /\ SSInit
    /\ pack = IF options.syncset THEN <<>> ELSE <<Base>>
    /\ template = None
    /\ manifest = None

\* What every cluster gets is added first.
TemplateBase ==
    /\ step = "base"
    /\ entries' = Added(entries, DefaultLabelSelector, Base)
    /\ step' = "syncset"
    /\ UNCHANGED <<hooks, options, next, seen, pack, template, manifest>>

\* strings.Split(*only, ""): the characters of the option, none if it is empty.
\* Which ones they are makes no difference, as long as no hook is called so.
onlyInclude == IF options.only = {} THEN {} ELSE Character

\* The conditions under which the loop does not go on to the next hook.
Included(h, enabled) ==
    /\ enabled
    /\ h.rules
    /\ h.name \notin options.exclude
    /\ onlyInclude # {} => h.name \in onlyInclude

\* Faulty variant: as in cmd/main.go, seen is filled by name.
SeenByName(h) ==
    IF h.uri \in seen
    THEN step' = "panicked" /\ UNCHANGED <<next, seen>>
    ELSE step' = step /\ next' = next + 1 /\ seen' = seen \cup {h.name}

\* The start of both loops: a URI seen before is a panic.
SeeURI(h) ==
    IF h.uri \in seen
    THEN step' = "panicked" /\ UNCHANGED <<next, seen>>
    ELSE step' = step /\ next' = next + 1 /\ seen' = seen \cup {h.uri}

\* Faulty variant: every hook goes to the clusters of the default selector.
TemplateHookByDefault ==
    /\ step = "syncset"
    /\ next \in DOMAIN hooks
    /\ SeeURI(hooks[next])
    /\ entries' = IF step' # "panicked" /\ Included(hooks[next], hooks[next].classic)
                  THEN Added(entries, DefaultLabelSelector, Configuration(hooks[next]))
                  ELSE entries
    /\ UNCHANGED <<hooks, options, pack, template, manifest>>

\* One iteration of the loop of the template.
TemplateHook ==
    /\ step = "syncset"
    /\ next \in DOMAIN hooks
    /\ SeeURI(hooks[next])
    /\ entries' = IF step' # "panicked" /\ Included(hooks[next], hooks[next].classic)
                  THEN Added(entries, hooks[next].selector, Configuration(hooks[next]))
                  ELSE entries
    /\ UNCHANGED <<hooks, options, pack, template, manifest>>

\* main() goes on to the package, with a loop and a map of its own.
ToPackage ==
    /\ step' = "package"
    /\ next' = 1
    /\ seen' = {}
    /\ pack' = <<Base>>

\* After the loop: -showhooks ends here, otherwise the template is written.
TemplateDone ==
    /\ step = "syncset"
    /\ next \notin DOMAIN hooks
    /\ \/ /\ options.show
          /\ step' = "exit0"
          /\ UNCHANGED <<next, seen, pack, template>>
       \/ /\ ~options.show
          /\ template' = RenderSelectorSyncSets(entries)
          /\ ToPackage
       \/ /\ ~options.show
          /\ step' = "panicked"
          /\ UNCHANGED <<next, seen, pack, template>>
    /\ UNCHANGED <<entries, hooks, options, manifest>>

\* Faulty variant: mutating hooks are encoded but not appended.
PackageValidatingHook ==
    /\ step = "package"
    /\ options.package
    /\ next \in DOMAIN hooks
    /\ SeeURI(hooks[next])
    /\ pack' = IF /\ step' # "panicked" /\ Included(hooks[next], hooks[next].hypershift)
                  /\ ~hooks[next].mutation
               THEN Append(pack, Configuration(hooks[next]))
               ELSE pack
    /\ UNCHANGED <<entries, hooks, options, template, manifest>>

\* One iteration of the loop of the package.
PackageHook ==
    /\ step = "package"
    /\ options.package
    /\ next \in DOMAIN hooks
    /\ SeeURI(hooks[next])
    /\ pack' = IF step' # "panicked" /\ Included(hooks[next], hooks[next].hypershift)
               THEN Append(pack, Configuration(hooks[next]))
               ELSE pack
    /\ UNCHANGED <<entries, hooks, options, template, manifest>>

\* The end of main(), with or without a package.
PackageDone ==
    /\ step = "package"
    /\ options.package => next \notin DOMAIN hooks
    /\ \/ /\ step' = "exit0"
          /\ manifest' = IF options.package THEN pack ELSE None
       \/ /\ options.package
          /\ step' = "panicked"
          /\ UNCHANGED manifest
    /\ UNCHANGED <<entries, hooks, options, next, seen, pack, template>>

RNext == TemplateBase \/ TemplateHook \/ TemplateDone \/ PackageHook \/ PackageDone

RSpec == RInit /\ [][RNext]_rvars

-----------------------------------------------------------------------------
(* Properties. *)

\* The hooks an option asks for.
Wanted(h, enabled) ==
    /\ enabled /\ h.rules
    /\ h.name \notin options.exclude
    /\ options.only # {} => h.name \in options.only

\* A build without -only.
Unfiltered == options.only = {}

(***************************************************************************)
(* A file is written only if no two hooks have the same URI, be they meant *)
(* for it or not.                                                          *)
(***************************************************************************)
WritesUniqueURIs ==
    template # None \/ manifest # None =>
      \A i, j \in DOMAIN hooks : hooks[i].uri = hooks[j].uri => i = j

\* How often set s of the template holds the configuration of hook h.
Copies(s, h) ==
    {k \in DOMAIN template[s].resources :
       template[s].resources[k] = Configuration(h)}

(***************************************************************************)
(* The template holds each hook that it should, once, in the one set for   *)
(* its clusters, and no other hook; what all clusters need comes first.    *)
(***************************************************************************)
TemplateHoldsItsHooks ==
    template # None /\ Unfiltered =>
      /\ template[1].selector = DefaultLabelSelector
      /\ template[1].resources[1] = Base
      /\ \A i \in DOMAIN hooks : \A s \in DOMAIN template :
           IF Wanted(hooks[i], hooks[i].classic) /\ template[s].selector = hooks[i].selector
           THEN \E k \in DOMAIN template[s].resources : Copies(s, hooks[i]) = {k}
           ELSE Copies(s, hooks[i]) = {}
      /\ \A i \in DOMAIN hooks :
           Wanted(hooks[i], hooks[i].classic) =>
             \E s \in DOMAIN template : template[s].selector = hooks[i].selector

(***************************************************************************)
(* The package holds each hook that it should, once, and no other.         *)
(***************************************************************************)
PackageHoldsItsHooks ==
    manifest # None /\ Unfiltered =>
      \A i \in DOMAIN hooks :
        LET places == {k \in DOMAIN manifest : manifest[k] = Configuration(hooks[i])}
        IN  IF Wanted(hooks[i], hooks[i].hypershift)
            THEN \E k \in DOMAIN manifest : places = {k}
            ELSE places = {}

(***************************************************************************)
(* Flag -only: "Only include these comma-separated webhooks".  Those, if   *)
(* the clusters of the template are meant to have them, are included.      *)
(***************************************************************************)
OnlyIncludesThese ==
    template # None =>
      \A i \in DOMAIN hooks :
        Wanted(hooks[i], hooks[i].classic) =>
          \E s \in DOMAIN template : Copies(s, hooks[i]) # {}
=============================================================================

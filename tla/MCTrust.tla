------------------------------- MODULE MCTrust -------------------------------
(*****************************************************************************)
(* Keys of the audit chain and its segments, who is let in and with which   *)
(* rights, which instance or region leads, and the order of events: parts   *)
(* that share no state. A behaviour is about one part, the others stand     *)
(* still.                                                                   *)
(*****************************************************************************)
EXTENDS EventBus, KeyRotation, AuditRotation, AuthTokens, Onboarding,
        SsoLogin, AccessControl, RegionFailover

VARIABLE part     \* the part this behaviour is about

allVars ==
    <<part, vars, rotationVars, segmentVars, tokenVars, inviteVars,
      ssoVars, accessVars, patroniVars, onboardingVars, apiKeyVars,
      oidcVars, regionVars>>

MCInit ==
    /\ part \in {"Bus", "KeyRotation", "Rotation", "Tokens",
                 "Invitations", "Sso", "Rights", "Patroni", "Onboarding",
                 "ApiKeys", "Oidc", "Regions"}
    /\ Init
    /\ RotationInit
    /\ SegmentsInit
    /\ part # "Rotation" => rotDb = "sqlite"
    /\ TokensInit
    /\ part # "Tokens" => tokenDb = "sqlite"
    /\ InvitationsInit
    /\ part # "Invitations" => inviteDb = "sqlite"
    /\ SsoInit
    /\ part # "Sso" => ssoDb = "sqlite"
    /\ AccessInit
    /\ PatroniInit
    /\ OnboardingInit
    /\ part # "Onboarding" => intakeDb = "sqlite"
    /\ ApiKeysInit
    /\ OidcInit
    /\ part # "Oidc" => idp = [slash |-> FALSE, kids |-> TRUE, pkce |-> TRUE, late |-> FALSE]
    /\ RegionInit
    /\ part # "Regions" => regionDb = "sqlite"

BusPart ==
    /\ part = "Bus" /\ Next
    /\ UNCHANGED <<part, rotationVars, segmentVars, tokenVars, inviteVars,
                   ssoVars, accessVars, patroniVars, onboardingVars,
                   apiKeyVars, oidcVars, regionVars>>

KeyRotationPart ==
    /\ part = "KeyRotation" /\ RotationNext
    /\ UNCHANGED <<part, vars, segmentVars, tokenVars, inviteVars,
                   ssoVars, accessVars, patroniVars, onboardingVars,
                   apiKeyVars, oidcVars, regionVars>>

RotationPart ==
    /\ part = "Rotation" /\ SegmentsNext
    /\ UNCHANGED <<part, vars, rotationVars, tokenVars, inviteVars,
                   ssoVars, accessVars, patroniVars, onboardingVars,
                   apiKeyVars, oidcVars, regionVars>>

TokensPart ==
    /\ part = "Tokens" /\ TokensNext
    /\ UNCHANGED <<part, vars, rotationVars, segmentVars, inviteVars,
                   ssoVars, accessVars, patroniVars, onboardingVars,
                   apiKeyVars, oidcVars, regionVars>>

InvitationsPart ==
    /\ part = "Invitations" /\ InvitationsNext
    /\ UNCHANGED <<part, vars, rotationVars, segmentVars, tokenVars,
                   ssoVars, accessVars, patroniVars, onboardingVars,
                   apiKeyVars, oidcVars, regionVars>>

SsoPart ==
    /\ part = "Sso" /\ SsoNext
    /\ UNCHANGED <<part, vars, rotationVars, segmentVars, tokenVars,
                   inviteVars, accessVars, patroniVars, onboardingVars,
                   apiKeyVars, oidcVars, regionVars>>

RightsPart ==
    /\ part = "Rights" /\ AccessNext
    /\ UNCHANGED <<part, vars, rotationVars, segmentVars, tokenVars,
                   inviteVars, ssoVars, patroniVars, onboardingVars,
                   apiKeyVars, oidcVars, regionVars>>

PatroniPart ==
    /\ part = "Patroni" /\ PatroniNext
    /\ UNCHANGED <<part, vars, rotationVars, segmentVars, tokenVars,
                   inviteVars, ssoVars, accessVars, onboardingVars,
                   apiKeyVars, oidcVars, regionVars>>

OnboardingPart ==
    /\ part = "Onboarding" /\ OnboardingNext
    /\ UNCHANGED <<part, vars, rotationVars, segmentVars, tokenVars,
                   inviteVars, ssoVars, accessVars, patroniVars,
                   apiKeyVars, oidcVars, regionVars>>

ApiKeysPart ==
    /\ part = "ApiKeys" /\ ApiKeysNext
    /\ UNCHANGED <<part, vars, rotationVars, segmentVars, tokenVars,
                   inviteVars, ssoVars, accessVars, patroniVars,
                   onboardingVars, oidcVars, regionVars>>

OidcPart ==
    /\ part = "Oidc" /\ OidcNext
    /\ UNCHANGED <<part, vars, rotationVars, segmentVars, tokenVars,
                   inviteVars, ssoVars, accessVars, patroniVars,
                   onboardingVars, apiKeyVars, regionVars>>

RegionsPart ==
    /\ part = "Regions" /\ RegionNext
    /\ UNCHANGED <<part, vars, rotationVars, segmentVars, tokenVars,
                   inviteVars, ssoVars, accessVars, patroniVars,
                   onboardingVars, apiKeyVars, oidcVars>>

MCNext == BusPart \/ KeyRotationPart \/ RotationPart \/ TokensPart \/
       InvitationsPart \/ SsoPart \/ RightsPart \/ PatroniPart \/
       OnboardingPart \/ ApiKeysPart \/ OidcPart \/ RegionsPart

MCSpec ==
    /\ MCInit /\ [][MCNext]_allVars

\* Who is let in: refresh tokens, invitations, single sign-on, onboarding and
\* API keys each open the door for whom they were made and no longer than they
\* should.
NobodyElseIsLetIn ==
    /\ LoginsAreSound
    /\ InvitationsAreSound
    /\ SsoIsSound
    /\ OidcIsSound
    /\ OnboardingIsSound
    /\ ApiKeysAreSound
==============================================================================

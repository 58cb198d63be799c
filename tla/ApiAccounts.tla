---------------------------- MODULE ApiAccounts ----------------------------
(***************************************************************************)
(* The API of accounts: signing in, users, organizations, customers and     *)
(* partners, billing and licenses.                                          *)
(***************************************************************************)
EXTENDS ApiData

(* The operations of internal/db on users, tokens and sign-ins.              *)

GetUserAccountsByOrgID == Read("UserAccount")
GetUserAccountsByCustomerOrgID == Read("UserAccount")
GetUserAccountsByPartnerOrgID == Read("UserAccount")
GetUserAccountByID == Read("UserAccount")
GetUserAccountByEmail == Read("UserAccount")
GetUserAccountWithRole == Read("UserAccount")
GetUserAccountAndOrg == Read("UserAccount")
ExistsUserAccountWithEmail == Read("UserAccount")
CountBillableUserAccountsByOrgID == Read("UserAccount")
CreateUserAccount == Write("UserAccount")
UpdateUserAccount == Write("UserAccount")
UpdateUserAccountEmailVerified == Write("UserAccount")
UpdateUserAccountLastUsedOrganizationID == Write("UserAccount")
UpdateUserAccountLastLoggedIn == Write("UserAccount")
UpdateUserAccountImage == Write("UserAccount")
UpdateUserAccountMFASecret == Write("UserAccount")
EnableUserAccountMFA == Write("UserAccount")
DisableUserAccountMFA == Write("UserAccount")
CreateUserAccountOrganizationAssignment == Write("Organization_UserAccount")
UpdateUserAccountOrganizationAssignment == Write("Organization_UserAccount")
DeleteUserAccountFromOrganization == Write("Organization_UserAccount")
DeleteTutorialProgressesOfUserInOrg == Write("UserAccount_TutorialProgress")
CreateMFARecoveryCodes == Write("MFARecoveryCode")
GetUnusedMFARecoveryCodes == Read("MFARecoveryCode")
CountUnusedMFARecoveryCodes == Read("MFARecoveryCode")
MarkMFARecoveryCodeAsUsed == Write("MFARecoveryCode")
DeleteAllMFARecoveryCodes == Write("MFARecoveryCode")
GetAccessTokens == Read("AccessToken")
CreateAccessToken == Write("AccessToken")
DeleteAccessToken == Write("AccessToken")
DeleteAccessTokensOfUserInOrg == Write("AccessToken")
CreateOIDCState == Write("OIDCState")
DeleteOIDCState == Write("OIDCState")

-----------------------------------------------------------------------------
OfScope(own, partners, customers) == own \cup partners \cup customers

-----------------------------------------------------------------------------
(* Signing in.  A user without an organization is given one.                *)

PrimaryOrganization == Either(GetAllOrganizationsForSuperAdmin, GetOrganizationsForUser)
EnsurePrimaryOrganization ==
    PrimaryOrganization ** Opt(CreateOrganization ** CreateUserAccountOrganizationAssignment)
GenerateLoginToken == EnsurePrimaryOrganization ** Check
SetUserPassword == Check ** UpdateUserAccount
VerifyUserEmail == Opt(UpdateUserAccountEmailVerified)
CreateUserAccountWithOrganization ==
    CreateUserAccount ** CreateOrganization ** CreateUserAccountOrganizationAssignment

(* Answered from inside the transaction; a refusal commits it too.          *)
authLoginHandler ==
    LET recoveryCode == GetUnusedMFARecoveryCodes ** MarkMFARecoveryCodeAsUsed
        login == Opt(recoveryCode) ** GenerateLoginToken ** UpdateUserAccountLastLoggedIn ** RespondJSON
        needsMFA == RespondJSON
    IN  Handler("authLoginHandler",
            JsonBody ** RunTx(GetUserAccountByEmail
                ** (Refuse \cup needsMFA \cup (GetUnusedMFARecoveryCodes ** Refuse) \cup login)))
authLoginConfigHandler == Handler("authLoginConfigHandler", RespondJSON)
authRegisterHandler ==
    Handler("authRegisterHandler",
        Check ** JsonBody ** Check
        ** TxWith("mute", Check ** CreateUserAccountWithOrganization ** GenerateLoginToken, "mute")
        ** Opt(LoggedSend("mail")) ** RespondJSON)
authResetPasswordHandler ==
    Handler("authResetPasswordHandler",
        JsonBody ** Check ** GetUserAccountByEmail
        ** Either(Ok, GetOrganizationsForUser ** Check ** Opt(GetOrganizationWithBranding) ** Send("mail") ** Ok))
authSwitchContextHandler ==
    Handler("authSwitchContextHandler",
        JsonBody ** Check
        ** Either(Ok, Either(GetUserAccountByID ** GetOrganizationByID, GetUserAccountAndOrg)
                      ** Check ** UpdateUserAccountLastUsedOrganizationID ** RespondJSON))
setPasswordAndLogin ==
    RunTx(SetUserPassword ** Opt(VerifyUserEmail) ** UpdateUserAccountLastLoggedIn ** GenerateLoginToken)
    ** Opt(Logged(PrimaryOrganization) ** LoggedSend("mail")) ** RespondJSON
authAcceptInviteHandler == Handler("authAcceptInviteHandler", JsonBody ** Check ** setPasswordAndLogin)
authResetConfirmHandler == Handler("authResetConfirmHandler", JsonBody ** Check ** setPasswordAndLogin)
authVerifyRequestHandler == Handler("authVerifyRequestHandler", Either(Ok, Send("mail") ** Ok))
authVerifyConfirmHandler == Handler("authVerifyConfirmHandler", Check ** VerifyUserEmail ** Ok)

(* The state is used up before anything else; the redirect with the token   *)
(* leaves from inside the transaction.                                      *)
verifyOIDCState == Check ** DeleteOIDCState ** Check
registerOIDCUser == CreateUserAccountWithOrganization
authLoginOidcHandler == Handler("authLoginOidcHandler", CreateOIDCState ** Check ** Ok)
authLoginOidcCallbackHandler ==
    Handler("authLoginOidcCallbackHandler",
        verifyOIDCState ** Check ** Read("OIDC provider")
        ** RunTx(GetUserAccountByEmail
                 ** Either(Refuse, Opt(registerOIDCUser) ** Opt(UpdateUserAccountEmailVerified)
                                   ** GenerateLoginToken ** UpdateUserAccountLastLoggedIn ** Ok)))
AuthOIDCRouter == {authLoginOidcHandler, authLoginOidcCallbackHandler}

AuthRouter ==
    {authLoginHandler, authLoginConfigHandler, authRegisterHandler, authResetPasswordHandler} \cup AuthOIDCRouter
    \cup With({"Authentication", "RequireOrgAndRole"}, {authSwitchContextHandler})
    \cup With({"Authentication", "RequireTokenScope"}, {authAcceptInviteHandler, authResetConfirmHandler})
    \cup With({"Authentication", "RequireOrgAndRole", "BlockSuperAdmin"}, {authVerifyRequestHandler})
    \cup With({"Authentication"}, {authVerifyConfirmHandler})

(* One's own account.                                                       *)

userSettingsUpdateHandler ==
    Handler("userSettingsUpdateHandler", JsonBody ** Check ** Opt(UpdateUserAccount) ** RespondJSON)
userSettingsUpdateEmailHandler ==
    Handler("userSettingsUpdateEmailHandler",
        JsonBody ** Check ** ExistsUserAccountWithEmail ** Check ** GetOrganizationBranding ** Send("mail") ** Ok)
(* The secret is stored before its picture is drawn.                        *)
mfaSetupHandler ==
    Handler("mfaSetupHandler", GetUserAccountByID ** Check ** UpdateUserAccountMFASecret ** Check ** RespondJSON)
mfaEnableHandler ==
    Handler("mfaEnableHandler",
        JsonBody ** GetUserAccountByID ** Check ** RunTx(EnableUserAccountMFA ** CreateMFARecoveryCodes) ** RespondJSON)
mfaDisableHandler ==
    Handler("mfaDisableHandler",
        JsonBody ** GetUserAccountByID ** Check ** RunTx(DisableUserAccountMFA ** DeleteAllMFARecoveryCodes) ** Ok)
mfaRegenerateRecoveryCodesHandler ==
    Handler("mfaRegenerateRecoveryCodesHandler",
        JsonBody ** GetUserAccountByID ** Check ** RunTx(DeleteAllMFARecoveryCodes ** CreateMFARecoveryCodes) ** RespondJSON)
mfaRecoveryCodesStatusHandler ==
    Handler("mfaRecoveryCodesStatusHandler", GetUserAccountByID ** Check ** CountUnusedMFARecoveryCodes ** RespondJSON)
getAccessTokensHandler == Handler("getAccessTokensHandler", GetAccessTokens ** RespondJSON)
createAccessTokenHandler == Handler("createAccessTokenHandler", JsonBody ** Check ** CreateAccessToken ** RespondJSON)
deleteAccessTokenHandler == Handler("deleteAccessTokenHandler", PathValue ** DeleteAccessToken ** Ok)
SettingsRouter ==
    With({"Authentication"},
        {userSettingsUpdateHandler, userSettingsUpdateEmailHandler, mfaSetupHandler, mfaEnableHandler,
         mfaDisableHandler, mfaRegenerateRecoveryCodesHandler, mfaRecoveryCodesStatusHandler}
        \cup With({"RequireOrgAndRole"}, {getAccessTokensHandler}
            \cup With({"BlockSuperAdmin"}, {createAccessTokenHandler, deleteAccessTokenHandler})))

-----------------------------------------------------------------------------
(* Users of an organization.                                                *)

InOrg == {"Authentication", "RequireOrgAndRole"}

userAccountMiddleware == PathValue ** GetUserAccountWithRole
checkUserAccountWritability == Check
getUserAccountsHandler ==
    Handler("getUserAccountsHandler",
        OfScope(GetUserAccountsByOrgID, GetUserAccountsByPartnerOrgID, GetUserAccountsByCustomerOrgID) ** RespondJSON)

validateCreateUserAccount == Check ** Opt(ValidatePartnerOrgBelongsToOrg)
getVerifiedCustomerOrganization == GetCustomerOrganizationByID ** Check
checkUserCreationLimits == Opt(CountBillableUserAccountsByOrgID) ** Check
generateUserInviteUrl == Check
(* The mail leaves before the commit, and nothing is answered when the      *)
(* transaction itself fails.                                                *)
createUserAccountHandler ==
    Handler("createUserAccountHandler",
        JsonBody ** validateCreateUserAccount ** Opt(getVerifiedCustomerOrganization)
        ** TxWith("mute",
                  GetOrganizationWithBranding ** Check ** checkUserCreationLimits
                  ** GetUserAccountByEmail ** Opt(CreateUserAccount) ** CreateUserAccountOrganizationAssignment
                  ** Opt(generateUserInviteUrl) ** Send("mail"),
                  "mute")
        ** RespondJSON)
(* Role and name are written one after the other.                           *)
patchUserAccountHandler ==
    Handler("patchUserAccountHandler",
        JsonBody ** checkUserAccountWritability
        ** Opt(Check ** UpdateUserAccountOrganizationAssignment) ** Opt(UpdateUserAccount) ** RespondJSON)
resendUserInviteHandler ==
    Handler("resendUserInviteHandler",
        PathValue ** GetUserAccountWithRole ** Check ** GetOrganizationWithBranding ** generateUserInviteUrl
        ** Send("mail") ** RespondJSON)
deleteUserAccountHandler ==
    Handler("deleteUserAccountHandler",
        checkUserAccountWritability ** Check
        ** RunTx(Either(Ok, DeleteUserAccountFromOrganization ** DeleteAccessTokensOfUserInOrg
                            ** DeleteTutorialProgressesOfUserInOrg ** Ok)))
patchImageUserAccount == Handler("patchImageUserAccount", JsonBody ** Check ** Opt(UpdateUserAccountImage) ** RespondJSON)
UserAccountsRouter ==
    With(InOrg, {getUserAccountsHandler}
        \cup With(Mutating, {createUserAccountHandler}
            \cup After(userAccountMiddleware,
                    {deleteUserAccountHandler, patchImageUserAccount, resendUserInviteHandler}
                    \cup With({"ProFeature"}, {patchUserAccountHandler}))))

-----------------------------------------------------------------------------
(* Organizations.                                                           *)

getOrganization ==
    Handler("getOrganization",
        CountBillableUserAccountsByOrgID ** CountCustomerOrganizationsByOrganizationID ** RespondJSON)
getOrganizations == Handler("getOrganizations", GetOrganizationsForUser ** RespondJSON)
validateOrganizationRequest == Check
validateOrganizationUpdate == Check
handleUpdateOrganization ==
    RunTx(GetOrganizationByID ** validateOrganizationUpdate ** Opt(UpdateOrganization))
updateOrganization ==
    Handler("updateOrganization", JsonBody ** validateOrganizationRequest ** handleUpdateOrganization ** RespondJSON)
createOrganization ==
    Handler("createOrganization",
        ExistsVendorOrganizationWithUserID ** Check ** JsonBody ** validateOrganizationRequest
        ** Opt(CountAllOrganizations ** Check)
        ** RunTx(CreateOrganization ** CreateUserAccountOrganizationAssignment) ** RespondJSON)
deleteOrganizationHandler == Handler("deleteOrganizationHandler", SetOrganizationDeletedAtNow ** Ok)
getOrganizationWebhook == Handler("getOrganizationWebhook", RespondJSON)
updateOrganizationWebhook ==
    Handler("updateOrganizationWebhook", JsonBody ** Check ** SetOrganizationStripeWebhookSecret ** Ok)

getOrganizationBranding == Handler("getOrganizationBranding", GetOrganizationBranding ** RespondJSON)
getOrganizationBrandingFromRequest == Check
createOrganizationBranding ==
    Handler("createOrganizationBranding", getOrganizationBrandingFromRequest ** CreateOrganizationBranding ** RespondJSON)
updateOrganizationBranding ==
    Handler("updateOrganizationBranding", getOrganizationBrandingFromRequest ** UpdateOrganizationBranding ** RespondJSON)
OrganizationBrandingRouter ==
    {getOrganizationBranding}
    \cup With(Mutating \cup {"RequireVendor"}, {createOrganizationBranding, updateOrganizationBranding})

OrganizationRouter ==
    With(InOrg,
        {getOrganization, getOrganizations}
        \cup With({"BlockSuperAdmin"}, {createOrganization} \cup With({"RequireVendor", "RequireAdmin"}, {updateOrganization}))
        \cup With({"RequireVendor", "RequireAdmin", "BlockSuperAdminUnlessOrganizationExpired"}, {deleteOrganizationHandler})
        \cup OrganizationBrandingRouter
        \cup With({"RequireVendor"}, {getOrganizationWebhook}
            \cup With({"RequireAdmin", "BlockSuperAdmin"}, {updateOrganizationWebhook})))

(* What the frontend shows around every page; the parts it can do without   *)
(* are only logged when they fail.                                          *)
getContextHandler ==
    Handler("getContextHandler",
        PrimaryOrganization ** Opt(Logged(GetCustomerOrganizationByID ** GetSidebarLinks))
        ** Opt(Logged(GetPartnerOrganizationByID))
        ** CountBillableUserAccountsByOrgID ** CountCustomerOrganizationsByOrganizationID ** RespondJSON)
ContextRouter == With(InOrg, {getContextHandler})

-----------------------------------------------------------------------------
(* Customers, partners, and the links in a customer's sidebar.              *)

ownCustomer == Opt(GetCustomerOrganizationByID ** Check)      \* for partners

getCustomerOrganizationsHandler ==
    Handler("getCustomerOrganizationsHandler",
        Either(GetCustomerOrganizationsByPartnerOrgID, GetCustomerOrganizationsByOrganizationID) ** RespondJSON)
createCustomerOrganizationHandler ==
    Handler("createCustomerOrganizationHandler",
        JsonBody ** Check
        ** RunTx(Opt(CountCustomerOrganizationsByOrganizationID) ** Check ** CreateCustomerOrganization) ** RespondJSON)
updateCustomerOrganizationHandler ==
    Handler("updateCustomerOrganizationHandler",
        PathValue ** JsonBody ** Check ** ownCustomer ** UpdateCustomerOrganization ** RespondJSON)
assignCustomerToPartnerHandler ==
    Handler("assignCustomerToPartnerHandler",
        PathValue ** JsonBody ** Opt(ValidatePartnerOrgBelongsToOrg) ** SetCustomerOrganizationPartner
        ** GetCustomerOrganizationByID ** RespondJSON)
deleteCustomerOrganizationHandler ==
    Handler("deleteCustomerOrganizationHandler", PathValue ** ownCustomer ** DeleteCustomerOrganizationWithID ** Ok)

validatePartnerAccessToCustomer == ownCustomer
customerOfLink == PathValue ** ValidateCustomerOrgBelongsToOrg ** validatePartnerAccessToCustomer
getSidebarLinksHandler == Handler("getSidebarLinksHandler", customerOfLink ** GetSidebarLinks ** RespondJSON)
createSidebarLinkHandler ==
    Handler("createSidebarLinkHandler", customerOfLink ** JsonBody ** Check ** CreateSidebarLink ** RespondJSON)
updateSidebarLinkHandler ==
    Handler("updateSidebarLinkHandler", PathValue ** customerOfLink ** JsonBody ** Check ** UpdateSidebarLink ** RespondJSON)
deleteSidebarLinkHandler ==
    Handler("deleteSidebarLinkHandler", PathValue ** customerOfLink ** DeleteSidebarLink ** Ok)
SidebarLinksRouter ==
    {getSidebarLinksHandler}
    \cup With(Mutating, {createSidebarLinkHandler, updateSidebarLinkHandler, deleteSidebarLinkHandler})

CustomerOrganizationsRouter ==
    With(InOrg \cup {"RequireVendorOrPartner"},
        {getCustomerOrganizationsHandler} \cup SidebarLinksRouter
        \cup With(Mutating, {createCustomerOrganizationHandler, updateCustomerOrganizationHandler})
        \cup With({"RequireAdmin", "BlockSuperAdmin"}, {deleteCustomerOrganizationHandler})
        \cup With(Mutating \cup {"RequireVendor"}, {assignCustomerToPartnerHandler}))

getPartnerOrganizationsHandler ==
    Handler("getPartnerOrganizationsHandler", GetPartnerOrganizationsByOrganizationID ** RespondJSON)
createPartnerOrganizationHandler ==
    Handler("createPartnerOrganizationHandler", JsonBody ** Check ** CreatePartnerOrganization ** RespondJSON)
updatePartnerOrganizationHandler ==
    Handler("updatePartnerOrganizationHandler", PathValue ** JsonBody ** Check ** UpdatePartnerOrganization ** RespondJSON)
deletePartnerOrganizationHandler ==
    Handler("deletePartnerOrganizationHandler", PathValue ** DeletePartnerOrganizationWithID ** Ok)
PartnerOrganizationsRouter ==
    With(InOrg \cup {"RequireVendor"}, {getPartnerOrganizationsHandler}
        \cup With(Mutating, {createPartnerOrganizationHandler, updatePartnerOrganizationHandler,
                             deletePartnerOrganizationHandler}))

-----------------------------------------------------------------------------
(* Subscriptions.  What an organization uses is counted against what it has *)
(* bought; Stripe is told of a change before it is stored.                  *)

GetApplicationEntitlementsWithOrganizationID == Read("ApplicationEntitlement")
GetArtifactEntitlements == Read("ArtifactEntitlement")
CountDeploymentTargets == Read("DeploymentTarget")
CountAlertConfigurations == Read("AlertConfiguration")
UpdateAllUserAccountOrganizationAssignmentsWithOrganizationID == Write("Organization_UserAccount")
UpdateDeploymentUnsetEntitlementIDWithOrganizationID == Write("Deployment")
DeleteApplicationEntitlementsWithOrganizationID == Write("ApplicationEntitlement")
DeleteArtifactEntitlementsWithOrganizationID == Write("ArtifactEntitlement")
DeleteAlertConfigurationsWithOrganizationID == Write("AlertConfiguration")

getCurrentUsageCounts ==
    CountBillableUserAccountsByOrgID ** GetCustomerOrganizationsByOrganizationID
    ** GetApplicationEntitlementsWithOrganizationID ** GetArtifactEntitlements ** CountDeploymentTargets
buildSubscriptionInfo ==
    getCurrentUsageCounts ** GetApplicationEntitlementsWithOrganizationID ** GetArtifactEntitlements
    ** GetUserAccountsByOrgID ** CountAlertConfigurations
validateSubscriptionQuantities == Check
CreateCheckoutSession == Send("Stripe")
UpdateSubscription == Send("Stripe")

GetSubscriptionHandler == Handler("GetSubscriptionHandler", buildSubscriptionInfo ** RespondJSON)
CreateSubscriptionHandler ==
    Handler("CreateSubscriptionHandler",
        JsonBody ** getCurrentUsageCounts ** validateSubscriptionQuantities ** CreateCheckoutSession ** RespondJSON)
UpdateSubscriptionHandler ==
    Handler("UpdateSubscriptionHandler",
        Check ** JsonBody
        ** TxWith("mute",
                  GetOrganizationByID ** getCurrentUsageCounts ** validateSubscriptionQuantities
                  ** UpdateSubscription ** Check ** UpdateOrganization ** buildSubscriptionInfo,
                  "told")
        ** RespondJSON)
CreateBillingPortalSessionHandler ==
    Handler("CreateBillingPortalSessionHandler", Check ** JsonBody ** Send("Stripe") ** RespondJSON)
BillingRouter ==
    With(InOrg \cup {"RequireVendor"}, {GetSubscriptionHandler}
        \cup With({"RequireAdmin", "BlockSuperAdmin"},
                {CreateSubscriptionHandler, UpdateSubscriptionHandler, CreateBillingPortalSessionHandler}))

(* What Stripe reports.  A starter organization loses what only others have.*)
ReconcileStarterFeaturesForOrganizationID ==
    RunTx(UpdateAllUserAccountOrganizationAssignmentsWithOrganizationID
          ** UpdateDeploymentUnsetEntitlementIDWithOrganizationID ** DeleteApplicationEntitlementsWithOrganizationID
          ** DeleteArtifactEntitlementsWithOrganizationID ** DeleteAlertConfigurationsWithOrganizationID)
handleStripeSubscription ==
    Either(Ok,      \* not one of our organizations
           RunTx(GetOrganizationByID ** Check ** UpdateOrganization ** Opt(ReconcileStarterFeaturesForOrganizationID)) ** Ok)
stripeWebhookHandler ==
    Handler("stripeWebhookHandler", Check ** Either(Ok, Check ** handleStripeSubscription))

sendLicenseKeyRevisionEmails ==
    Either(Logged(GetUserAccountsByOrgID),
           Logged(GetUserAccountsByOrgID ** GetCustomerOrganizationByID ** Check ** Send("mail")))
handleVendorStripeSubscription ==
    Check ** Either(Ok, GetLicenseKeyByID
        ** Either(Ok, GetLicenseTemplateByID ** Check
            ** Either(Ok, CreateLicenseKeyRevision ** sendLicenseKeyRevisionEmails ** Ok)))
vendorStripeWebhookHandler ==
    Handler("vendorStripeWebhookHandler",
        PathValue ** GetOrganizationByID ** Check ** Either(Ok, Check ** handleVendorStripeSubscription))
WebhookRouter == {stripeWebhookHandler, vendorStripeWebhookHandler}

-----------------------------------------------------------------------------
(* License keys.  A change that deployments would feel needs to be          *)
(* confirmed, and redeploys them in the transaction that makes it.          *)

GetDeploymentTargetsByScope == Read("DeploymentTarget")
GetDeploymentTarget == Read("DeploymentTarget")
GetSecretsByScope == Read("Secret")
GetSecretsForDeploymentTarget == Read("Secret")
GetLicenseKeysByScope == Read("LicenseKey")
GetLicenseKeysForDeploymentTarget == Read("LicenseKey")
CreateDeploymentRevision == Write("DeploymentRevision")

findAffectedDeployments ==
    GetDeploymentTargetsByScope ** GetSecretsByScope ** GetLicenseKeysByScope
    ** GetDeploymentsForDeploymentTarget ** Check
findReferencingDeployments == findAffectedDeployments
triggerAffectedDeployments ==
    Opt(GetDeploymentTarget ** GetSecretsForDeploymentTarget ** GetLicenseKeysForDeploymentTarget ** Check
        ** CreateDeploymentRevision)

licenseKeyMiddleware == PathValue ** GetLicenseKeyByID ** Check ** ownCustomer
getLicenseKeys ==
    Handler("getLicenseKeys",
        OfScope(GetLicenseKeys, GetLicenseKeysByPartnerOrgID, GetLicenseKeysByCustomerOrgID) ** RespondJSON)
createLicenseKey ==
    Handler("createLicenseKey",
        JsonBody ** Check ** Opt(GetLicenseTemplateByID) ** Check ** ownCustomer ** CreateLicenseKey ** RespondJSON)
getLicenseKeyToken == Handler("getLicenseKeyToken", Check ** RespondJSON)
getLicenseKeyRevisions == Handler("getLicenseKeyRevisions", GetLicenseKeyRevisions ** Check ** RespondJSON)
applyLicenseKeyRevision == Check ** CreateLicenseKeyRevision
updateLicenseKey ==
    Handler("updateLicenseKey",
        JsonBody ** Opt(GetLicenseTemplateByID) ** Check ** Opt(findAffectedDeployments ** Check)
        ** RunTx(UpdateLicenseKeyMetadata ** Opt(applyLicenseKeyRevision) ** triggerAffectedDeployments) ** RespondJSON)
deleteLicenseKey ==
    Handler("deleteLicenseKey", Opt(findReferencingDeployments ** Check) ** DeleteLicenseKeyWithID ** Ok)
LicenseKeysRouter ==
    LET Changing == Mutating \cup {"RequireVendorOrPartner"}
    IN  With(InOrg,
            {getLicenseKeys} \cup With(Changing, {createLicenseKey})
            \cup After(licenseKeyMiddleware,
                    {getLicenseKeyToken, getLicenseKeyRevisions} \cup With(Changing, {updateLicenseKey, deleteLicenseKey})))

getLicenseTemplates == Handler("getLicenseTemplates", GetLicenseTemplates ** RespondJSON)
createLicenseTemplate == Handler("createLicenseTemplate", JsonBody ** Check ** CreateLicenseTemplate ** RespondJSON)
updateLicenseTemplate ==
    Handler("updateLicenseTemplate", PathValue ** JsonBody ** Check ** UpdateLicenseTemplate ** RespondJSON)
deleteLicenseTemplate == Handler("deleteLicenseTemplate", PathValue ** DeleteLicenseTemplateByID ** Ok)
LicenseTemplatesRouter ==
    With(InOrg \cup {"RequireVendor"}, {getLicenseTemplates}
        \cup With(Mutating, {createLicenseTemplate, updateLicenseTemplate, deleteLicenseTemplate}))

getLicenses ==
    Handler("getLicenses",
        Either(GetCustomerOrganizationsByPartnerOrgID, GetCustomerOrganizationsByOrganizationID)
        ** GetApplicationEntitlementsWithOrganizationID ** GetArtifactEntitlements ** GetLicenseKeys ** RespondJSON)
LicensesRouter == With(InOrg \cup {"RequireVendorOrPartner"}, {getLicenses})
getLicenseKeyPublicKeyHandler == Handler("getLicenseKeyPublicKeyHandler", Check ** Ok)
PublicLicenseKeysRouter == {getLicenseKeyPublicKeyHandler}

AccountRoutes ==
    AuthRouter \cup SettingsRouter \cup UserAccountsRouter \cup OrganizationRouter \cup ContextRouter
    \cup CustomerOrganizationsRouter \cup PartnerOrganizationsRouter \cup BillingRouter \cup WebhookRouter
    \cup LicenseKeysRouter \cup LicenseTemplatesRouter \cup LicensesRouter \cup PublicLicenseKeysRouter
=============================================================================

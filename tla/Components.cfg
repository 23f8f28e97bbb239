\* Components that share no state, each in scenes of its own.
SPECIFICATION Spec
CONSTANTS
  Connectors = {"kubernetes", "aws", "azure", "gcp", "github", "gitlab"}
  MaxTail = 3
  Registrars <- MCRegistrars
  Signals = {"AWS_PROFILE", "default profile with SSO", "application default credentials", "AZURE_CLIENT_ID", "KUBECONFIG"}
  Kubeconfigs <- MCKubeconfigs
  GitlabSetups <- MCGitlabSetups
  Requests = {q1, q2, q3}
  MaxNow = 7
  TokenLife = 3
  Environments <- MCEnvironments
  Texts <- MCTexts
  BasicToken <- MCToken
  Unset = Unset
  Findings = 2
  PassAnswers <- MCAnswers
  ToLower <- MCToLower
INVARIANTS CloudOnlyGranted ForgeOnlyGranted SkipsAreTold OperatorKnows NotReadyIsReal TokenValidWhenAsked ProxySettingsKept VerdictsEarned
CHECK_DEADLOCK FALSE

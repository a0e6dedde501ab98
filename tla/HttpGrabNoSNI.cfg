\* -no-sni and -http.
SPECIFICATION Spec
CONSTANTS
  Hosts = {h1, h2, lo}
  Named = {h1, lo}
  Local = {lo}
  MaxRedirects = 0
  Configs <- AllSettings
INVARIANTS
  NoNameSent

--------------------------- MODULE ThermalTransport ---------------------------
(***************************************************************************)
(* The lattice thermal-transport domain as the repository ships it: its      *)
(* nodes and its edges, in the groups of nodes.py and edges.py.  Of a node   *)
(* the model keeps its name, the dimension of its first field and its gauge  *)
(* discipline; of an edge its ends and what the executor asks of its formula.*)
(***************************************************************************)
EXTENDS MapElements

\* nodes.py, POTENTIAL to ENTROPY.
HarmonicNodes == <<
    Observable("Potential", "opaque"),
    Observable("Temperature", "temperature"),
    Observable("ForceConstants[order=2]", "energy_per_length_squared"),
    Observable("ForceConstants[order=3]", "energy_per_length_cubed"),
    Observable("BornCharges", "dimensionless"),
    Observable("DielectricTensor", "dimensionless"),
    Observable("BareDynamicalMatrix", "frequency_squared"),
    Observable("DynamicalMatrix", "frequency_squared"),
    Observable("Frequency", "frequency"),
    Observable("HeatCapacity", "energy_per_temperature"),
    Observable("VolumetricHeatCapacity", "energy_per_temperature_per_volume"),
    Observable("MolarHeatCapacity", "energy_per_temperature_per_mole"),
    Observable("HelmholtzFreeEnergy", "energy"),
    Observable("Entropy", "energy_per_temperature") >>

\* nodes.py, INTERNAL_ENERGY to ANHARMONIC_LINEWIDTH.
TransportNodes == <<
    Observable("InternalEnergy", "energy"),
    Observable("MolarHelmholtzFreeEnergy", "energy_per_mole"),
    Observable("MolarEntropy", "energy_per_temperature_per_mole"),
    Observable("MolarInternalEnergy", "energy_per_mole"),
    Observable("ThermalConductivity", "thermal_conductivity"),
    Observable("ThermalConductivity[bte_solver=direct_inverse]", "thermal_conductivity"),
    Observable("MeanFreeDisplacement[bte_solver=direct_inverse]", "length"),
    Scaffolding("Eigenvectors", "dimensionless", {"Frequency",
        "ThermalConductivity[bte_solver=direct_inverse]"}),
    Scaffolding("GroupVelocity", "length_times_frequency",
        {"ThermalConductivity[bte_solver=direct_inverse]"}),
    Scaffolding("Linewidth[channel=anharmonic_3ph]", "frequency",
        {"ThermalConductivity[bte_solver=direct_inverse]"}) >>

\* nodes.py, ISOTOPIC_LINEWIDTH to THERMAL_CONDUCTIVITY_RTA.
ScatteringNodes == <<
    Scaffolding("Linewidth[channel=isotope]", "frequency",
        {"ThermalConductivity[bte_solver=direct_inverse]"}),
    Scaffolding("Linewidth[channel=boundary]", "frequency",
        {"ThermalConductivity[bte_solver=direct_inverse]"}),
    Scaffolding("Linewidth[channel=total]", "frequency",
        {"ThermalConductivity[bte_solver=direct_inverse]"}),
    Observable("IsotopeAbundances", "dimensionless"),
    Observable("PhononDOS", "inverse_frequency"),
    Observable("Gruneisen", "dimensionless"),
    Observable("PhaseSpace3Phonon", "inverse_frequency"),
    Approximation("MeanFreeDisplacement[bte_solver=rta]", "length"),
    Approximation("ThermalConductivity[bte_solver=rta]", "thermal_conductivity") >>

\* nodes.py, THERMAL_CONDUCTIVITY_WIGNER_POPULATIONS to MODAL_DIFFUSIVITY.
KappaNodes == <<
    Observable("ThermalConductivity[transport_model=wigner_populations]", "thermal_conductivity"),
    Observable("ThermalConductivity[transport_model=wigner_coherences]", "thermal_conductivity"),
    Observable("ThermalConductivity[transport_model=wigner]", "thermal_conductivity"),
    Observable("CumulativeKappa[wrt=omega]", "thermal_conductivity"),
    Observable("CumulativeKappa[wrt=mfp]", "thermal_conductivity"),
    Approximation("ThermalConductivity[transport_model=qhgk]", "thermal_conductivity"),
    Observable("ParticipationRatio", "dimensionless"),
    Observable("ModalDiffusivity", "diffusivity") >>

\* nodes.py, PHONON_TRANSMISSION to THERMAL_CONDUCTIVITY_GREEN_KUBO.
DynamicsNodes == <<
    Observable("PhononTransmission", "dimensionless"),
    Observable("ThermalConductance[transport_model=landauer]", "thermal_conductance"),
    Scaffolding("Trajectory", "length", {"HeatCurrentACF", "VelocityAutocorrelation",
        "MeanSquaredDisplacement"}),
    Scaffolding("HeatCurrent", "energy_times_length_per_time", {"HeatCurrentACF"}),
    Observable("HeatCurrentACF", "opaque"),
    Observable("VelocityAutocorrelation", "opaque"),
    Observable("MeanSquaredDisplacement", "length_squared"),
    Observable("ThermalConductivity[transport_model=green_kubo]", "thermal_conductivity") >>

\* nodes.py, THERMAL_CONDUCTIVITY_NEMD to HEAT_CAPACITY_PIMD.
SamplingNodes == <<
    Observable("ThermalConductivity[transport_model=nemd]", "thermal_conductivity"),
    Observable("ThermalConductivity[transport_model=hnemd]", "thermal_conductivity"),
    Observable("QuantumKineticEnergy", "energy"),
    Observable("HeatCapacity[method=pimd]", "energy_per_temperature") >>

\* nodes.py, POTENTIAL_OF_MEAN_FORCE to MEAN_POTENTIAL_ENERGY.
EnsembleNodes == <<
    Observable("PotentialOfMeanForce", "energy"),
    Observable("PotentialUncertaintyExceedance[method=committee_force_spread]", "dimensionless"),
    Observable("MeanPotentialEnergy", "energy") >>

\* edges.py, provide_potential to compute_dispersion.
HarmonicEdges == <<
    Provide("provide_potential", "Potential"),
    Provide("provide_temperature", "Temperature"),
    Provide("provide_born_charges", "BornCharges"),
    Provide("provide_dielectric_tensor", "DielectricTensor"),
    Unevaluable("compute_force_constants[order=2]", <<"Potential">>, <<"ForceConstants[order=2]">>),
    Unevaluable("compute_force_constants[order=3]", <<"Potential">>, <<"ForceConstants[order=3]">>),
    Implicit("compute_dynamical_matrix", <<"ForceConstants[order=2]">>,
        <<"BareDynamicalMatrix">>),
    Closed("identity_dm", <<"BareDynamicalMatrix">>, <<"DynamicalMatrix">>),
    Implicit("apply_nac_correction", <<"BareDynamicalMatrix", "BornCharges",
        "DielectricTensor">>, <<"DynamicalMatrix">>),
    Implicit("compute_dispersion", <<"DynamicalMatrix">>, <<"Frequency", "Eigenvectors">>) >>

\* edges.py, compute_group_velocity to compute_anharmonic_linewidth.
ModeEdges == <<
    Implicit("compute_group_velocity", <<"DynamicalMatrix", "Frequency", "Eigenvectors">>,
        <<"GroupVelocity">>),
    Closed("compute_heat_capacity", <<"Frequency", "Temperature">>, <<"HeatCapacity">>),
    Closed("compute_free_energy", <<"Frequency", "Temperature">>, <<"HelmholtzFreeEnergy">>),
    Closed("compute_entropy", <<"Frequency", "Temperature">>, <<"Entropy">>),
    Closed("compute_internal_energy", <<"Frequency", "Temperature">>, <<"InternalEnergy">>),
    Implicit("compute_linewidth[channel=anharmonic_3ph]",
        <<"Frequency", "Eigenvectors", "ForceConstants[order=3]", "Temperature">>,
        <<"Linewidth[channel=anharmonic_3ph]">>) >>

\* edges.py, compute_isotope_scattering to solve_bte_direct.
ScatteringEdges == <<
    Implicit("compute_isotope_scattering", <<"Frequency", "Eigenvectors", "IsotopeAbundances">>,
        <<"Linewidth[channel=isotope]">>),
    Implicit("compute_boundary_scattering", <<"Frequency", "GroupVelocity">>,
        <<"Linewidth[channel=boundary]">>),
    Closed("sum_linewidths", <<"Linewidth[channel=anharmonic_3ph]", "Linewidth[channel=isotope]",
        "Linewidth[channel=boundary]">>, <<"Linewidth[channel=total]">>),
    Provide("provide_isotope_abundances", "IsotopeAbundances"),
    Implicit("solve_bte[bte_solver=rta]", <<"Frequency", "GroupVelocity",
        "Linewidth[channel=total]", "Temperature">>, <<"MeanFreeDisplacement[bte_solver=rta]">>),
    Implicit("solve_bte[bte_solver=direct_inverse]",
        <<"Frequency", "Eigenvectors", "ForceConstants[order=3]", "GroupVelocity", "HeatCapacity",
        "Linewidth[channel=total]", "Temperature">>,
        <<"MeanFreeDisplacement[bte_solver=direct_inverse]">>) >>

\* edges.py, contract_kappa_rta to combine_kappa_wigner.
KappaEdges == <<
    Implicit("contract_kappa[bte_solver=rta]",
        <<"HeatCapacity", "GroupVelocity", "MeanFreeDisplacement[bte_solver=rta]">>,
        <<"ThermalConductivity[bte_solver=rta]">>),
    Closed("contract_kappa[bte_solver=direct_inverse]",
        <<"HeatCapacity", "GroupVelocity", "MeanFreeDisplacement[bte_solver=direct_inverse]">>,
        <<"ThermalConductivity[bte_solver=direct_inverse]">>),
    Unevaluable("resolve_thermal_conductivity",
        <<"ThermalConductivity[bte_solver=direct_inverse]">>, <<"ThermalConductivity">>),
    Implicit("compute_kappa[transport_model=wigner_populations]",
        <<"HeatCapacity", "GroupVelocity", "MeanFreeDisplacement[bte_solver=direct_inverse]">>,
        <<"ThermalConductivity[transport_model=wigner_populations]">>),
    Implicit("compute_kappa[transport_model=wigner_coherences]",
        <<"HeatCapacity", "Frequency", "GroupVelocity", "Linewidth[channel=total]">>,
        <<"ThermalConductivity[transport_model=wigner_coherences]">>),
    Closed("combine_kappa_wigner", <<"ThermalConductivity[transport_model=wigner_populations]",
        "ThermalConductivity[transport_model=wigner_coherences]">>,
        <<"ThermalConductivity[transport_model=wigner]">>) >>

\* edges.py, compute_kappa_qhgk to contract_cumulative_kappa_mfp.
CoherentEdges == <<
    Implicit("compute_kappa[transport_model=qhgk]",
        <<"HeatCapacity", "Frequency", "GroupVelocity", "Linewidth[channel=total]", "Temperature">>,
        <<"ThermalConductivity[transport_model=qhgk]">>),
    Provide("provide_transmission", "PhononTransmission"),
    Unevaluable("compute_conductance[transport_model=landauer]",
        <<"PhononTransmission", "Frequency", "Temperature">>,
        <<"ThermalConductance[transport_model=landauer]">>),
    Implicit("contract_cumulative_kappa[wrt=omega]",
        <<"HeatCapacity", "Frequency", "GroupVelocity",
        "MeanFreeDisplacement[bte_solver=direct_inverse]">>, <<"CumulativeKappa[wrt=omega]">>),
    Implicit("contract_cumulative_kappa[wrt=mfp]",
        <<"HeatCapacity", "GroupVelocity", "MeanFreeDisplacement[bte_solver=direct_inverse]">>,
        <<"CumulativeKappa[wrt=mfp]">>) >>

\* edges.py, contract_volumetric_heat_capacity to compute_dos.
MolarEdges == <<
    Closed("contract_volumetric_heat_capacity", <<"HeatCapacity">>, <<"VolumetricHeatCapacity">>),
    Closed("contract_molar_heat_capacity", <<"HeatCapacity">>, <<"MolarHeatCapacity">>),
    Closed("contract_molar_free_energy", <<"HelmholtzFreeEnergy">>,
        <<"MolarHelmholtzFreeEnergy">>),
    Closed("contract_molar_entropy", <<"Entropy">>, <<"MolarEntropy">>),
    Closed("contract_molar_internal_energy", <<"InternalEnergy">>, <<"MolarInternalEnergy">>),
    Unevaluable("compute_dos", <<"Frequency">>, <<"PhononDOS">>) >>

\* edges.py, compute_gruneisen to compute_phase_space_3phonon.
AnharmonicEdges == <<
    Implicit("compute_gruneisen", <<"ForceConstants[order=2]", "ForceConstants[order=3]",
        "Frequency", "Eigenvectors">>, <<"Gruneisen">>),
    Implicit("compute_phase_space_3phonon", <<"Frequency">>, <<"PhaseSpace3Phonon">>) >>

\* edges.py, run_md to fourier_to_dos.
DynamicsEdges == <<
    Implicit("run_md", <<"Potential", "Temperature">>, <<"Trajectory">>),
    Implicit("compute_heat_current", <<"Trajectory">>, <<"HeatCurrent">>),
    Implicit("autocorrelate_heat_current", <<"HeatCurrent">>, <<"HeatCurrentACF">>),
    Implicit("compute_velocity_autocorrelation", <<"Trajectory">>, <<"VelocityAutocorrelation">>),
    Implicit("compute_msd", <<"Trajectory">>, <<"MeanSquaredDisplacement">>),
    Implicit("fourier_to_dos", <<"VelocityAutocorrelation">>, <<"PhononDOS">>) >>

\* edges.py, contract_kappa_green_kubo to compute_participation_ratio.
GreenKuboEdges == <<
    Implicit("contract_kappa[transport_model=green_kubo]", <<"HeatCurrentACF", "Temperature">>,
        <<"ThermalConductivity[transport_model=green_kubo]">>),
    Implicit("contract_kappa[transport_model=nemd]", <<"HeatCurrent", "Temperature">>,
        <<"ThermalConductivity[transport_model=nemd]">>),
    Implicit("contract_kappa[transport_model=hnemd]", <<"HeatCurrent", "Temperature">>,
        <<"ThermalConductivity[transport_model=hnemd]">>),
    Implicit("compute_participation_ratio", <<"Eigenvectors">>, <<"ParticipationRatio">>) >>

\* edges.py, compute_modal_diffusivity to sample_quantum_heat_capacity.
QuantumEdges == <<
    Implicit("compute_modal_diffusivity", <<"Frequency", "Eigenvectors",
        "Linewidth[channel=total]">>, <<"ModalDiffusivity">>),
    Implicit("sample_quantum_kinetic_energy", <<"Trajectory", "Temperature">>,
        <<"QuantumKineticEnergy">>),
    Implicit("sample_quantum_heat_capacity", <<"Trajectory", "Temperature">>,
        <<"HeatCapacity[method=pimd]">>) >>

\* edges.py, sample_pmf to sample_mean_potential_energy.
EnsembleEdges == <<
    Implicit("sample_pmf", <<"Trajectory", "Temperature">>, <<"PotentialOfMeanForce">>),
    Implicit("compute_potential_uncertainty_exceedance", <<"Potential", "Trajectory">>,
        <<"PotentialUncertaintyExceedance[method=committee_force_spread]">>),
    Implicit("sample_mean_potential_energy", <<"Potential", "Trajectory">>,
        <<"MeanPotentialEnergy">>) >>

\* The tuple EDGES, whose order decides between alternative producers.
EDGES == <<
    "provide_potential", "provide_temperature", "provide_born_charges",
    "provide_dielectric_tensor", "compute_force_constants[order=2]",
    "compute_force_constants[order=3]", "compute_dynamical_matrix", "identity_dm",
    "apply_nac_correction", "compute_dispersion", "compute_group_velocity",
    "compute_heat_capacity", "compute_free_energy", "compute_entropy",
    "compute_internal_energy", "compute_linewidth[channel=anharmonic_3ph]",
    "compute_isotope_scattering", "compute_boundary_scattering", "sum_linewidths",
    "provide_isotope_abundances", "solve_bte[bte_solver=rta]",
    "solve_bte[bte_solver=direct_inverse]", "contract_kappa[bte_solver=rta]",
    "contract_kappa[bte_solver=direct_inverse]", "resolve_thermal_conductivity",
    "compute_kappa[transport_model=wigner_populations]",
    "compute_kappa[transport_model=wigner_coherences]", "combine_kappa_wigner",
    "compute_kappa[transport_model=qhgk]", "contract_volumetric_heat_capacity",
    "contract_molar_heat_capacity", "contract_molar_free_energy", "contract_molar_entropy",
    "contract_molar_internal_energy", "compute_dos", "compute_gruneisen",
    "compute_phase_space_3phonon", "contract_cumulative_kappa[wrt=omega]",
    "contract_cumulative_kappa[wrt=mfp]", "run_md", "compute_heat_current",
    "autocorrelate_heat_current", "compute_velocity_autocorrelation", "compute_msd",
    "fourier_to_dos", "contract_kappa[transport_model=green_kubo]",
    "contract_kappa[transport_model=nemd]", "contract_kappa[transport_model=hnemd]",
    "compute_participation_ratio", "compute_modal_diffusivity", "provide_transmission",
    "compute_conductance[transport_model=landauer]", "sample_quantum_kinetic_energy",
    "sample_quantum_heat_capacity", "sample_pmf", "compute_potential_uncertainty_exceedance",
    "sample_mean_potential_energy" >>

ThermalNodes == HarmonicNodes \o TransportNodes \o ScatteringNodes \o KappaNodes
    \o DynamicsNodes \o SamplingNodes \o EnsembleNodes
ThermalEdges == InOrder(EDGES,
    HarmonicEdges \o ModeEdges \o ScatteringEdges \o KappaEdges \o CoherentEdges \o MolarEdges
    \o AnharmonicEdges \o DynamicsEdges \o GreenKuboEdges \o QuantumEdges \o EnsembleEdges)
=============================================================================
